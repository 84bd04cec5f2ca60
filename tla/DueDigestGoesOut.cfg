SPECIFICATION MCSpec
CONSTANTS
  Replicas = {p1}
  MaxTime = 4
  Slots = {1, 3}
  Window = 4
  Recipients = 1
  Scenarios <- FaultScenarios
  p1 = p1
  Hooks = {h1, h2}
  Retries = 2
  MaxOps = 2
  Budgets <- MCBudgets
\* The clock and the budgets run out, and then nothing is left to do.
CHECK_DEADLOCK FALSE
PROPERTY DueDigestGoesOut
