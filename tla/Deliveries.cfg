SPECIFICATION MCSpec
CONSTANTS
  Replicas = {p1, p2}
  MaxTime = 3
  Slots = {1, 3}
  Window = 1
  Recipients = 2
  Scenarios <- MCScenarios
  p1 = p1
  Hooks = {h1, h2}
  Retries = 2
  MaxOps = 2
  Budgets <- MCBudgets
\* The clock and the budgets run out, and then nothing is left to do.
CHECK_DEADLOCK FALSE
INVARIANTS OncePerSlot MailHasRow NothingForgotten AttemptsOnRecord DeletedHookQuiets
PROPERTIES DueGoesOut CampaignSettles
