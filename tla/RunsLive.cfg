SPECIFICATION FairSpec
CONSTANTS
  Cases = {c1}
  Links <- OneLink
  Replicas = {p1, p2}
  Clients = {k1, k2}
  MaxRuns = 1
  Budget <- WatchBudget
  NoRow = NoRow
  NoExecution = NoExecution
  NoStream = NoStream
  c1 = c1
\* Ids and disturbances run out, and then nothing is left to do.
CHECK_DEADLOCK FALSE
PROPERTIES ExecutionEnds WatcherIsReleased
