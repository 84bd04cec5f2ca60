SPECIFICATION Spec
CONSTANTS
  Cases = {c1}
  Links <- OneLink
  Replicas = {p1, p2}
  Clients = {k1}
  MaxRuns = 2
  Budget <- RunsBudget
  NoRow = NoRow
  NoExecution = NoExecution
  NoStream = NoStream
  c1 = c1
\* Ids and disturbances run out, and then nothing is left to do.
SYMMETRY Interchangeable
CHECK_DEADLOCK FALSE
INVARIANTS TypeOK ToldIsTrue PillHasRecord
PROPERTIES SettledIsFinal KeepsRunContract
