SPECIFICATION FairSpec
CONSTANTS
  Replicas = {r1, r2}
  MaxJobs = 2
  MaxRetries = 1
  NewJobs <- OneJob
  Patches <- LiveEdits
  Starts <- LiveStarts
  Suites = {s1, s2}
  Cases = {c1}
  Members <- MCMembers
  Crons = {even, odd}
  Zones = {UTC, local, typo}
  UTC = UTC
  Fires <- MCFires
  Horizon = 20
  Backoff <- MCBackoff
  Jitter = 0
  LegacyRow <- Plain
  NoRow = NoRow
  Keep = Keep
  s1 = s1
  s2 = s2
  c1 = c1
  even = even
  odd = odd
  local = local
  typo = typo
\* The bounded clock stops, and in the end nothing is left to do.
CHECK_DEADLOCK FALSE
PROPERTIES DueIsServed TickReturns BackfillCompletes
