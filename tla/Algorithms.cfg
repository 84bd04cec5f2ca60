SPECIFICATION MCSpec
CONSTANTS
  Lo <- MCLo
  Hi <- MCHi
  Zones = {"utc", "east"}
  UnknownZone = "typo"
  Last = 80
  Wall <- MCWall
  Search = 36
  Queries <- MCQueries
  Keys = {"address"}
  MaxAttempts = 2
  Window = 2
  MaxTime = 6
  Windows <- MCWindows
  MinRuns = 2
  MaxRows = 11
\* A walk ends, and the clock of the limiter stops.
CHECK_DEADLOCK FALSE
INVARIANTS NextIsLeast BurstBounded
PROPERTIES HeadroomSuffices VerdictExplained
