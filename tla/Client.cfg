SPECIFICATION MCSpec
CONSTANTS
  Tours <- MCTours
  MaxWrites = 2
  MaxRuns = 2
  MaxFaults = 2
\* A panel that was left is not opened again.
CHECK_DEADLOCK FALSE
INVARIANTS  PanelTellsVerdict
PROPERTIES  PanelIsReleased
