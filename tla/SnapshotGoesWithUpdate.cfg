SPECIFICATION Spec
CONSTANTS
  MaxCases = 1
  MaxSuites = 0
  Replicas = {p1}
  Retention = 1
  Budgets <- ClashBudgets
  NoRow = NoRow
INVARIANT SnapshotGoesWithUpdate
