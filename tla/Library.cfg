SPECIFICATION FairSpec
CONSTANTS
  MaxCases = 2
  MaxSuites = 1
  Replicas = {p1}
  Retention = 1
  Budgets <- LibraryBudgets
  NoRow = NoRow
INVARIANTS VersionsDense HistoryInOrder HistoryIsCurrent SuiteIsWhole
PROPERTIES RetentionHolds ExpiredSuitesGo
