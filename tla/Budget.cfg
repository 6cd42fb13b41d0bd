SPECIFICATION BudgetSpec
CONSTANTS
  Outputs <- MCOutputs
  Cost <- MCCost
  Requested = {1, 3, 5}
  CallIds = {a, b}
  TokenLimit = 512
  MaxSteps = 4
  Window = 1
  Threshold = 5000
  Scale = 10000
INVARIANTS
  ReportedBudgetHolds
  DowngradeFits
  ScoreTracksBudgets
  RollbackComesFirst
  DeliveredWithinCaps
