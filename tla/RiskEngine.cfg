SPECIFICATION CallersSpec
CONSTANTS
  MaxInt64 = 7
  Second = 3
  Snapshots <- MCSnapshots
  Reports <- MCReports
  Intents <- MCIntents
  FillSizes <- MCFillSizes
  Times <- MCTimes
  MaxTime = 6
INVARIANTS
  RiskInv
  ApprovedIsFillable
  RateBurst
