SPECIFICATION SessionSpec
CONSTANTS
  MaxInt64 = 7
  Second = 2
  Snapshots = {}
  Reports = {}
  Intents <- MCIntents
  FillSizes = {}
  Times = {1}
  Threshold = 2
  Cooldown = 2
  ClockModulus = 16
  FirstCode = 4
  Replacements = {}
  MaxFailures = 3
  MaxOrders = 3
INVARIANT
  ReadyNeedsSession
