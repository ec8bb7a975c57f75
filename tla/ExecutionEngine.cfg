SPECIFICATION Spec
CONSTANTS
  MaxInt64 = 7
  Second = 2
  Snapshots <- MCSnapshots
  Reports <- MCReports
  Intents <- MCIntents
  FillSizes <- MCFillSizes
  Times <- MCTimes
  Threshold = 2
  Cooldown = 2
  ClockModulus = 16
  FirstCode = 4
  Replacements <- MCReplacements
  MaxFailures = 4
  MaxOrders = 2
INVARIANTS
  CircuitMatchesFailures
  AtMostOneProbe
  AtMostOneLateSend
  TrialIsOutstanding
PROPERTIES
  SendIsAdmitted
  TrialWaitsForCooldown
