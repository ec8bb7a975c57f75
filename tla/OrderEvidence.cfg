SPECIFICATION EvidenceSpec
CONSTANTS
  MaxInt64 = 7
  Second = 2
  Snapshots <- MCSnapshots
  Reports <- MCReports
  Intents <- OneOrder
  FillSizes <- MCFillSizes
  Times <- MCTimes
  Threshold = 2
  Cooldown = 0
  ClockModulus = 16
  FirstCode = 4
  Replacements <- MCReplacements
  MaxFailures = 1
  MaxOrders = 2
  MaxEvents <- MCMaxEvents
  MaxSharedOrders = 1
INVARIANTS
  EvidenceChain
  JournalReplaysToActive
  DecisionIdIsJournaled
