SPECIFICATION TradingSpec
CONSTANTS
  InstrumentCount = 2
  Orders <- MCOrders
  Limits <- MCLimits
  Unit <- MCUnit
  LocateRequired <- MCLocateRequired
  Loading <- MCLoading
  Covariance <- MCCovariance
  SpecificVariance <- MCSpecificVariance
  MarkQuotes <- MCMarkQuotes
  MaxFills = 4
  MaxLocates = 2
  Quotes <- MCQuotes
  Trades <- MCTrades
  Signals <- MCSignals
  MaxPosition = 3
  Latency = 2
  KeepTenths = 8
  MaxTime = 4
  MaxEvents = 5
  ReplayQuotes <- MCReplayQuotes
  ReplaySignals <- MCReplaySignals
  ReplayMaxPosition = 2
  MaxReplayTime = 2
  MaxGiven = 2
  MaxReplayFills = 3
  MaxRuns = 2
INVARIANTS
  ProfitIsCash
  ShortsAreLocated
  ApprovalHolds
  SnapshotIsSound
  DepthIsTakenBestFirst
  FillsBelongToOrders
  FillsUseTheLastQuote
PROPERTIES
  BacktestsKeepLedger
  QueueKeepsPriority
CHECK_DEADLOCK FALSE
