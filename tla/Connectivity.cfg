SPECIFICATION ConnectivitySpec
CONSTANTS
  MaxRef = 2
  NewOrders <- MCNewOrders
  MaxMessages = 4
  MaxBatch = 2
  MaxDeliveries = 2
  Nodes = {n1, n2, n3}
  NoLease = NoLease
  LeaseTtl = 2
  MaxNow = 4
  MaxTokens = 4
  MaxCrashes = 1
  Callers = {a, b}
  Nobody = Nobody
  FenceTtl = 2
  MaxFenceTime = 6
  MaxEpoch = 4
  Records <- MCRecords
  MaxRecords = 2
  OrderIds = {1, 2}
  Requests <- MCRequests
  MaxCalls = 4
  ClientIds = {o1, o2}
  Throttle = 1
  MaxSends = 2
  MaxConnections = 2
INVARIANTS
  ExactFeedGivesExactBook
  AddedOrdersKeepTheirShares
  OneOwnerAtATime
  UnambiguousMeansPaired
  AnswersAgree
  BeliefIsNotAhead
  CaughtUpClientKnows
PROPERTIES
  TracksABook
  LeaseStoreIsFenced
  FencerIsFenced
CHECK_DEADLOCK FALSE
