SPECIFICATION FailoverSpec
CONSTANTS
  Callers = {a, b}
  Nobody = Nobody
  FenceTtl = 2
  MaxFenceTime = 6
  MaxEpoch = 4
INVARIANT PromotedStandbyGetsLease
CHECK_DEADLOCK FALSE
