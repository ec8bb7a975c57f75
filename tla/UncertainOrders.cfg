SPECIFICATION JournalSpec
CONSTANTS
  Correlations = {c1, c2}
  Radix = 2
  MaxAppends = 4
  MaxReopens = 3
  MaxTears = 2
INVARIANT UnansweredIsUncertain
CHECK_DEADLOCK FALSE
