SPECIFICATION FairSpec
CONSTANTS
  GAMETIME = 2
  CallsFail <- AnyCall
  MaxSnapshots = 2
  LastTime <- BelowZero
  MaxPresses = 1
  MaxStarts = 2
INVARIANTS WholeSnapshot CleanEnd OverIsOver
PROPERTIES ClientEnds
CHECK_DEADLOCK FALSE
