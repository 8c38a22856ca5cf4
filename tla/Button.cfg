SPECIFICATION Spec
CONSTANTS
  b1 = b1
  b2 = b2
  p1 = p1
  p2 = p2
  Buttons <- TwoButtons
  Sessions <- Both
  Cycle = 64
  Boot = 8
  Debounce = 2
  MaxTime = 3
  MaxPresses = 3
  MaxOpens = 3
INVARIANTS ButtonsWork ClosedMeansSilent ReadsInOrder
PROPERTIES DebounceExact
CHECK_DEADLOCK FALSE
