SPECIFICATION Spec
CONSTANTS
  diglett_num = 2
  MAX_PLAYER = 2
  GAMETIME = 2
  AlarmCarriers <- OnZero
  Leavers <- OneLeaver
  LateVisitors = FALSE
  MaxInput = 1
  LastTime = 0
INVARIANTS QuiescentViewsFresh
PROPERTIES PlaysByTheRules
CHECK_DEADLOCK FALSE
