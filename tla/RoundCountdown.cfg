SPECIFICATION FairSpec
CONSTANTS
  diglett_num = 2
  MAX_PLAYER = 2
  GAMETIME = 2
  AlarmCarriers <- OnAny
  Leavers <- NoLeaver
  LateVisitors = FALSE
  MaxInput = 1
  LastTime = 0
PROPERTY CountdownEnds
CHECK_DEADLOCK FALSE
