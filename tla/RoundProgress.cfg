SPECIFICATION FairSpec
CONSTANTS
  diglett_num = 3
  MAX_PLAYER = 2
  GAMETIME = 3
  AlarmCarriers <- OnTimer
  Leavers <- OneLeaver
  LateVisitors = TRUE
  MaxInput = 0
  LastTime = 0
PROPERTIES PlaysByTheRules CountdownEnds DepartedThreadEnds
CHECK_DEADLOCK FALSE
