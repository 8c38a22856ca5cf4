SPECIFICATION FairSpec
CONSTANTS
  c1 = c1
  c2 = c2
  c3 = c3
  Clients <- Two
  Leavers <- One
  Dishes <- Rice
  Quantities <- Hungry
  MaxOrders = 2
  Answers <- Replies
  LongWait = 4
INVARIANTS OneShop PaysForOrder LoadAccounted
PROPERTIES OrdersEnd
CHECK_DEADLOCK FALSE
