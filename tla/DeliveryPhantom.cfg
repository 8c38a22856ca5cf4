SPECIFICATION Spec
CONSTANTS
  c1 = c1
  c2 = c2
  c3 = c3
  Clients <- Three
  Leavers <- Nobody
  Dishes <- Rice
  Quantities <- Single
  MaxOrders = 1
  Answers <- Replies
  LongWait = 10
INVARIANT LoadIsOutstanding
CHECK_DEADLOCK FALSE
