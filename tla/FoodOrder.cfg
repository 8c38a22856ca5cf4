SPECIFICATION FoodSpec
CONSTANTS
  Dishes <- Menu
  Quantities <- Few
  MaxClients = 3
  MaxOrders = 2
INVARIANT OrderAsAsked
PROPERTIES BillAsAsked
CHECK_DEADLOCK FALSE
