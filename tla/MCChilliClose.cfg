CONSTANTS
  Customers = {c1}
  Cooks = {k1, k2}
  NoThread = NoThread
  NoOrder = NoOrder
  MaxSize = 1
  OrdersPerCustomer = 1
  MaxSpurious = 0
SPECIFICATION FairSpec
PROPERTIES
  RestaurantCloses
CHECK_DEADLOCK FALSE
