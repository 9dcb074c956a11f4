CONSTANTS
  Customers = {c1, c2}
  Cooks = {k1, k2, k3}
  NoThread = NoThread
  NoOrder = NoOrder
  MaxSize = 2
  OrdersPerCustomer = 2
  MaxSpurious = 1
SPECIFICATION FairSpec
INVARIANTS
  ChilliInv
  ClosedComplete
PROPERTIES
  ImplementsBook
  AllOrdersHandled
CHECK_DEADLOCK FALSE
