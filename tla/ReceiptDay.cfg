SPECIFICATION MCSpec
CONSTANTS
  End = 5
  Last = 12
  Offset = 1
  Instance <- NoCases
  Source <- Stores
INVARIANTS
  OrdersCountOnTheirDay
