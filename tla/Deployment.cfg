SPECIFICATION Spec
CONSTANTS
  Images = {"f7f9e6f1a2b3", "d4f8a1b2c3e9", "b7a2d4c9e8f1", "2e8c6a4d9b10", "4b91c7d8e205", "6c28d90ea413"}
  MaxFaults = 1
  Entities = {"update"}
  Stocks = {"stock"}
  Requests = {1, 2}
  MaxHooks = 3
  MaxOutside = 3
  Values = {1, 2}
  Posts = {1, 2}
  MaxRows = 2
  MaxPosts = 3
INVARIANTS OnlyInterruptedFails HeadSchema DeliveryIsKept OneHook OperationDone CacheIsShown
PROPERTIES Recovers
CHECK_DEADLOCK FALSE
