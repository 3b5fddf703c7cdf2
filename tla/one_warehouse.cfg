SPECIFICATION Spec
CONSTANTS
  NumWarehouse = 1
  NumDistrict = 2
  NumCustomer = 3
  NumItem = 6
  NumStock = 6
  Word = 128
  HistoryShift = 32
  MaxOrderId = 8
  MinOlCnt = 1
  MaxOlCnt = 2
  Junk <- MCNegativeJunk
  StockQuantity = 20
  ItemPool = {2, 3}
  CustomerPool = {2, 3}
  QuantityPool = {1, 10}
  MaxTxn = 1
  MaxCrash = 0
  MaxLost = 0
  StockLevelOrders = 3
  Slots = 4
  Flags <- MCFlags
  WarehouseName <- MCWarehouseName
  ItemName <- MCItemName
  OrderCustomer <- MCOrderCustomer
  OrderLines <- MCOrderLines
  LineItem <- MCLineItem
  HeapAddress <- MCHeapAddress
INVARIANTS
  PickAsserts
