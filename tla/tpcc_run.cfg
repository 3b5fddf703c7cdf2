SPECIFICATION FairSpec
CONSTANTS
  NumWarehouse = 3
  NumDistrict = 1
  NumCustomer = 3
  NumItem = 6
  NumStock = 6
  Word = 128
  HistoryShift = 32
  MaxOrderId = 16
  MinOlCnt = 1
  MaxOlCnt = 2
  Junk <- MCNegativeJunk
  StockQuantity = 15
  ItemPool = {2, 3}
  CustomerPool = {3}
  QuantityPool = {1, 10}
  MaxTxn = 2
  MaxCrash = 0
  MaxLost = 0
  StockLevelOrders = 3
  Slots = 4
  Flags <- MCFlags
  WarehouseName <- MCWarehouseName
  ItemName <- MCItemName
  OrderCustomer <- MCOrderCustomer
  OrderLines <- MCOrderLines
  LineItem <- MCLineItem
  HeapAddress <- MCHeapAddress
INVARIANTS
  TypeOK
  StockBounds
  StockConserved
  RemoteCounted
  NoOverflow
  OrderIdsDense
  LinesDistinct
  RemoteLinesInserted
  StockLevelCountsItems
  MixFollowsFlags
  TablesKeyed
PROPERTIES
  ImplementsOrderEntry
