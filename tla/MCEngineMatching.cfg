SPECIFICATION FairSpec
CONSTANTS
  l1 = l1
  l2 = l2
  l3 = l3
  o1 = o1
  o2 = o2
  o3 = o3
  o4 = o4
  NoCall = NoCall
  StockLocate <- SimLocate
  OrderId <- SimOrderId
  Price <- SimPrice
  Quantity <- SimQuantity
  Event <- SimEvent
  Submission <- SimSubmission
  max_instruments = 1
  max_resting_orders = 3
  MaxMessages = 3
INVARIANTS
  FillsMatchBook
  FillsReported
  PriceTimePriority
PROPERTIES
  ReturnsComplete
  CallsReturn
