SPECIFICATION Spec
CONSTANTS
  l1 = l1
  l2 = l2
  l3 = l3
  o1 = o1
  o2 = o2
  o3 = o3
  o4 = o4
  NoCall = NoCall
  StockLocate <- FeedLocate
  OrderId <- FeedOrderId
  Price <- FeedPrice
  Quantity <- FeedQuantity
  Event <- FeedEvent
  Submission <- NoSubmission
  max_instruments = 2
  max_resting_orders = 2
  MaxMessages = 6
SYMMETRY FeedSymmetry
INVARIANTS
  TypeOK
  LimitsRespected
  StatsAccount
PROPERTIES
  RejectedLeavesOrders
  BooksIndependent
