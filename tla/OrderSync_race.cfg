CONSTANTS
  Orders = {1, 2, 3, 4, 5}
  Statuses = {1, 17, 7}
  Placed = {1}
  B2BOrders = {3}
  Rejected = {2}
  Products = {"p0", "p1"}
  NoUid = {"p0"}
  Lines <- MCLines
  WfStatuses = {"paid"}
  Poller = poller
  Pushers = {w1}
  Limit = 3
  Budget <- RaceBudget
  MaxTotal = 2
SPECIFICATION FairSpec
INVARIANTS RecordsBelong DuplicatesAccounted
PROPERTIES ImplementsContract HealthyOrderLinked WholesaleSettles
