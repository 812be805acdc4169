CONSTANTS
  Orders = {1, 2, 3}
  Statuses = {1}
  Placed = {1}
  B2BOrders = {3}
  Rejected = {}
  Products = {"p0", "p1"}
  NoUid = {"p0"}
  Lines <- MCLines
  WfStatuses = {"pending", "paid"}
  Poller = poller
  Pushers = {}
  Limit = 2
  Budget <- RestartBudget
  MaxTotal = 5
SPECIFICATION FairSpec
INVARIANTS PaymentOnItsSale
PROPERTIES NeverRelinked PaidOrderGetsPayment PaymentConverges
