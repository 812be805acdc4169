CONSTANTS
  Orders = {1}
  Handlers = {h1}
  Statuses = {1, 2}
  Names = {"new", "paid", "odd"}
  StatusOf <- MCStatusOf
  OwnName = "new"
  Items = {"i1", "bad"}
  BadItems = {"bad"}
  FirstItems = "i1"
  MaxBatch = 1
  MaxConns = 2
  MaxLog = 3
  Budget <- None
  MaxTotal = 4
SPECIFICATION Spec
INVARIANTS NoAbandonedLock
CHECK_DEADLOCK FALSE
