CONSTANTS
  Orders = {1}
  Handlers = {h1, h2}
  Statuses = {1, 2}
  Names = {"new"}
  StatusOf <- MCStatusOf
  OwnName = "new"
  Items = {"i1", "i2", "bad"}
  BadItems = {"bad"}
  FirstItems = "i1"
  MaxBatch = 1
  MaxConns = 2
  MaxLog = 3
  Budget <- ParallelBudget
  MaxTotal = 1
SPECIFICATION ServedSpec
INVARIANTS OwnVersionsOnly LeakOncePerOrder
PROPERTIES Answered CaughtUpApart ImplementsContract
CHECK_DEADLOCK FALSE
