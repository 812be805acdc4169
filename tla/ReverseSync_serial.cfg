CONSTANTS
  Orders = {1}
  Handlers = {h1}
  Statuses = {1, 2}
  Names = {"new", "paid", "odd"}
  StatusOf <- MCStatusOf
  OwnName = "new"
  Items = {"i1", "i2"}
  BadItems = {}
  FirstItems = "i1"
  MaxBatch = 2
  MaxConns = 2
  MaxLog = 3
  Budget <- SerialBudget
  MaxTotal = 2
SPECIFICATION FairSpec
INVARIANTS CaughtUp EchoNeverApplied
PROPERTIES EventuallyReflected
CHECK_DEADLOCK FALSE
