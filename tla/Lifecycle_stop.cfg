CONSTANTS
  Handlers = {h1, h2}
  Loops = {orders}
  Main = main
  Nobody = nobody
  MaxConns = 4
  MaxLeaks = 1
  MaxFaults = 1
SPECIFICATION FairSpec
INVARIANT ClosedUnderNobody
PROPERTIES RequestsEnd ShutdownEnds
CHECK_DEADLOCK FALSE
