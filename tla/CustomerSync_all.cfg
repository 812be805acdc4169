CONSTANTS
  Customers = {1, 2, 3, 4}
  Email <- MCEmail
  Phone <- MCPhone
  Name <- MCName
  Limit = 1
  Budget <- AllKinds
  MaxTotal = 3
SPECIFICATION FairSpec
INVARIANTS OneContactPerAddress
PROPERTIES NothingBlanked EveryoneDecided
CHECK_DEADLOCK FALSE
