CONSTANTS
  Orders = {1, 2}
  Products = {"p1", "p2"}
  Items <- MCItems
  ChunkSize = 2
  Handlers = {h1, h2}
  MaxTries = 2
  Budget <- Each
  MaxTotal = 2
SPECIFICATION FairSpec
INVARIANTS DealsAccounted ChunksInTurn AnsweredInFull AbandonedAccounted
PROPERTIES WebhookMakesDeal
CHECK_DEADLOCK FALSE
