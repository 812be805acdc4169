CONSTANTS
  Products = {"a", "b"}
  Present = {"sub_total", "tax", "discount", "shipping", "coupon", "total", "voucher"}
  Stored <- MCStored
  Payloads = {}
  Vat = 23
  MasterPrice <- MCMaster
  Carriage = "ship"
  ChunkSize = 2
  Quantities = {1, 2}
  Discounts = {0, 1000}
  Prices = {20000}
  Budget <- OnePush
  MaxTotal = 1
SPECIFICATION SpecAll
INVARIANT NoRowTwice
CHECK_DEADLOCK FALSE
