SPECIFICATION Spec
CONSTANTS
  hq = hq
  shop = shop
  Branch = {hq, shop}
  Product = {1}
  Doc = {d1, d2}
  HQ = hq
  Opening <- MCOpening
  UnitCost <- MCUnitCost
  Rule <- SmallTransfers
  NoQty = NoQty
  MaxQty = 2
  MaxTraded <- MCTraded
  MaxMoved = 2
  MaxReceipts = 2
INVARIANTS LedgerMatchesStock ParentFollowsShipment ReceiptsMatchLedger
PROPERTIES SentForGood
SYMMETRY Symmetry
CHECK_DEADLOCK FALSE
