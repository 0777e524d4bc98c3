SPECIFICATION FairSpec
CONSTANTS
  hq = hq
  shop = shop
  tea = tea
  oil = oil
  order = order
  slip = slip
  old = old
  Branch = {hq, shop}
  Product = {tea, oil}
  Tx = {t1, t2}
  Free = Free
  Doc = {order, slip, old}
  NoDoc = NoDoc
  Shipped = {old}
  Opening <- MCOpening
  ProductId <- MCProductId
  NameRank <- MCNameRank
  Requests <- AllRequests
INVARIANTS LedgerExplainsStock NoWaitCycle
PROPERTIES ImplementsAccount EveryTxEnds
CHECK_DEADLOCK FALSE
