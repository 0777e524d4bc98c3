SPECIFICATION Spec
CONSTANTS
  mainTea = mainTea
  shopTea = shopTea
  mainOil = mainOil
  tea = tea
  oil = oil
  sheet = sheet
  po = po
  Account = {mainTea, shopTea, mainOil}
  Product = {tea, oil}
  ProductOf <- MCProductOf
  Session = {r1, r2, r3}
  Doc = {sheet}
  Voucher = {po}
  Orders <- MCOrders
  Counts = {0, 2}
  Counted = {mainTea}
  Posters = {r1, r2}
  r1 = r1
  r2 = r2
  r3 = r3
  MaxRunning = 2
  Lenient = {}
  Opening <- MCOpening
  None = None
INVARIANTS
  ChainedWhenAlone
  OnHandNotNegative
  TransferWhole
  CountTakesEffect
  ReceiptIsPrefix
PROPERTIES
  EverySessionEnds
CHECK_DEADLOCK FALSE
