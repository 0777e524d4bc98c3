SPECIFICATION Spec
CONSTANTS
  tea = tea
  Session = {r1, r2}
  Line = {1, 2}
  Product = {tea}
  ProductOf <- MCProductOf
  Ordered <- MCOrdered
  Note = {n1, n2}
  Opening <- MCOpening
  MaxSold <- MCMaxSold
  Deliveries <- MCDeliveries
  Returned <- MCReturned
  MaxOverwritten = 1
INVARIANTS
  WithinOrder
  StockAccounted
  ReturnsWithinReceipt
  ReceiptNoteCurrent
SYMMETRY Symmetry
CHECK_DEADLOCK FALSE
