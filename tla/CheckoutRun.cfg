SPECIFICATION CheckoutSpec
CONSTANTS
  Handler = {h1, h2}
  Product = {"tea", "rice"}
  Supply <- MCSupply
  Customer = {"eve"}
  Nobody = "nobody"
  Limit <- MCLimit
  Basket <- MCBasket
  Price = 2
  PromoType = "buy_x_get_y"
  PromoDiscount = 1
  BuyQuantity = 1
  GetQuantity = 2
  PerPoint = 2
  MinRedeem = 1
  MaxUses = 1
  Payments = {2}
  MaxSales = 3
  MaxPaid = 2
INVARIANTS
  StockSold
  PromotionUses
  CustomerKept
SYMMETRY Symmetry
CHECK_DEADLOCK FALSE
