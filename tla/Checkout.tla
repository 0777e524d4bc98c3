------------------------------ MODULE Checkout ------------------------------
(***************************************************************************)
(* complete_sale for a shop without branches: stock, promotion, the        *)
(* customer's credit and loyalty points; and the payments that customers   *)
(* make against their credit.                                              *)
(*                                                                         *)
(* The customer and the promotion are read before the transaction and are  *)
(* not locked.  The products are locked and checked again.  The invoice    *)
(* number locks its sequence until the sale commits, so that of two sales  *)
(* only one at a time is past its insertion.                               *)
(***************************************************************************)
EXTENDS Integers, Sequences, FiniteSets, Functions

CONSTANTS
  Handler,      \* web requests
  Product, Supply,   \* products and their initial stock
  Customer, Nobody,
  Limit,       \* each customer's credit_limit
  Basket,      \* what may be bought: see CheckoutAssumption
  Price,
  PromoType, PromoDiscount,    \* the promotion: its type; the amount of a "fixed" one,
  BuyQuantity, GetQuantity,    \* or how many are bought, and free, of a "buy_x_get_y" one
  PerPoint,    \* amount that earns a point
  MinRedeem,   \* points that may be redeemed at least
  MaxUses,     \* the promotion's max_uses
  Payments,    \* amounts in which customers pay
  MaxSales, MaxPaid  \* bounds: sales, and payments, altogether

Line == [product : Product, quantity : Nat \ {0}]

ASSUME CheckoutAssumption ==
  /\ IsFiniteSet(Handler)
  /\ Supply \in [Product -> Nat] /\ Limit \in [Customer -> Nat] /\ Nobody \notin Customer
  /\ Price \in Nat /\ PromoDiscount \in Nat /\ BuyQuantity \in Nat \ {0} /\ GetQuantity \in Nat
  /\ PromoType \in {"fixed", "buy_x_get_y"} /\ PerPoint \in Nat \ {0} /\ MinRedeem \in Nat \ {0}
  /\ MaxUses \in Nat \ {0} /\ Payments \subseteq Nat \ {0} /\ MaxSales \in Nat /\ MaxPaid \in Nat
  /\ \A b \in Basket :
       /\ b.lines \in Seq(Line) /\ b.lines # <<>>
       /\ b.customer \in Customer \cup {Nobody} /\ b.credit \in BOOLEAN
       /\ b.promo \in BOOLEAN /\ b.redeem \in Nat

VARIABLES
  stock,      \* Product.stock_quantity
  uses,       \* Promotion.uses_count
  customers,  \* Customer: credit_balance and loyalty_points
  saleRows,   \* Sale rows in the order of their invoice numbers
  paid,       \* CustomerPayment rows
  requests,   \* each handler's request
  crossed,    \* history: customers with whom two requests dealt at the same time
  torn        \* history: customers whose payment died between its two writes

checkoutVars == <<stock, uses, customers, saleRows, paid, requests, crossed, torn>>
checkoutTables == <<stock, uses, customers, saleRows, paid>>

NoCustomer == [balance |-> 0, points |-> 0]
NoBasket == [lines |-> <<>>, customer |-> Nobody, credit |-> FALSE, promo |-> FALSE, redeem |-> 0]
NoRequest == [at |-> "idle", customer |-> Nobody, copy |-> NoCustomer, basket |-> NoBasket,
         promotion |-> FALSE, found |-> Supply, amount |-> 0]

CheckoutInit ==
  /\ stock = Supply /\ uses = 0
  /\ customers = [c \in Customer |-> NoCustomer]
  /\ saleRows = <<>> /\ paid = <<>>
  /\ requests = [h \in Handler |-> NoRequest]
  /\ crossed = {} /\ torn = {}

AtStep(h, place) == requests[h].at = place
Proceed(h, request) == requests' = [requests EXCEPT ![h] = request]
RefuseSale(h) == Proceed(h, NoRequest) /\ UNCHANGED <<checkoutTables, crossed, torn>>

Copy(c) == IF c = Nobody THEN NoCustomer ELSE customers[c]
Meet(h, c) ==
  crossed' = crossed \cup {d \in {c} \ {Nobody} : \E g \in Handler \ {h} : requests[g].customer = d}

SumOf(rows, f(_)) == SumFunctionOnSet([n \in DOMAIN rows |-> f(rows[n])], DOMAIN rows)
Quantity(lines, p) == SumOf(lines, LAMBDA l : IF l.product = p THEN l.quantity ELSE 0)
Bought(lines) == {lines[n].product : n \in DOMAIN lines}
Enough(lines, level) == \A n \in DOMAIN lines : level[lines[n].product] >= lines[n].quantity

-----------------------------------------------------------------------------
(* complete_sale.                                                          *)

\* The customer; a sale on credit needs one with a credit limit.
AskCustomer(h, b) ==
  /\ AtStep(h, "idle") /\ Len(saleRows) < MaxSales
  /\ b.credit => b.customer # Nobody /\ Limit[b.customer] > 0
  /\ Proceed(h, [NoRequest EXCEPT !.at = "price", !.customer = b.customer,
                                  !.copy = Copy(b.customer), !.basket = b])
  /\ Meet(h, b.customer) /\ UNCHANGED <<checkoutTables, torn>>

\* is_valid, as read without a lock.
PromotionLeftOrLast == uses <= MaxUses
PromotionLeft == uses < MaxUses

\* The first look at the stock, and the promotion.
PriceBasket(h) ==
  /\ AtStep(h, "price")
  /\ IF ~Enough(requests[h].basket.lines, stock) THEN RefuseSale(h)
     ELSE /\ Proceed(h, [requests[h] EXCEPT !.at = "lock",
                                            !.promotion = requests[h].basket.promo /\ PromotionLeft])
          /\ UNCHANGED <<checkoutTables, crossed, torn>>

Locks(h) == IF requests[h].at \in {"number", "sell"} THEN Bought(requests[h].basket.lines) ELSE {}
ProductsIgnored(h, S) == TRUE
ProductsFree(h, S) == \A g \in Handler \ {h} : Locks(g) \cap S = {}

\* select_for_update of all products of the basket, and the second look.
LockProducts(h) ==
  LET lines == requests[h].basket.lines IN
  /\ AtStep(h, "lock") /\ ProductsFree(h, Bought(lines))
  /\ IF ~Enough(lines, stock) THEN RefuseSale(h)
     ELSE /\ Proceed(h, [requests[h] EXCEPT !.at = "number", !.found = stock])
          /\ UNCHANGED <<checkoutTables, crossed, torn>>

\* Sale.save takes the next invoice number.
Number(h) ==
  /\ AtStep(h, "number") /\ \A g \in Handler : ~AtStep(g, "sell")
  /\ Proceed(h, [requests[h] EXCEPT !.at = "sell"]) /\ UNCHANGED <<checkoutTables, crossed, torn>>

\* deduct_stock line by line on the locked objects: a line for which too little
\* is left takes nothing, and nobody looks at its answer.
Deduct(level, line) ==
  IF level[line.product] >= line.quantity THEN [level EXCEPT ![line.product] = @ - line.quantity]
  ELSE level
Deducted(level, lines) ==
  LET left[n \in 0..Len(lines)] == IF n = 0 THEN level ELSE Deduct(left[n - 1], lines[n])
  IN  left[Len(lines)]

\* A fixed promotion takes no more off than the basket is worth.  The units that
\* another gives are taken off the units bought, and are worth more than those
\* where more are given than are bought; so may redeemed points be.  The total
\* is then negative.
Goods(r) == SumOf(r.basket.lines, LAMBDA l : l.quantity * Price)
GivenUnits(r) == SumOf(r.basket.lines, LAMBDA l : (l.quantity \div BuyQuantity) * GetQuantity)
PromoWorth(r) ==
  IF PromoType = "fixed" THEN (IF PromoDiscount < Goods(r) THEN PromoDiscount ELSE Goods(r))
  ELSE GivenUnits(r) * Price
Discount(r) == IF r.promotion THEN PromoWorth(r) ELSE r.basket.redeem
Charge(r) == Goods(r) - Discount(r)
Redeemed(r) == IF r.promotion THEN 0 ELSE r.basket.redeem

CreditUnchecked(r) == TRUE
CreditSuffices(r) ==
  r.basket.credit =>
    Charge(r) <= (IF r.copy.balance < Limit[r.customer] THEN Limit[r.customer] - r.copy.balance ELSE 0)
PointsSuffice(r) ==
  r.customer # Nobody /\ Redeemed(r) > 0 => Redeemed(r) >= MinRedeem /\ Redeemed(r) <= r.copy.points

\* The customer's row is saved whole, from the copy read before the transaction.
Earned(total) == IF total > 0 THEN total \div PerPoint ELSE 0
Served(r) ==
  [balance |-> r.copy.balance + (IF r.basket.credit THEN Charge(r) ELSE 0),
   points |-> r.copy.points - Redeemed(r) + Earned(Charge(r))]

CompleteSale(h) ==
  LET r == requests[h]  b == r.basket IN
  /\ AtStep(h, "sell") /\ Len(saleRows) < MaxSales
  /\ IF ~(CreditSuffices(r) /\ PointsSuffice(r)) THEN RefuseSale(h)
     ELSE /\ stock' = [p \in Product |->
                         IF p \in Bought(b.lines) THEN Deducted(r.found, b.lines)[p] ELSE stock[p]]
          /\ uses' = uses + (IF r.promotion THEN 1 ELSE 0)
          /\ customers' = IF r.customer = Nobody THEN customers
                          ELSE [customers EXCEPT ![r.customer] = Served(r)]
          /\ saleRows' = Append(saleRows, [lines |-> b.lines, customer |-> r.customer,
                       credit |-> b.credit, promotion |-> r.promotion,
                       redeemed |-> Redeemed(r), total |-> Charge(r)])
          /\ Proceed(h, NoRequest) /\ UNCHANGED <<paid, crossed, torn>>

-----------------------------------------------------------------------------
(* customer_credit_payment: no transaction.                                *)

AskPayment(h, c, amount) ==
  /\ AtStep(h, "idle") /\ Len(paid) < MaxPaid /\ amount <= customers[c].balance
  /\ Proceed(h, [NoRequest EXCEPT !.at = "pay", !.customer = c, !.copy = customers[c], !.amount = amount])
  /\ Meet(h, c) /\ UNCHANGED <<checkoutTables, torn>>

InsertPayment(h) ==
  /\ AtStep(h, "pay") /\ Len(paid) < MaxPaid
  /\ paid' = Append(paid, [customer |-> requests[h].customer, amount |-> requests[h].amount])
  /\ Proceed(h, [requests[h] EXCEPT !.at = "balance"])
  /\ UNCHANGED <<stock, uses, customers, saleRows, crossed, torn>>

SaveBalance(h) ==
  LET r == requests[h] IN
  /\ AtStep(h, "balance")
  /\ customers' = [customers EXCEPT ![r.customer].balance =
                     IF r.copy.balance > r.amount THEN r.copy.balance - r.amount ELSE 0]
  /\ Proceed(h, NoRequest) /\ UNCHANGED <<stock, uses, saleRows, paid, crossed, torn>>

-----------------------------------------------------------------------------
\* An exception or the death of the process.  A sale is rolled back, a payment
\* that was inserted stays.
Die(h) ==
  /\ ~AtStep(h, "idle")
  /\ torn' = IF AtStep(h, "balance") THEN torn \cup {requests[h].customer} ELSE torn
  /\ Proceed(h, NoRequest) /\ UNCHANGED <<checkoutTables, crossed>>

-----------------------------------------------------------------------------
CheckoutNext == \E h \in Handler :
  \/ \E b \in Basket : AskCustomer(h, b)
  \/ PriceBasket(h) \/ LockProducts(h) \/ Number(h) \/ CompleteSale(h)
  \/ \E c \in Customer, amount \in Payments : AskPayment(h, c, amount)
  \/ InsertPayment(h) \/ SaveBalance(h) \/ Die(h)

CheckoutSpec == CheckoutInit /\ [][CheckoutNext]_checkoutVars

-----------------------------------------------------------------------------
Sold(p) == SumOf(saleRows, LAMBDA s : Quantity(s.lines, p))
ListedTwice(p) == \E n \in DOMAIN saleRows :
  \E i, j \in DOMAIN saleRows[n].lines :
    i # j /\ saleRows[n].lines[i].product = p /\ saleRows[n].lines[j].product = p

\* Sales never drive the stock below zero, and what they sold is what left the
\* stock, whatever sales cross; only a product that a sale lists on two lines
\* may have been sold without leaving it.
\* (complete_sale, which looks at the stock twice and locks it in between.)
StockSold == \A p \in Product :
  /\ stock[p] >= 0
  /\ Supply[p] - stock[p] <= Sold(p)
  /\ ListedTwice(p) \/ Supply[p] - stock[p] = Sold(p)

\* uses_count is the number of sales with the promotion, and exceeds max_uses
\* by no more than the requests that can be under way beside the last one.
\* (complete_sale: validity read before the transaction, counted inside it.)
PromotionUses ==
  /\ uses = SumOf(saleRows, LAMBDA s : IF s.promotion THEN 1 ELSE 0)
  /\ uses <= MaxUses + Cardinality(Handler) - 1

\* For a customer with whom requests dealt one after the other, and whose
\* payments did not die half-way, the credit balance is what was bought on
\* credit less what was paid (but for a payment between its two writes) and
\* within the limit; it is negative only if a total was, from points or a
\* promotion worth more than the basket.  The points are those earned less those
\* redeemed, and not negative.
\* (complete_sale and CustomerPayment.save, on copies that nothing locks.)
OnCredit(c) == SumOf(saleRows, LAMBDA s : IF s.customer = c /\ s.credit THEN s.total ELSE 0)
PaidOff(c) == SumOf(paid, LAMBDA q : IF q.customer = c THEN q.amount ELSE 0)
PointsDue(c) ==
  SumOf(saleRows, LAMBDA s : IF s.customer = c THEN Earned(s.total) - s.redeemed ELSE 0)
Overdiscounted(c) == \E n \in DOMAIN saleRows : saleRows[n].customer = c /\ saleRows[n].total < 0
Paying(c) == \E h \in Handler : AtStep(h, "balance") /\ requests[h].customer = c

CustomerKept == \A c \in Customer \ (crossed \cup torn) :
  /\ Paying(c) \/ customers[c].balance = OnCredit(c) - PaidOff(c)
  /\ customers[c].balance <= Limit[c]
  /\ Overdiscounted(c) \/ customers[c].balance >= 0
  /\ customers[c].points = PointsDue(c) /\ customers[c].points >= 0

=============================================================================
