---------------------------- MODULE MCStockLedger ----------------------------
(***************************************************************************)
(* Two requests on three accounts: tea in the main store and in the shop,  *)
(* oil in the main store.                                                  *)
(***************************************************************************)
EXTENDS StockLedger

CONSTANTS mainTea, shopTea, mainOil, tea, oil, sheet, po

Move(a, n) == [account |-> a, qty |-> n]
Ask(kind, doc, lines) == [kind |-> kind, doc |-> doc, lines |-> lines]

MCProductOf == [a \in Account |-> IF a = mainOil THEN oil ELSE tea]
MCOpening == <<Move(mainTea, 1), Move(shopTea, 1), Move(mainOil, 1)>>

\* Transfers both ways, a delivery that may run out of stock at either line,
\* and a purchase of both products.
There == Ask("transfer", None, <<Move(mainTea, -1), Move(shopTea, 1)>>)
Back == Ask("transfer", None, <<Move(shopTea, -1), Move(mainTea, 1)>>)
Delivery == Ask("delivery", None, <<Move(mainOil, -2), Move(mainTea, -1)>>)
Purchase == Ask("receipt", po, <<Move(mainTea, 1), Move(mainOil, 1)>>)

\* Two requests that meet in any of these, and one that receives the purchase
\* or saves it again.
CONSTANTS r1, r2, r3
MCOrders ==
  [s \in Session |-> CASE s = r1 -> {There, Delivery, Purchase}
                       [] s = r2 -> {Back, Delivery}
                       [] s = r3 -> {Purchase}]

=============================================================================
