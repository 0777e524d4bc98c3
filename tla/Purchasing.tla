----------------------------- MODULE Purchasing -----------------------------
(***************************************************************************)
(* One approved purchase order: its receipts, the goods received note that *)
(* is rebuilt after each of them, the goods returned notes, and the        *)
(* products whose stock_quantity they move.                                *)
(*                                                                         *)
(* Outside transaction.atomic every statement commits by itself: a view    *)
(* reads the order or the note, decides on what it has read, and saves     *)
(* that copy later.  Each read, each transaction and each save is an       *)
(* action.  A save writes what the copy says, also when the row has        *)
(* changed meanwhile; "overwritten" records the rows to which that         *)
(* happened.                                                               *)
(***************************************************************************)
EXTENDS Integers, Sequences, FiniteSets, FiniteSetsExt, Functions

CONSTANTS
  Session,    \* requests, each handled by one process
  Line,       \* PurchaseItem.id of the order's lines
  Product,
  ProductOf,  \* the product of each line; two lines may have the same
  Ordered,    \* PurchaseItem.quantity
  Note,       \* goods returned notes
  Opening,    \* Product.stock_quantity at the start
  Deliveries, \* what may be entered for a delivery
  Returned,   \* the quantities a note may return
  MaxSold,    \* bound: units of each product that are sold
  MaxOverwritten \* bound: saves from an old copy

ASSUME PurchasingAssumption ==
  /\ Line \subseteq Nat /\ IsFiniteSet(Line) /\ IsFiniteSet(Note) /\ Ordered \in [Line -> Nat \ {0}]
  /\ ProductOf \in [Line -> Product]
  /\ Opening \in [Product -> Nat]
  /\ Deliveries \subseteq [Line -> [good : Nat, bad : Nat]]
  /\ Returned \subseteq [Product -> Nat] /\ MaxSold \in [Product -> Nat]
  /\ MaxOverwritten \in Nat

VARIABLES
  status,     \* Purchase.status
  received,   \* quantity_received and quantity_damaged of each line
  stock,      \* Product.stock_quantity
  noteRows,   \* of each block of items in the received note, whether it lists
              \* the order's lines as they are now
  returns,    \* the goods returned notes
  work,       \* what a session is doing, with the copies it has read
  sold,       \* units of a product sold so far
  overwritten,\* history: the rows of each save from copies that were out of date
  torn        \* history: the received note's last rebuild was disturbed

vars == <<status, received, stock, noteRows, returns, work, sold, overwritten, torn>>

Quantities == [good : Nat, bad : Nat]
Nothing == [l \in Line |-> [good |-> 0, bad |-> 0]]
Idle == [at |-> "idle", copy |-> "none", next |-> "none", item |-> 0, seen |-> Nothing,
         took |-> Nothing, shelf |-> Opening]

Purchased == {"partially_received", "received", "closed"}
NoReturn == [status |-> "none", qty |-> [p \in Product |-> 0]]

\* The order has been approved (module PurchaseApproval).
Init ==
  /\ status = "approved"
  /\ received = Nothing
  /\ stock = Opening
  /\ noteRows = <<>>
  /\ returns = [n \in Note |-> NoReturn]
  /\ work = [s \in Session |-> Idle]
  /\ sold = [p \in Product |-> 0]
  /\ overwritten = <<>> /\ torn = FALSE

goods == <<received, stock, sold>>
papers == <<noteRows, returns, torn>>

At(s, place) == work[s].at = place
Go(s, place) == work' = [work EXCEPT ![s].at = place]
Finish(s) == work' = [work EXCEPT ![s] = Idle]

\* A save of the copies of rows, some of which were out of date.
Saved(old) == overwritten' = IF old = {} THEN overwritten ELSE Append(overwritten, old)
Overwritten == UNION Range(overwritten)

\* The session that holds the order's row between its lock and its commit.
OrderLocked == \E s \in Session : At(s, "posting")

-----------------------------------------------------------------------------
(* The order's status after its approval: send and close.                  *)

MayBegin == [send |-> {"approved"}, close |-> {"received", "partially_received"},
             receive |-> {"approved", "sent", "partially_received"}]
Outcome == [send |-> "sent", close |-> "closed"]

\* The view gets the order and looks at the status of its copy.
Read(s, task) ==
  /\ At(s, "idle") /\ status \in MayBegin[task]
  /\ work' = [work EXCEPT ![s] =
       [Idle EXCEPT !.at = "save", !.copy = status, !.next = Outcome[task]]]
  /\ UNCHANGED <<status, goods, papers, overwritten>>

\* purchase.save() writes the copy's columns, once no receipt holds the row.
SaveOrder(s) ==
  /\ At(s, "save") /\ ~OrderLocked
  /\ status' = work[s].next
  /\ Saved(IF status = work[s].copy THEN {} ELSE {"order"})
  /\ Finish(s)
  /\ UNCHANGED <<goods, papers>>

-----------------------------------------------------------------------------
(* Receipts.                                                               *)

Positive(n) == IF n < 0 THEN 0 ELSE n
WholeLine(l, state) == Ordered[l]
Outstanding(l, state) == Positive(Ordered[l] - state[l].good - state[l].bad)
Units(q) == q.good + q.bad

\* purchase_receive compares the quantities entered with those it has read.
ReadReceipt(s, took) ==
  /\ At(s, "idle") /\ status \in MayBegin["receive"]
  /\ took # Nothing
  /\ \A l \in Line : Units(took[l]) <= Outstanding(l, received)
  /\ work' = [work EXCEPT ![s] = [Idle EXCEPT !.at = "receive", !.took = took]]
  /\ UNCHANGED <<status, goods, papers, overwritten>>

\* mark_as_received locks the order, looks at its status again and reads its
\* lines together with their products, which it does not lock.
LockOrder(s) ==
  /\ At(s, "receive") /\ ~OrderLocked
  /\ IF status \in {"received", "closed"}
     THEN Finish(s)
     ELSE work' = [work EXCEPT ![s].at = "posting", ![s].seen = received, ![s].shelf = stock]
  /\ UNCHANGED <<status, goods, papers, overwritten>>

\* The lines are processed in order.  One that is complete or gets nothing is
\* skipped; one that gets more than is outstanding ends the loop, and what was
\* done before it is committed.
Refused(s, l) ==
  LET w == work[s] IN Outstanding(l, w.seen) > 0 /\ Units(w.took[l]) > Outstanding(l, w.seen)
Posted(s) ==
  LET w == work[s]
  IN {l \in Line :
        /\ Outstanding(l, w.seen) > 0 /\ Units(w.took[l]) > 0
        /\ \A k \in Line : k <= l => ~Refused(s, k)}
PostedOf(s, p) == {l \in Posted(s) : ProductOf[l] = p}
Complete(s) == Posted(s) # {} /\ \A l \in Line : ~Refused(s, l)

\* Each line has its own copy of the product: the last one's is what stays.
ShelvedWithDamaged(s, p) ==
  IF PostedOf(s, p) = {} THEN stock[p]
  ELSE work[s].shelf[p] + Units(work[s].took[Max(PostedOf(s, p))])
Shelved(s, p) ==
  IF PostedOf(s, p) = {} THEN stock[p]
  ELSE work[s].shelf[p] + work[s].took[Max(PostedOf(s, p))].good

PostReceipt(s) ==
  LET w == work[s]
      new == [l \in Line |-> IF l \in Posted(s)
               THEN [good |-> w.seen[l].good + w.took[l].good,
                     bad |-> w.seen[l].bad + w.took[l].bad]
               ELSE received[l]]
      lost == {p \in Product :
                /\ PostedOf(s, p) # {}
                /\ w.shelf[p] # stock[p] \/ Cardinality(PostedOf(s, p)) > 1}
  IN
  /\ At(s, "posting")
  /\ received' = new
  /\ stock' = [p \in Product |-> Shelved(s, p)]
  /\ Saved(lost)
  /\ status' = IF ~Complete(s) THEN status
               ELSE IF \E l \in Line : new[l].good < Ordered[l] - new[l].bad
                    THEN "partially_received" ELSE "received"
  /\ noteRows' = IF Posted(s) = {} THEN noteRows ELSE [i \in DOMAIN noteRows |-> FALSE]
  /\ torn' = (torn \/ (~Complete(s) /\ Posted(s) # {}))
  /\ work' = [work EXCEPT ![s] =
       IF Complete(s) THEN [Idle EXCEPT !.at = "clear"] ELSE Idle]
  /\ UNCHANGED <<sold, returns>>

Rebuilding(s) == work[s].at \in {"clear", "list", "write"}

\* The received note's items are deleted, the order's lines read, and a row
\* written for each of them: none of it in one transaction.
KeepNote(s) ==
  /\ At(s, "clear")
  /\ torn' = \E o \in Session \ {s} : work[o].at \in {"list", "write"}
  /\ Go(s, "list")
  /\ UNCHANGED <<status, goods, noteRows, returns, overwritten>>
ClearNote(s) ==
  /\ At(s, "clear")
  /\ noteRows' = <<>>
  /\ torn' = \E o \in Session \ {s} : work[o].at \in {"list", "write"}
  /\ Go(s, "list")
  /\ UNCHANGED <<status, goods, returns, overwritten>>

ListLines(s) ==
  /\ At(s, "list")
  /\ work' = [work EXCEPT ![s].at = "write", ![s].seen = received]
  /\ UNCHANGED <<status, goods, papers, overwritten>>

WriteNote(s) ==
  /\ At(s, "write")
  /\ noteRows' = Append(noteRows, work[s].seen = received)
  /\ Finish(s)
  /\ UNCHANGED <<status, goods, returns, torn, overwritten>>

\* The process dies; PostgreSQL rolls back the transaction it was in.
Die(s) ==
  /\ ~At(s, "idle")
  /\ torn' = (torn \/ Rebuilding(s))
  /\ Finish(s)
  /\ UNCHANGED <<status, goods, noteRows, returns, overwritten>>

-----------------------------------------------------------------------------
(* Goods returned notes.                                                   *)

Active(n) == returns[n].status \notin {"none", "cancelled"}
SumOf(S, f(_)) == SumFunctionOnSet([x \in S |-> f(x)], S)
Delivered(p) == SumOf({l \in Line : ProductOf[l] = p}, LAMBDA l : received[l].good)
Damaged(p) == SumOf({l \in Line : ProductOf[l] = p}, LAMBDA l : received[l].bad)

\* What notes of the order that are not cancelled have returned already.
AlreadyReturned(p) ==
  SumOf({n \in Note : Active(n)}, LAMBDA n : returns[n].qty[p])
AlreadyCollected(p) ==
  SumOf({n \in Note : returns[n].status \in {"collected", "credited"}},
        LAMBDA n : returns[n].qty[p])

ReturnableAgain(p, reason) ==
  Positive((IF reason = "damaged" THEN Damaged(p) ELSE Delivered(p)) - AlreadyCollected(p))
Returnable(p, reason) ==
  Positive((IF reason = "damaged" THEN Damaged(p) ELSE Delivered(p)) - AlreadyReturned(p))

\* grn_create for the order, one transaction that locks the products.  A return
\* of damaged goods takes them off the stock as well, which they never entered.
CreateReturn(n, reason, qty, submit) ==
  /\ returns[n].status = "none"
  /\ status \in Purchased
  /\ \E p \in Product : qty[p] > 0
  /\ \A p \in Product : qty[p] > 0 =>
       qty[p] <= stock[p] /\ qty[p] <= Returnable(p, reason)
  /\ returns' = [returns EXCEPT ![n] =
       [status |-> IF submit THEN "submitted" ELSE "draft", qty |-> qty]]
  /\ stock' = [p \in Product |-> stock[p] - qty[p]]
  /\ UNCHANGED <<status, received, sold, noteRows, torn, work, overwritten>>

MayBecome == [submitted |-> {"draft"}, acknowledged |-> {"submitted"},
              collected |-> {"submitted", "acknowledged"},
              credited |-> {"submitted", "acknowledged", "collected"}]

\* submit_to_supplier, grn_acknowledge, mark_collected, apply_credit_note: the
\* view reads the note and saves its copy.
ReadReturn(s, n, next) ==
  /\ At(s, "idle") /\ returns[n].status \in MayBecome[next]
  /\ work' = [work EXCEPT ![s] =
       [Idle EXCEPT !.at = "note", !.copy = returns[n].status, !.next = next, !.item = n]]
  /\ UNCHANGED <<status, goods, papers, overwritten>>

SaveReturn(s) ==
  LET n == work[s].item IN
  /\ At(s, "note")
  /\ returns' = [returns EXCEPT ![n].status = work[s].next]
  /\ Saved(IF returns[n].status = work[s].copy THEN {} ELSE {n})
  /\ Finish(s)
  /\ UNCHANGED <<status, goods, noteRows, torn>>

MayCancel(n) == returns[n].status \in {"draft", "submitted", "acknowledged"}

\* grn_cancel locks the note and puts its goods back.
CancelReturn(n) ==
  /\ MayCancel(n)
  /\ returns' = [returns EXCEPT ![n].status = "cancelled"]
  /\ stock' = [p \in Product |-> stock[p] + returns[n].qty[p]]
  /\ UNCHANGED <<status, received, sold, noteRows, torn, work, overwritten>>

-----------------------------------------------------------------------------
\* complete_sale deducts from the locked product.  (At a branch, module
\* BranchStock, the product then gets the total of its branch rows, which know
\* nothing of purchases.)
Sell(p) ==
  /\ stock[p] > 0 /\ sold[p] < MaxSold[p]
  /\ sold' = [sold EXCEPT ![p] = @ + 1]
  /\ stock' = [stock EXCEPT ![p] = @ - 1]
  /\ UNCHANGED <<status, received, papers, work, overwritten>>

OfOrder(s) ==
  \/ \E task \in DOMAIN Outcome : Read(s, task)
  \/ SaveOrder(s)

OfReceipt(s) ==
  \/ \E took \in Deliveries : ReadReceipt(s, took)
  \/ LockOrder(s) \/ PostReceipt(s) \/ ClearNote(s) \/ ListLines(s) \/ WriteNote(s)

OfReturn(n) ==
  \/ \E reason \in {"damaged", "other"}, qty \in Returned, submit \in BOOLEAN :
       CreateReturn(n, reason, qty, submit)
  \/ CancelReturn(n)
  \/ \E s \in Session, next \in DOMAIN MayBecome : ReadReturn(s, n, next)

Next ==
  /\ \/ \E s \in Session : OfOrder(s) \/ OfReceipt(s) \/ SaveReturn(s) \/ Die(s)
     \/ \E n \in Note : OfReturn(n)
     \/ \E p \in Product : Sell(p)
  /\ Len(overwritten') <= MaxOverwritten

Spec == Init /\ [][Next]_vars

-----------------------------------------------------------------------------
\* However receipts overlap, a line never gets more than was ordered, and the
\* order is "received" only when nothing is outstanding and "partially
\* received" only when something is, also after a view has saved an old copy
\* over it; without that, an order of which everything has come in is
\* "received" or closed (models.py 1700-1805).
WithinOrder ==
  LET open == \E l \in Line : Outstanding(l, received) > 0 IN
  /\ \A l \in Line : Units(received[l]) <= Ordered[l]
  /\ status = "received" => ~open
  /\ status = "partially_received" => open
  /\ received # Nothing /\ ~open /\ "order" \notin Overwritten => status \in {"received", "closed"}

\* The stock of a product is what it opened with, plus what was received, less
\* what was sold and what notes that are not cancelled have returned, across
\* two receipts, returns, cancellations and sales that interleave: except for a
\* product or a note that was saved from an old copy, and a product on two
\* lines of one receipt.
StockAccounted ==
  \A p \in Product :
    (/\ p \notin Overwritten
     /\ \A n \in Note \cap Overwritten : returns[n].qty[p] = 0) =>
      stock[p] = Opening[p] + Delivered(p) - sold[p] - AlreadyReturned(p)

\* The notes of the order never return more of a product than the larger of
\* what was delivered and what was damaged, also after some are cancelled.
ReturnsWithinReceipt ==
  \A p \in Product :
    (\A n \in Note \cap Overwritten : returns[n].qty[p] = 0) =>
      AlreadyReturned(p) <= Max({Delivered(p), Damaged(p)})

\* While nobody rebuilds it, the received note lists the order's lines once, as
\* they are now, unless two rebuilds of it overlapped, one of them died, or a
\* receipt was refused after some of its lines.
ReceiptNoteCurrent ==
  (~torn /\ \A s \in Session : ~Rebuilding(s)) =>
    noteRows = IF received = Nothing THEN <<>> ELSE <<TRUE>>

=============================================================================
