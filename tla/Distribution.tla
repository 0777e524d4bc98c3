---------------------------- MODULE Distribution ----------------------------
(***************************************************************************)
(* DistributionService of pos/branch_services.py: requisitions from HQ and *)
(* transfers between branches, from request to approval, dispatch, receipt *)
(* and the resolution of discrepancies, with the branch stock and the      *)
(* stock ledger that they move.  Sales and purchases of the branches run   *)
(* in between.                                                             *)
(*                                                                         *)
(* Each handler is one transaction that holds its document's row, so it is *)
(* one action, except dispatch: it reads the quantity available to a line  *)
(* without a lock before BranchStock.deduct locks the row, so it has an    *)
(* action for each of these reads.  The movements of a row are exact       *)
(* (module BranchStock), so a call of receive or deduct is one addition    *)
(* here.                                                                   *)
(***************************************************************************)
EXTENDS Integers, Sequences, FiniteSets, Functions

CONSTANTS
  Branch,
  Product,    \* Product.id of every product, the order of a dispatch's lines
  Doc,        \* requisitions and transfer requests
  HQ,         \* the branch that Branch.is_hq marks
  Opening,    \* initial BranchStock.quantity
  UnitCost,   \* average_cost of a product, the same at every branch
  Rule,       \* the active TransferApprovalRule
  NoQty,      \* approved_quantity IS NULL
  MaxQty,     \* bound: the largest quantity a user enters
  MaxTraded,  \* bound: on what each branch sells, and buys, of one product
  MaxMoved,   \* bound: on what it moves of one product by another type
  MaxReceipts \* bound: how often receipts are confirmed, altogether

ASSUME DistributionAssumption ==
  /\ HQ \in Branch /\ Product \subseteq Nat /\ IsFiniteSet(Doc)
  /\ Opening \in [Branch -> [Product -> Int]]
  /\ UnitCost \in [Product -> Nat]
  /\ Rule \in [active : BOOLEAN, auto : BOOLEAN, requiresHQ : BOOLEAN,
               maxValue : Nat, maxQuantity : Nat]
  /\ MaxTraded \in [Branch -> Nat]
  /\ {MaxQty, MaxMoved, MaxReceipts} \subseteq Nat /\ NoQty \notin Int

VARIABLES
  doc,        \* the requisitions and transfer requests
  shipments,  \* the Dispatch records, in the order of their creation
  picking,    \* the quantities of a document's dispatch under way
  checked,    \* its lines whose quantity was found to be available
  stock,      \* BranchStock.quantity
  ledger      \* per branch and product, the sum of quantity_delta of each
              \* movement_type of StockMovement

vars == <<doc, shipments, picking, checked, stock, ledger>>

Quantity == 0..MaxQty
Kind == {"requisition", "transfer"}
MovementType ==
  {"sale", "purchase_in", "hq_dispatch_out", "in_transit_out", "branch_receipt_in",
   "transfer_in", "transit_loss_writeoff", "transit_return_in"}
Resolution == {"writeoff_loss", "returned_to_source", "accepted_variance"}
OpenStatus == {"draft", "pending", "approved"}
SentStatus ==
  {"dispatched", "completed", "discrepancy_flagged", "resolved", "fulfilled",
   "partially_fulfilled"}
Status == {"none", "rejected"} \cup OpenStatus \cup SentStatus

Line == [requested : Nat, approved : Nat \cup {NoQty}, dispatched : Nat,
         received : Nat, discrepancy : Nat]
Item == [sent : Nat, received : Nat, discrepancy : Nat]
Document == [kind : Kind, status : Status, src : Branch, dst : Branch, line : [Product -> Line]]
Shipment == [doc : Doc, src : Branch, dst : Branch,
             status : {"in_transit", "partially_received", "received"},
             item : [Product -> Item], receipts : Nat]

NoLine == [requested |-> 0, approved |-> NoQty, dispatched |-> 0, received |-> 0,
           discrepancy |-> 0]
NoDoc == [kind |-> "transfer", status |-> "none", src |-> HQ, dst |-> HQ,
          line |-> [p \in Product |-> NoLine]]
Idle == [p \in Product |-> -1]   \* no dispatch of the document is under way

Sum(f) == SumFunctionOnSet(f, Product)

Init ==
  /\ doc = [d \in Doc |-> NoDoc]
  /\ shipments = <<>>
  /\ picking = [d \in Doc |-> Idle]
  /\ checked = [d \in Doc |-> {}]
  /\ stock = Opening
  /\ ledger = [b \in Branch |-> [p \in Product |-> [m \in MovementType |-> 0]]]

-----------------------------------------------------------------------------
(* Stock.                                                                  *)

\* BranchStock.receive or deduct of q[p] units of every product at b, with
\* their movements; nothing is called for a quantity of zero.
MoveUnrecorded(b, q, type) ==
  /\ stock' = [stock EXCEPT ![b] = [p \in Product |-> stock[b][p] + q[p]]]
  /\ UNCHANGED ledger
Move(b, q, type) ==
  /\ stock' = [stock EXCEPT ![b] = [p \in Product |-> stock[b][p] + q[p]]]
  /\ ledger' = [ledger EXCEPT ![b] =
       [p \in Product |-> [ledger[b][p] EXCEPT ![type] = @ + q[p]]]]

Minus(q) == [p \in Product |-> -q[p]]
One(p) == [r \in Product |-> IF r = p THEN 1 ELSE 0]

\* A sale deducts without looking at what is left; a purchase adds.
Sell(b, p) ==
  /\ Move(b, Minus(One(p)), "sale")
  /\ UNCHANGED <<doc, shipments, picking, checked>>

Purchase(b, p) ==
  /\ Move(b, One(p), "purchase_in")
  /\ UNCHANGED <<doc, shipments, picking, checked>>

-----------------------------------------------------------------------------
(* Requests and approvals.                                                 *)

\* evaluate_transfer_approval_rules: a threshold of zero or less limits nothing.
AutoApproved(q) ==
  LET value == Sum([p \in Product |-> q[p] * UnitCost[p]])
  IN /\ Rule.active /\ Rule.auto /\ ~Rule.requiresHQ
     /\ Rule.maxValue <= 0 \/ value <= Rule.maxValue
     /\ Rule.maxQuantity <= 0 \/ Sum(q) <= Rule.maxQuantity

Lines(q, auto) ==
  [p \in Product |->
    [NoLine EXCEPT !.requested = q[p],
                   !.approved = IF auto /\ q[p] > 0 THEN q[p] ELSE NoQty]]

CreateRequisition(d, dst, q) ==
  /\ doc[d].status = "none"
  /\ doc' = [doc EXCEPT ![d] =
       [NoDoc EXCEPT !.kind = "requisition", !.status = "pending", !.dst = dst,
                     !.line = Lines(q, FALSE)]]
  /\ UNCHANGED <<shipments, picking, checked, stock, ledger>>

CreateTransfer(d, src, dst, q, draft) ==
  /\ doc[d].status = "none"
  /\ src # dst
  /\ LET auto == AutoApproved(q) /\ ~draft
     IN doc' = [doc EXCEPT ![d] =
          [NoDoc EXCEPT !.status = IF draft THEN "draft"
                                   ELSE IF auto THEN "approved" ELSE "pending",
                        !.src = src, !.dst = dst,
                        !.line = Lines(q, auto)]]
  /\ UNCHANGED <<shipments, picking, checked, stock, ledger>>

\* The document's row is locked by a dispatch under way.
Unlocked(d) == picking[d] = Idle

\* The statuses from which a request may still be approved or rejected.
EverySubmitted(d) == doc[d].status \notin {"none", "draft"}
MayDecide(d) ==
  \/ doc[d].status \in {"pending", "approved"}
  \/ doc[d].kind = "transfer" /\ doc[d].status = "draft"

\* approve_requisition, approve_transfer_request: approving again may change
\* the approved quantities.  q[p] = NoQty is a line left out of the request.
Approve(d, q) ==
  /\ Unlocked(d) /\ MayDecide(d)
  /\ doc' = [doc EXCEPT
       ![d].status = "approved",
       ![d].line = [p \in Product |->
         [doc[d].line[p] EXCEPT !.approved =
            IF doc[d].line[p].requested = 0 THEN @
            ELSE IF q[p] # NoQty THEN q[p]
            ELSE IF @ = NoQty THEN doc[d].line[p].requested ELSE @]]]
  /\ UNCHANGED <<shipments, picking, checked, stock, ledger>>

Reject(d) ==
  /\ Unlocked(d) /\ MayDecide(d)
  /\ doc' = [doc EXCEPT ![d].status = "rejected"]
  /\ UNCHANGED <<shipments, picking, checked, stock, ledger>>

-----------------------------------------------------------------------------
(* Dispatch.                                                               *)

\* get_or_create(branch=HQ) for a requisition, the source of a transfer.
Source(d) == IF doc[d].kind = "requisition" THEN HQ ELSE doc[d].src

AnyOpenDoc(d) == doc[d].status # "none"
MayDispatch(d) == doc[d].status = "approved"

\* The parent row is locked and its status checked; Dispatch.save calls clean,
\* which raises for a shipment from a branch to itself.  The quantities are the
\* user's: nothing compares them with what was approved.
BeginDispatch(d, q) ==
  /\ Unlocked(d) /\ MayDispatch(d)
  /\ Source(d) # doc[d].dst
  /\ \A p \in Product : q[p] > 0 => doc[d].line[p].requested > 0
  /\ picking' = [picking EXCEPT ![d] = q]
  /\ UNCHANGED <<doc, shipments, checked, stock, ledger>>

Picked(d) == {p \in Product : picking[d][p] > 0}

\* The quantity of the next line is compared with the stock that is committed
\* now.
CheckLine(d, p) ==
  /\ p \in Picked(d) \ checked[d]
  /\ \A r \in Picked(d) : r < p => r \in checked[d]
  /\ stock[Source(d)][p] >= picking[d][p]
  /\ checked' = [checked EXCEPT ![d] = @ \cup {p}]
  /\ UNCHANGED <<doc, shipments, picking, stock, ledger>>

EndDispatch(d) ==
  /\ picking' = [picking EXCEPT ![d] = Idle]
  /\ checked' = [checked EXCEPT ![d] = {}]

\* The lines are deducted, whatever is left by now, and the shipment exists.
FinishDispatch(d) ==
  LET q == picking[d]
      type == IF doc[d].kind = "requisition" THEN "hq_dispatch_out" ELSE "in_transit_out"
  IN
  /\ ~Unlocked(d) /\ checked[d] = Picked(d)
  /\ Move(Source(d), Minus(q), type)
  /\ shipments' = Append(shipments,
       [doc |-> d, src |-> Source(d), dst |-> doc[d].dst, status |-> "in_transit",
        item |-> [p \in Product |-> [sent |-> q[p], received |-> 0, discrepancy |-> 0]],
        receipts |-> 0])
  /\ doc' = [doc EXCEPT
       ![d].status = "dispatched",
       ![d].line = [p \in Product |-> [doc[d].line[p] EXCEPT !.dispatched = @ + q[p]]]]
  /\ EndDispatch(d)

\* A later line is short of stock, or the request dies: all is rolled back.
AbortDispatch(d) ==
  /\ ~Unlocked(d)
  /\ EndDispatch(d)
  /\ UNCHANGED <<doc, shipments, stock, ledger>>

-----------------------------------------------------------------------------
(* Receipt and discrepancies.                                              *)

Short(sent, received) == IF received < sent THEN sent - received ELSE 0

MayReceive(s) == s.status \in {"in_transit", "partially_received"}

\* The status a receipt leaves the parent document in.
ParentAfterReceipt(d, flagged) ==
  IF doc[d].kind = "requisition"
  THEN IF flagged THEN "partially_fulfilled" ELSE "fulfilled"
  ELSE IF flagged THEN "discrepancy_flagged" ELSE "completed"

ReceiptReplaced(old, recv) == recv
ReceiptAdded(old, recv) == old + recv

\* The shipment's items take the quantities entered, the parent's lines add
\* them to what they have, and the destination receives them.
ConfirmReceipt(k, recv) ==
  LET s == shipments[k]
      d == s.doc
      short == [p \in Product |-> Short(s.item[p].sent, recv[p])]
      flagged == \E p \in Product : short[p] > 0
      type == IF doc[d].kind = "requisition" THEN "branch_receipt_in" ELSE "transfer_in"
  IN
  /\ MayReceive(s)
  /\ \A p \in Product : recv[p] <= s.item[p].sent
  /\ shipments' = [shipments EXCEPT
       ![k].status = IF flagged THEN "partially_received" ELSE "received",
       ![k].receipts = @ + 1,
       ![k].item = [p \in Product |->
         [s.item[p] EXCEPT !.received = recv[p], !.discrepancy = short[p]]]]
  /\ doc' = [doc EXCEPT
       ![d].status = ParentAfterReceipt(d, flagged),
       ![d].line = [p \in Product |->
         [doc[d].line[p] EXCEPT
            !.received = ReceiptAdded(@, recv[p]),
            !.discrepancy = IF doc[d].kind = "transfer" /\ s.item[p].sent > 0
                            THEN short[p] ELSE @]]]
  /\ Move(s.dst, recv, type)
  /\ UNCHANGED <<picking, checked>>

MayResolve(d) ==
  doc[d].kind = "transfer" /\ doc[d].status \in {"discrepancy_flagged", "partially_received"}

\* resolution[p] is the supervisor's choice for the line of p.  A loss is
\* written to the ledger only; a return goes back into the source's stock.
Resolve(d, resolution) ==
  LET src == doc[d].src
      chosen(r) == [p \in Product |->
                     IF resolution[p] = r THEN doc[d].line[p].discrepancy ELSE 0]
      lost == chosen("writeoff_loss")
      back == chosen("returned_to_source")
  IN
  /\ MayResolve(d)
  /\ stock' = [stock EXCEPT ![src] = [p \in Product |-> stock[src][p] + back[p]]]
  /\ ledger' = [ledger EXCEPT ![src] = [p \in Product |->
       [ledger[src][p] EXCEPT !["transit_loss_writeoff"] = @ - lost[p],
                    !["transit_return_in"] = @ + back[p]]]]
  /\ doc' = [doc EXCEPT ![d].status = "resolved"]
  /\ UNCHANGED <<shipments, picking, checked>>

-----------------------------------------------------------------------------
Entered == [Product -> Quantity]

Request(d) ==
  \E q \in Entered :
    \/ \E dst \in Branch : CreateRequisition(d, dst, q)
    \/ \E src, dst \in Branch, draft \in BOOLEAN : CreateTransfer(d, src, dst, q, draft)

Decide(d) ==
  \/ \E q \in [Product -> Quantity \cup {NoQty}] : Approve(d, q)
  \/ Reject(d)

Ship(d) ==
  \/ \E q \in Entered : BeginDispatch(d, q)
  \/ \E p \in Product : CheckLine(d, p)
  \/ FinishDispatch(d)
  \/ AbortDispatch(d)

Receive(k) == \E recv \in Entered : ConfirmReceipt(k, recv)

Settle(d) == \E resolution \in [Product -> Resolution] : Resolve(d, resolution)

Trade == \E b \in Branch, p \in Product : Sell(b, p) \/ Purchase(b, p)

Bounded ==
  /\ \A b \in Branch, p \in Product :
       /\ ledger[b][p]["purchase_in"] - ledger[b][p]["sale"] <= MaxTraded[b]
       /\ \A m \in MovementType \ {"sale", "purchase_in"} :
            ledger[b][p][m] \in -MaxMoved..MaxMoved
  /\ SumFunctionOnSet([k \in DOMAIN shipments |-> shipments[k].receipts], DOMAIN shipments)
       <= MaxReceipts

Next ==
  /\ \/ \E d \in Doc : Request(d) \/ Decide(d) \/ Ship(d) \/ Settle(d)
     \/ \E k \in DOMAIN shipments : Receive(k)
     \/ Trade
  /\ Bounded'

Spec == Init /\ [][Next]_vars

-----------------------------------------------------------------------------
\* Documents, shipments, stock and ledger have the types of their columns:
\* quantities of lines and items are never negative, stock may be.
TypeOK ==
  /\ doc \in [Doc -> Document]
  /\ shipments \in Seq(Shipment)
  /\ picking \in [Doc -> Entered \cup {Idle}]
  /\ checked \in [Doc -> SUBSET Product]
  /\ stock \in [Branch -> [Product -> Int]]
  /\ ledger \in [Branch -> [Product -> [MovementType -> Int]]]

\* The movements that change BranchStock.quantity: all but the write-off of a
\* transit loss, whose units left the source's stock when they were dispatched.
Booked(row) ==
  row["sale"] + row["purchase_in"] + row["hq_dispatch_out"] + row["in_transit_out"]
    + row["branch_receipt_in"] + row["transfer_in"] + row["transit_return_in"]

\* Stock is explained by the movements other than transit write-offs, through
\* every path that goods take between branches (branch_services.py 559-871).
\* Those write-offs count units that the dispatch has booked already, so the
\* movements as a whole are not the "single source of truth for stock
\* reconciliations" that models.py 5785 makes of them.
LedgerMatchesStock ==
  \A b \in Branch, p \in Product : stock[b][p] = Opening[b][p] + Booked(ledger[b][p])

\* Document and shipment tell the same story: goods left at most once, only
\* for an approved document, and the parent's status is the one its shipment's
\* receipt implies (and stays so while other documents interleave).
ShipmentsOf(d) == {k \in DOMAIN shipments : shipments[k].doc = d}
ParentFollowsShipment ==
  \A d \in Doc :
    /\ \A j, k \in ShipmentsOf(d) : j = k
    /\ (ShipmentsOf(d) = {}) = (doc[d].status \notin SentStatus)
    /\ \A k \in ShipmentsOf(d) :
         doc[d].status \in
           CASE shipments[k].status = "in_transit" -> {"dispatched"}
             [] shipments[k].status = "received" -> {"completed", "fulfilled"}
             [] OTHER -> {"discrepancy_flagged", "resolved", "partially_fulfilled"}

\* A dispatch under way holds the row of a document that stays approved.
PickingApproved ==
  \A d \in Doc : picking[d] # Idle => doc[d].status = "approved"

\* Inductive: documents, shipments, stock and ledger agree after every handler.
IInv == TypeOK /\ LedgerMatchesStock /\ ParentFollowsShipment /\ PickingApproved

\* What the documents say was received is what the destinations' ledgers say,
\* also when a receipt is confirmed again: the two are kept by different rows.
ReceivedTotal(b, p, kind) ==
  SumFunctionOnSet([d \in Doc |->
    IF doc[d].dst = b /\ doc[d].kind = kind THEN doc[d].line[p].received ELSE 0], Doc)
ReceiptsMatchLedger ==
  \A b \in Branch, p \in Product :
    /\ ReceivedTotal(b, p, "requisition") = ledger[b][p]["branch_receipt_in"]
    /\ ReceivedTotal(b, p, "transfer") = ledger[b][p]["transfer_in"]

\* Inductive together with IInv: a shipment goes to its document's destination,
\* and a row that is not a document yet has received nothing.
ShipmentsGoToDestination ==
  \A k \in DOMAIN shipments : shipments[k].dst = doc[shipments[k].doc].dst
NothingReceivedYet ==
  \A d \in Doc : doc[d].status = "none" => \A p \in Product : doc[d].line[p].received = 0
ReceiptInv == ShipmentsGoToDestination /\ NothingReceivedYet /\ ReceiptsMatchLedger

\* Goods that have left never return to a state in which the request can be
\* approved, rejected or shipped again.
SentForGood ==
  [][\A d \in Doc : doc[d].status \in SentStatus => doc'[d].status \in SentStatus]_vars

=============================================================================
