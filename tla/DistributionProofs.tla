------------------------- MODULE DistributionProofs -------------------------
(***************************************************************************)
(* Stock is explained by the ledger through every path that goods take     *)
(* between branches, and every document tells what its shipment tells, for *)
(* any branches, products, documents and quantities.                       *)
(***************************************************************************)
EXTENDS Distribution, SumLemmas, SequenceTheorems

-----------------------------------------------------------------------------
(* Stock and ledger.                                                       *)

LedgerRow == [MovementType -> Int]

\* A movement of a booked type adds its quantity to what is booked.
LEMMA BookedMove ==
  ASSUME NEW r \in LedgerRow, NEW type \in MovementType, NEW n \in Int
  PROVE  LET e == [r EXCEPT ![type] = @ + n]
         IN /\ e \in LedgerRow
            /\ type # "transit_loss_writeoff" => Booked(e) = Booked(r) + n
            /\ type = "transit_loss_writeoff" => Booked(e) = Booked(r)
BY DEF LedgerRow, Booked, MovementType

LEMMA BookedType ==
  ASSUME NEW r \in LedgerRow
  PROVE  Booked(r) \in Int
BY DEF LedgerRow, Booked, MovementType

\* Rows of stock and ledger that change together, by as much, keep matching.
LEMMA RowsKeepMatch ==
  ASSUME stock \in [Branch -> [Product -> Int]], ledger \in [Branch -> [Product -> LedgerRow]],
         LedgerMatchesStock,
         NEW b \in Branch, NEW q \in [Product -> Int], NEW row \in [Product -> LedgerRow],
         \A p \in Product : Booked(row[p]) = Booked(ledger[b][p]) + q[p],
         stock' = [stock EXCEPT ![b] = [p \in Product |-> stock[b][p] + q[p]]],
         ledger' = [ledger EXCEPT ![b] = row]
  PROVE  /\ stock' \in [Branch -> [Product -> Int]] /\ ledger' \in [Branch -> [Product -> LedgerRow]]
         /\ LedgerMatchesStock'
<1> DEFINE col == [p \in Product |-> stock[b][p] + q[p]]
<1>1. stock[b] \in [Product -> Int] /\ ledger[b] \in [Product -> LedgerRow]
  OBVIOUS
<1>2. col \in [Product -> Int]
  BY <1>1
<1>3. stock' \in [Branch -> [Product -> Int]] /\ ledger' \in [Branch -> [Product -> LedgerRow]]
  BY <1>2
<1>4. ASSUME NEW c \in Branch, NEW p \in Product
      PROVE  stock'[c][p] = Opening[c][p] + Booked(ledger'[c][p])
  <2>1. /\ stock[c][p] = Opening[c][p] + Booked(ledger[c][p])
        /\ Opening[c][p] \in Int /\ ledger[c][p] \in LedgerRow /\ q[p] \in Int
    BY DistributionAssumption DEF LedgerMatchesStock
  <2>2. Booked(ledger[c][p]) \in Int
    BY <2>1, BookedType
  <2>3. CASE c = b
    <3>1. stock'[c][p] = stock[c][p] + q[p] /\ ledger'[c] = row
      BY <2>3
    <3> QED
      BY <2>1, <2>2, <2>3, <3>1
  <2>4. CASE c # b
    <3>1. stock'[c] = stock[c] /\ ledger'[c] = ledger[c]
      BY <2>4
    <3> QED
      BY <2>1, <3>1
  <2> QED
    BY <2>3, <2>4
<1> QED
  BY <1>3, <1>4 DEF LedgerMatchesStock

\* BranchStock.receive and deduct with a type that is booked.
LEMMA MoveKeepsMatch ==
  ASSUME stock \in [Branch -> [Product -> Int]], ledger \in [Branch -> [Product -> LedgerRow]],
         LedgerMatchesStock,
         NEW b \in Branch, NEW q \in [Product -> Int],
         NEW type \in MovementType \ {"transit_loss_writeoff"}, Move(b, q, type)
  PROVE  /\ stock' \in [Branch -> [Product -> Int]] /\ ledger' \in [Branch -> [Product -> LedgerRow]]
         /\ LedgerMatchesStock'
<1> DEFINE row == [p \in Product |-> [ledger[b][p] EXCEPT ![type] = @ + q[p]]]
<1>1. ASSUME NEW p \in Product
      PROVE  row[p] \in LedgerRow /\ Booked(row[p]) = Booked(ledger[b][p]) + q[p]
  <2>1. ledger[b][p] \in LedgerRow /\ q[p] \in Int
    OBVIOUS
  <2> QED
    BY <2>1, BookedMove
<1>2. row \in [Product -> LedgerRow]
  BY <1>1
<1>3. /\ stock' = [stock EXCEPT ![b] = [p \in Product |-> stock[b][p] + q[p]]]
      /\ ledger' = [ledger EXCEPT ![b] = row]
  BY DEF Move
<1> HIDE DEF row
<1> QED
  BY <1>1, <1>2, <1>3, RowsKeepMatch

-----------------------------------------------------------------------------
(* Documents.                                                              *)

\* A document's row after an update.
LEMMA UpdatedDoc ==
  ASSUME TypeOK, NEW d \in Doc, NEW e \in Document, doc' = [doc EXCEPT ![d] = e]
  PROVE  /\ doc' \in [Doc -> Document] /\ doc'[d] = e
         /\ \A c \in Doc \ {d} : doc'[c] = doc[c]
BY DEF TypeOK

\* Updates of a document that nothing was shipped for disturb no shipment.
LEMMA ParentsUndisturbed ==
  ASSUME ParentFollowsShipment, shipments' = shipments,
         \A d \in Doc : \/ doc'[d].status = doc[d].status
                       \/ {doc[d].status, doc'[d].status} \cap SentStatus = {}
  PROVE  ParentFollowsShipment'
<1> SUFFICES ASSUME NEW d \in Doc
             PROVE
    /\ \A j, k \in ShipmentsOf(d)' : j = k
    /\ (ShipmentsOf(d)' = {}) = (doc'[d].status \notin SentStatus)
    /\ \A k \in ShipmentsOf(d)' :
         doc'[d].status \in
           CASE shipments'[k].status = "in_transit" -> {"dispatched"}
             [] shipments'[k].status = "received" -> {"completed", "fulfilled"}
             [] OTHER -> {"discrepancy_flagged", "resolved", "partially_fulfilled"}
  BY DEF ParentFollowsShipment
<1>1. ShipmentsOf(d)' = ShipmentsOf(d)
  BY DEF ShipmentsOf
<1>2. CASE doc'[d].status = doc[d].status
  BY <1>1, <1>2 DEF ParentFollowsShipment
<1>3. CASE {doc[d].status, doc'[d].status} \cap SentStatus = {}
  <2>1. ShipmentsOf(d) = {}
    BY <1>3 DEF ParentFollowsShipment
  <2> QED
    BY <1>1, <1>3, <2>1
<1> QED
  BY <1>2, <1>3

\* The quantities of a form.
LEMMA EnteredType ==
  ASSUME NEW q \in Entered
  PROVE  \A p \in Product : q[p] \in Nat
BY DistributionAssumption DEF Entered, Quantity

\* A step on one document that ships nothing and moves no stock.
LEMMA QuietStep ==
  ASSUME IInv, NEW d \in Doc, NEW e \in Document, doc' = [doc EXCEPT ![d] = e],
         UNCHANGED <<shipments, picking, checked, stock, ledger>>,
         {doc[d].status, e.status} \cap SentStatus = {},
         picking[d] = Idle
  PROVE  IInv'
<1> USE DEF IInv
<1>1. /\ doc' \in [Doc -> Document] /\ doc'[d] = e
      /\ \A c \in Doc \ {d} : doc'[c] = doc[c]
  BY UpdatedDoc
<1>2. TypeOK'
  BY <1>1 DEF TypeOK
<1>3. LedgerMatchesStock'
  BY DEF LedgerMatchesStock
<1>4. ParentFollowsShipment'
  BY <1>1, ParentsUndisturbed
<1>5. PickingApproved'
  BY <1>1 DEF PickingApproved
<1> QED
  BY <1>2, <1>3, <1>4, <1>5

LEMMA LinesType ==
  ASSUME NEW q \in Entered, NEW auto \in BOOLEAN
  PROVE  Lines(q, auto) \in [Product -> Line]
<1>1. ASSUME NEW p \in Product
      PROVE  [NoLine EXCEPT !.requested = q[p],
                            !.approved = IF auto /\ q[p] > 0 THEN q[p] ELSE NoQty] \in Line
  <2>1. q[p] \in Nat
    BY EnteredType
  <2> QED
    BY <2>1 DEF NoLine, Line
<1> QED
  BY <1>1 DEF Lines

\* A request is a new document that is not dispatched.
LEMMA RequestStep ==
  ASSUME IInv, NEW d \in Doc, Request(d)
  PROVE  IInv'
<1>1. PICK q \in Entered :
        \/ \E dst \in Branch : CreateRequisition(d, dst, q)
        \/ \E src, dst \in Branch, draft \in BOOLEAN : CreateTransfer(d, src, dst, q, draft)
  BY DEF Request
<1>2. doc[d].status = "none" => picking[d] = Idle
  BY DEF IInv, PickingApproved
<1>3. CASE \E dst \in Branch : CreateRequisition(d, dst, q)
  <2>1. PICK dst \in Branch : CreateRequisition(d, dst, q)
    BY <1>3
  <2> DEFINE lines == Lines(q, FALSE)
             e == [NoDoc EXCEPT !.kind = "requisition", !.status = "pending", !.dst = dst,
                                !.line = lines]
  <2>2. doc[d].status = "none" /\ doc' = [doc EXCEPT ![d] = e]
        /\ UNCHANGED <<shipments, picking, checked, stock, ledger>>
    BY <2>1 DEF CreateRequisition
  <2>3. lines \in [Product -> Line]
    BY LinesType
  <2> HIDE DEF lines
  <2>4. e \in Document /\ e.status = "pending"
    BY <2>3, DistributionAssumption DEF NoDoc, Document, Kind, Status, OpenStatus
  <2> HIDE DEF e
  <2> QED
    BY <1>2, <2>2, <2>4, QuietStep DEF SentStatus
<1>4. CASE \E src, dst \in Branch, draft \in BOOLEAN : CreateTransfer(d, src, dst, q, draft)
  <2>1. PICK src \in Branch, dst \in Branch, draft \in BOOLEAN :
          CreateTransfer(d, src, dst, q, draft)
    BY <1>4
  <2> DEFINE auto == AutoApproved(q) /\ ~draft
             lines == Lines(q, auto)
             status == IF draft THEN "draft" ELSE IF auto THEN "approved" ELSE "pending"
             e == [NoDoc EXCEPT !.status = status, !.src = src, !.dst = dst, !.line = lines]
  <2>2. doc[d].status = "none" /\ doc' = [doc EXCEPT ![d] = e]
        /\ UNCHANGED <<shipments, picking, checked, stock, ledger>>
    BY <2>1 DEF CreateTransfer
  <2>3. auto \in BOOLEAN
    BY DEF AutoApproved
  <2> HIDE DEF auto
  <2>4. lines \in [Product -> Line] /\ status \in OpenStatus
    BY <2>3, LinesType DEF OpenStatus
  <2> HIDE DEF lines, status
  <2>5. e \in Document /\ e.status = status
    BY <2>4, DistributionAssumption DEF NoDoc, Document, Kind, Status
  <2> HIDE DEF e
  <2> QED
    BY <1>2, <2>2, <2>4, <2>5, QuietStep DEF SentStatus, OpenStatus
<1> QED
  BY <1>1, <1>3, <1>4

\* Approving and rejecting touch documents that are not dispatched.
LEMMA DecideStep ==
  ASSUME IInv, NEW d \in Doc, Decide(d)
  PROVE  IInv'
<1>1. TypeOK /\ doc[d] \in Document
  BY DEF IInv, TypeOK
<1>2. MayDecide(d) => doc[d].status \in OpenStatus
  BY DEF MayDecide, OpenStatus
<1>3. ASSUME NEW q \in [Product -> Quantity \cup {NoQty}], Approve(d, q)
      PROVE  IInv'
  <2> DEFINE line == [p \in Product |->
               [doc[d].line[p] EXCEPT !.approved =
                  IF doc[d].line[p].requested = 0 THEN @
                  ELSE IF q[p] # NoQty THEN q[p]
                  ELSE IF @ = NoQty THEN doc[d].line[p].requested ELSE @]]
             e == [doc[d] EXCEPT !.status = "approved", !.line = line]
  <2>1. /\ doc[d].status \in OpenStatus /\ picking[d] = Idle
        /\ UNCHANGED <<shipments, picking, checked, stock, ledger>>
    BY <1>2, <1>3 DEF Approve, Unlocked
  <2>2. doc' = [doc EXCEPT ![d] = e]
    BY <1>3, Zenon DEF Approve
  <2>3. ASSUME NEW p \in Product PROVE line[p] \in Line
    <3> DEFINE l == doc[d].line[p]
               a == IF l.requested = 0 THEN l.approved
                    ELSE IF q[p] # NoQty THEN q[p]
                    ELSE IF l.approved = NoQty THEN l.requested ELSE l.approved
    <3>1. l \in Line /\ q[p] \in Nat \cup {NoQty}
      BY <1>1, DistributionAssumption DEF Document, Quantity
    <3>2. line[p] = [l EXCEPT !.approved = a]
      OBVIOUS
    <3> HIDE DEF l
    <3>3. a \in Nat \cup {NoQty}
      BY <3>1 DEF Line
    <3> HIDE DEF a
    <3> QED
      BY <3>1, <3>2, <3>3 DEF Line
  <2>4. line \in [Product -> Line]
    BY <2>3
  <2> HIDE DEF line
  <2>5. e \in Document /\ e.status = "approved"
    BY <1>1, <2>4 DEF Document, Status, OpenStatus
  <2> HIDE DEF e
  <2> QED
    BY <2>1, <2>2, <2>5, QuietStep DEF SentStatus, OpenStatus
<1>4. CASE Reject(d)
  <2> DEFINE e == [doc[d] EXCEPT !.status = "rejected"]
  <2>1. /\ doc[d].status \in OpenStatus /\ picking[d] = Idle
        /\ doc' = [doc EXCEPT ![d] = e]
        /\ UNCHANGED <<shipments, picking, checked, stock, ledger>>
    BY <1>2, <1>4 DEF Reject, Unlocked
  <2>2. e \in Document /\ e.status = "rejected"
    BY <1>1 DEF Document, Status
  <2> HIDE DEF e
  <2> QED
    BY <2>1, <2>2, QuietStep DEF SentStatus, OpenStatus
<1> QED
  BY <1>3, <1>4 DEF Decide

-----------------------------------------------------------------------------
(* Dispatch.                                                               *)

\* The steps of a dispatch before it moves stock, and its end without having.
LEMMA PickingStep ==
  ASSUME IInv, NEW d \in Doc,
         \/ \E q \in Entered : BeginDispatch(d, q)
         \/ \E p \in Product : CheckLine(d, p)
         \/ AbortDispatch(d)
  PROVE  IInv'
<1> USE DEF IInv
<1>1. UNCHANGED <<doc, shipments, stock, ledger>>
  BY DEF BeginDispatch, CheckLine, AbortDispatch
<1>2. /\ picking' \in [Doc -> Entered \cup {Idle}] /\ checked' \in [Doc -> SUBSET Product]
      /\ \A c \in Doc : picking'[c] # picking[c] /\ picking'[c] # Idle => doc[c].status = "approved"
  <2>1. CASE \E q \in Entered : BeginDispatch(d, q)
    BY <2>1 DEF BeginDispatch, MayDispatch, TypeOK
  <2>2. CASE \E p \in Product : CheckLine(d, p)
    BY <2>2 DEF CheckLine, TypeOK
  <2>3. CASE AbortDispatch(d)
    BY <2>3 DEF AbortDispatch, EndDispatch, TypeOK
  <2> QED
    BY <2>1, <2>2, <2>3
<1>3. TypeOK'
  BY <1>1, <1>2 DEF TypeOK
<1>4. LedgerMatchesStock' /\ ParentFollowsShipment'
  BY <1>1, ParentsUndisturbed DEF LedgerMatchesStock
<1>5. PickingApproved'
  BY <1>1, <1>2 DEF PickingApproved
<1> QED
  BY <1>3, <1>4, <1>5

LEMMA ShipmentRows ==
  ASSUME TypeOK
  PROVE  /\ Len(shipments) \in Nat /\ DOMAIN shipments = 1..Len(shipments)
         /\ \A k \in DOMAIN shipments : shipments[k] \in Shipment
BY LenProperties DEF TypeOK

\* A dispatch takes from the source's stock and makes the only shipment.
LEMMA FinishStep ==
  ASSUME IInv, NEW d \in Doc, FinishDispatch(d)
  PROVE  IInv'
<1> USE DEF IInv
<1> DEFINE q == picking[d]
           type == IF doc[d].kind = "requisition" THEN "hq_dispatch_out" ELSE "in_transit_out"
           item == [p \in Product |-> [sent |-> q[p], received |-> 0, discrepancy |-> 0]]
           s == [doc |-> d, src |-> Source(d), dst |-> doc[d].dst, status |-> "in_transit",
                 item |-> item, receipts |-> 0]
           line == [p \in Product |-> [doc[d].line[p] EXCEPT !.dispatched = @ + q[p]]]
           e == [doc[d] EXCEPT !.status = "dispatched", !.line = line]
           n == Len(shipments) + 1
<1>1. /\ q \in Entered /\ \A p \in Product : q[p] \in Nat
      /\ doc[d].status = "approved" /\ doc[d] \in Document
  BY EnteredType DEF FinishDispatch, Unlocked, TypeOK, PickingApproved
<1>2. Source(d) \in Branch
  BY <1>1, DistributionAssumption DEF Source, Document
<1>3. /\ Move(Source(d), Minus(q), type)
      /\ shipments' = Append(shipments, s)
      /\ picking' = [picking EXCEPT ![d] = Idle] /\ checked' = [checked EXCEPT ![d] = {}]
  BY DEF FinishDispatch, EndDispatch
<1>4. doc' = [doc EXCEPT ![d] = e]
  BY Zenon DEF FinishDispatch
<1>5. s \in Shipment /\ s.doc = d /\ s.status = "in_transit"
  <2>1. item \in [Product -> Item]
    BY <1>1 DEF Item
  <2> HIDE DEF item
  <2> QED
    BY <1>1, <1>2, <2>1 DEF Shipment, Document
<1>6. e \in Document /\ e.status = "dispatched"
  <2>1. ASSUME NEW p \in Product PROVE line[p] \in Line
    <3> DEFINE l == doc[d].line[p]
               a == l.dispatched + q[p]
    <3>1. l \in Line /\ q[p] \in Nat
      BY <1>1 DEF Document
    <3>2. line[p] = [l EXCEPT !.dispatched = a]
      OBVIOUS
    <3> HIDE DEF l
    <3>3. a \in Nat
      BY <3>1 DEF Line
    <3> HIDE DEF a
    <3> QED
      BY <3>1, <3>2, <3>3 DEF Line
  <2>2. line \in [Product -> Line]
    BY <2>1
  <2> HIDE DEF line
  <2> QED
    BY <1>1, <2>2 DEF Document, Status, SentStatus
<1>7. /\ stock' \in [Branch -> [Product -> Int]] /\ ledger' \in [Branch -> [Product -> LedgerRow]]
      /\ LedgerMatchesStock'
  <2>1. Minus(q) \in [Product -> Int]
    BY <1>1 DEF Minus
  <2>2. type \in MovementType \ {"transit_loss_writeoff"}
    BY DEF MovementType
  <2> HIDE DEF q, type
  <2> QED
    BY <1>2, <1>3, <2>1, <2>2, MoveKeepsMatch DEF TypeOK, LedgerRow
<1> HIDE DEF q, type, s, e
<1>8. /\ shipments' \in Seq(Shipment) /\ DOMAIN shipments' = DOMAIN shipments \cup {n}
      /\ n \notin DOMAIN shipments /\ shipments'[n] = s
      /\ \A k \in DOMAIN shipments : shipments'[k] = shipments[k]
  <2>1. Len(shipments) \in Nat /\ DOMAIN shipments = 1..Len(shipments)
    BY ShipmentRows
  <2>2. /\ shipments' \in Seq(Shipment) /\ DOMAIN shipments' = 1..n /\ shipments'[n] = s
        /\ \A k \in 1..Len(shipments) : shipments'[k] = shipments[k]
    BY <1>3, <1>5, <2>1, LenProperties DEF TypeOK
  <2> QED
    BY <2>1, <2>2
<1>9. /\ doc' \in [Doc -> Document] /\ doc'[d] = e
      /\ \A c \in Doc \ {d} : doc'[c] = doc[c]
  BY <1>4, <1>6, UpdatedDoc
<1>10. TypeOK'
  BY <1>3, <1>7, <1>8, <1>9 DEF TypeOK, LedgerRow
<1>11. ParentFollowsShipment'
  <2> SUFFICES ASSUME NEW c \in Doc
               PROVE
      /\ \A j, k \in ShipmentsOf(c)' : j = k
      /\ (ShipmentsOf(c)' = {}) = (doc'[c].status \notin SentStatus)
      /\ \A k \in ShipmentsOf(c)' :
           doc'[c].status \in
             CASE shipments'[k].status = "in_transit" -> {"dispatched"}
               [] shipments'[k].status = "received" -> {"completed", "fulfilled"}
               [] OTHER -> {"discrepancy_flagged", "resolved", "partially_fulfilled"}
    BY DEF ParentFollowsShipment
  <2>1. CASE c = d
    <3>1. ShipmentsOf(d) = {}
      BY <1>1 DEF ParentFollowsShipment, SentStatus
    <3>2. ShipmentsOf(d)' = {n}
      BY <1>5, <1>8, <3>1 DEF ShipmentsOf
    <3> QED
      BY <1>5, <1>6, <1>8, <1>9, <2>1, <3>2 DEF SentStatus
  <2>2. CASE c # d
    <3>1. ShipmentsOf(c)' = ShipmentsOf(c)
      BY <1>5, <1>8, <2>2 DEF ShipmentsOf
    <3>2. \A k \in ShipmentsOf(c) : shipments'[k] = shipments[k]
      BY <1>8 DEF ShipmentsOf
    <3> QED
      BY <1>9, <2>2, <3>1, <3>2 DEF ParentFollowsShipment
  <2> QED
    BY <2>1, <2>2
<1>12. PickingApproved'
  BY <1>3, <1>9 DEF PickingApproved, TypeOK
<1> QED
  BY <1>7, <1>10, <1>11, <1>12

-----------------------------------------------------------------------------
(* Receipt and discrepancies.                                              *)

\* The shortfall of a line is a quantity.
LEMMA ShortType ==
  ASSUME NEW sent \in Nat, NEW received \in Nat
  PROVE  Short(sent, received) \in Nat
BY DEF Short

\* A receipt, also a repeated one, sets the parent's status from the shipment's.
LEMMA ReceiptStep ==
  ASSUME IInv, NEW k \in DOMAIN shipments, NEW recv \in Entered, ConfirmReceipt(k, recv)
  PROVE  IInv'
<1> USE DEF IInv
<1> DEFINE s == shipments[k]
           d == s.doc
           short == [p \in Product |-> Short(s.item[p].sent, recv[p])]
           flagged == \E p \in Product : short[p] > 0
           type == IF doc[d].kind = "requisition" THEN "branch_receipt_in" ELSE "transfer_in"
           status == IF flagged THEN "partially_received" ELSE "received"
           item == [p \in Product |->
                     [s.item[p] EXCEPT !.received = recv[p], !.discrepancy = short[p]]]
           r == s.receipts + 1
           t == [s EXCEPT !.status = status, !.receipts = r, !.item = item]
           line == [p \in Product |->
                     [doc[d].line[p] EXCEPT
                        !.received = ReceiptAdded(@, recv[p]),
                        !.discrepancy = IF doc[d].kind = "transfer" /\ s.item[p].sent > 0
                                        THEN short[p] ELSE @]]
           parent == ParentAfterReceipt(d, flagged)
           e == [doc[d] EXCEPT !.status = parent, !.line = line]
<1>1. s \in Shipment /\ d \in Doc /\ doc[d] \in Document /\ s.dst \in Branch
  <2>1. s \in Shipment
    BY ShipmentRows
  <2>2. d \in Doc /\ s.dst \in Branch
    BY <2>1 DEF Shipment
  <2> QED
    BY <2>1, <2>2 DEF TypeOK
<1>2. \A p \in Product :
        /\ recv[p] \in Nat /\ s.item[p] \in Item /\ doc[d].line[p] \in Line
        /\ short[p] \in Nat
  <2> SUFFICES ASSUME NEW p \in Product
               PROVE  /\ recv[p] \in Nat /\ s.item[p] \in Item /\ doc[d].line[p] \in Line
                      /\ Short(s.item[p].sent, recv[p]) \in Nat
    OBVIOUS
  <2>1. recv[p] \in Nat /\ s.item[p] \in Item /\ doc[d].line[p] \in Line
    BY <1>1, EnteredType DEF Shipment, Document
  <2>2. s.item[p].sent \in Nat
    BY <2>1 DEF Item
  <2> QED
    BY <2>1, <2>2, ShortType
<1>3. MayReceive(s) /\ Move(s.dst, recv, type) /\ UNCHANGED <<picking, checked>>
  BY DEF ConfirmReceipt
<1>4. shipments' = [shipments EXCEPT ![k] = t]
  BY Zenon DEF ConfirmReceipt
<1>5. doc' = [doc EXCEPT ![d] = e]
  BY Zenon DEF ConfirmReceipt
<1>6. t \in Shipment /\ t.doc = d /\ t.status = status
  <2>1. item \in [Product -> Item]
    <3>1. ASSUME NEW p \in Product PROVE item[p] \in Item
      <4> DEFINE i == s.item[p]
                 short1 == short[p]
      <4>1. i \in Item /\ recv[p] \in Nat /\ short1 \in Nat
        BY <1>2
      <4>2. item[p] = [i EXCEPT !.received = recv[p], !.discrepancy = short1]
        OBVIOUS
      <4> HIDE DEF i, short1
      <4> QED
        BY <4>1, <4>2 DEF Item
    <3> QED
      BY <3>1
  <2>2. r \in Nat /\ status \in {"partially_received", "received"}
    BY <1>1 DEF Shipment
  <2> HIDE DEF item, r, status
  <2> QED
    BY <1>1, <2>1, <2>2 DEF Shipment
<1>7. e \in Document /\ e.status = parent
  <2>1. line \in [Product -> Line]
    <3>1. ASSUME NEW p \in Product PROVE line[p] \in Line
      <4> DEFINE l == doc[d].line[p]
                 a == l.received + recv[p]
                 b == IF doc[d].kind = "transfer" /\ s.item[p].sent > 0
                      THEN short[p] ELSE l.discrepancy
      <4>1. l \in Line /\ recv[p] \in Nat /\ short[p] \in Nat
        BY <1>2
      <4>2. line[p] = [l EXCEPT !.received = a, !.discrepancy = b]
        BY DEF ReceiptAdded
      <4> HIDE DEF l, short
      <4>3. a \in Nat /\ b \in Nat
        BY <4>1 DEF Line
      <4> HIDE DEF a, b
      <4> QED
        BY <4>1, <4>2, <4>3 DEF Line
    <3> QED
      BY <3>1
  <2>2. parent \in Status
    BY DEF ParentAfterReceipt, Status, SentStatus
  <2> HIDE DEF line, parent
  <2> QED
    BY <1>1, <2>1, <2>2 DEF Document
<1>8. parent \in IF flagged THEN {"partially_fulfilled", "discrepancy_flagged"}
                ELSE {"fulfilled", "completed"}
  BY DEF ParentAfterReceipt
<1>9. /\ stock' \in [Branch -> [Product -> Int]] /\ ledger' \in [Branch -> [Product -> LedgerRow]]
      /\ LedgerMatchesStock'
  <2>1. recv \in [Product -> Int]
    BY <1>2 DEF Entered
  <2>2. type \in MovementType \ {"transit_loss_writeoff"}
    BY DEF MovementType
  <2> HIDE DEF type
  <2> QED
    BY <1>1, <1>3, <2>1, <2>2, MoveKeepsMatch DEF TypeOK, LedgerRow
<1> HIDE DEF t, e, parent, flagged
<1>10. /\ shipments' \in Seq(Shipment) /\ DOMAIN shipments' = DOMAIN shipments
       /\ shipments'[k] = t
       /\ \A j \in DOMAIN shipments \ {k} : shipments'[j] = shipments[j]
  BY <1>4, <1>6, ShipmentRows, ExceptSeq DEF TypeOK
<1>11. /\ doc' \in [Doc -> Document] /\ doc'[d] = e
       /\ \A c \in Doc \ {d} : doc'[c] = doc[c]
  BY <1>1, <1>5, <1>7, UpdatedDoc
<1>12. TypeOK'
  BY <1>3, <1>9, <1>10, <1>11 DEF TypeOK, LedgerRow
<1>13. \A c \in Doc : ShipmentsOf(c)' = ShipmentsOf(c)
  <2>1. \A j \in DOMAIN shipments : shipments'[j].doc = shipments[j].doc
    BY <1>6, <1>10
  <2> QED
    BY <1>10, <2>1 DEF ShipmentsOf
<1>14. k \in ShipmentsOf(d) /\ doc[d].status \in SentStatus
  <2>1. k \in ShipmentsOf(d)
    BY DEF ShipmentsOf
  <2> QED
    BY <1>1, <2>1 DEF ParentFollowsShipment
<1>15. ParentFollowsShipment'
  <2> SUFFICES ASSUME NEW c \in Doc
               PROVE
      /\ \A i, j \in ShipmentsOf(c)' : i = j
      /\ (ShipmentsOf(c)' = {}) = (doc'[c].status \notin SentStatus)
      /\ \A j \in ShipmentsOf(c)' :
           doc'[c].status \in
             CASE shipments'[j].status = "in_transit" -> {"dispatched"}
               [] shipments'[j].status = "received" -> {"completed", "fulfilled"}
               [] OTHER -> {"discrepancy_flagged", "resolved", "partially_fulfilled"}
    BY DEF ParentFollowsShipment
  <2>1. CASE c = d
    <3>1. ShipmentsOf(c)' = {k}
      BY <1>13, <1>14, <2>1 DEF ParentFollowsShipment
    <3>2. doc'[c].status = parent /\ shipments'[k].status = status
      BY <1>6, <1>7, <1>10, <1>11, <2>1
    <3>3. CASE flagged
      BY <1>8, <3>1, <3>2, <3>3 DEF SentStatus
    <3>4. CASE ~flagged
      BY <1>8, <3>1, <3>2, <3>4 DEF SentStatus
    <3> QED
      BY <3>3, <3>4
  <2>2. CASE c # d
    <3>1. \A j \in ShipmentsOf(c) : shipments'[j] = shipments[j]
      BY <1>10, <2>2 DEF ShipmentsOf
    <3> QED
      BY <1>11, <1>13, <2>2, <3>1 DEF ParentFollowsShipment
  <2> QED
    BY <2>1, <2>2
<1>16. PickingApproved'
  <2>1. picking[d] = Idle
    BY <1>1, <1>14 DEF PickingApproved, SentStatus
  <2> QED
    BY <1>3, <1>11, <2>1 DEF PickingApproved
<1> QED
  BY <1>9, <1>12, <1>15, <1>16

\* Resolving a discrepancy books what goes back into the source's stock; what
\* is lost is not booked.
LEMMA SettleStep ==
  ASSUME IInv, NEW d \in Doc, NEW resolution \in [Product -> Resolution],
         Resolve(d, resolution)
  PROVE  IInv'
<1> USE DEF IInv
<1> DEFINE src == doc[d].src
           lost == [p \in Product |->
             IF resolution[p] = "writeoff_loss" THEN doc[d].line[p].discrepancy ELSE 0]
           back == [p \in Product |->
             IF resolution[p] = "returned_to_source" THEN doc[d].line[p].discrepancy ELSE 0]
           row == [p \in Product |->
             [ledger[src][p] EXCEPT !["transit_loss_writeoff"] = @ - lost[p],
                                    !["transit_return_in"] = @ + back[p]]]
           e == [doc[d] EXCEPT !.status = "resolved"]
<1>1. doc[d] \in Document /\ src \in Branch
  BY DEF TypeOK, Document
<1>2. /\ doc[d].status = "discrepancy_flagged"
      /\ stock' = [stock EXCEPT ![src] = [p \in Product |-> stock[src][p] + back[p]]]
      /\ ledger' = [ledger EXCEPT ![src] = row]
      /\ doc' = [doc EXCEPT ![d] = e]
      /\ UNCHANGED <<shipments, picking, checked>>
  <2>1. doc[d].status \in Status
    BY <1>1 DEF Document
  <2>2. doc[d].status = "discrepancy_flagged"
    BY <2>1 DEF Resolve, MayResolve, Status, OpenStatus, SentStatus
  <2> QED
    BY <2>2 DEF Resolve
<1>3. lost \in [Product -> Int] /\ back \in [Product -> Int]
  <2>1. \A p \in Product : doc[d].line[p] \in Line
    BY <1>1 DEF Document
  <2>2. \A p \in Product : doc[d].line[p].discrepancy \in Nat
    BY <2>1 DEF Line
  <2> QED
    BY <2>2
<1>4. ASSUME NEW p \in Product
      PROVE  row[p] \in LedgerRow /\ Booked(row[p]) = Booked(ledger[src][p]) + back[p]
  <2> DEFINE r == ledger[src][p]
             l == -lost[p]
             b == back[p]
             w == [r EXCEPT !["transit_loss_writeoff"] = @ + l]
             x == [w EXCEPT !["transit_return_in"] = @ + b]
  <2>1. r \in LedgerRow /\ l \in Int /\ b \in Int
    <3>1. r \in LedgerRow
      BY <1>1 DEF TypeOK, LedgerRow
    <3>2. lost[p] \in Int /\ back[p] \in Int
      BY <1>3
    <3> HIDE DEF lost, back
    <3> QED
      BY <3>1, <3>2
  <2>2. row[p] = x
    <3>1. \A n \in Int, m \in Int : n - m = n + (-m)
      OBVIOUS
    <3>2. r["transit_loss_writeoff"] \in Int /\ lost[p] \in Int
      BY <1>3, <2>1 DEF LedgerRow, MovementType
    <3>3. row[p] = [r EXCEPT !["transit_loss_writeoff"] = r["transit_loss_writeoff"] - lost[p],
                             !["transit_return_in"] = r["transit_return_in"] + b]
      OBVIOUS
    <3>4. x = [r EXCEPT !["transit_loss_writeoff"] = r["transit_loss_writeoff"] + l,
                        !["transit_return_in"] = r["transit_return_in"] + b]
      BY <2>1 DEF LedgerRow, MovementType
    <3> QED
      BY <3>1, <3>2, <3>3, <3>4
  <2> HIDE DEF r, l, b
  <2>3. w \in LedgerRow /\ Booked(w) = Booked(r)
    BY <2>1, BookedMove DEF MovementType
  <2> HIDE DEF w
  <2>4. x \in LedgerRow /\ Booked(x) = Booked(w) + b
    BY <2>1, <2>3, BookedMove DEF MovementType
  <2> QED
    BY <2>2, <2>3, <2>4 DEF r, b
<1>5. row \in [Product -> LedgerRow]
  BY <1>4
<1> HIDE DEF row, back, lost
<1>6. /\ stock' \in [Branch -> [Product -> Int]] /\ ledger' \in [Branch -> [Product -> LedgerRow]]
      /\ LedgerMatchesStock'
  <2> HIDE DEF src
  <2> QED
    BY <1>1, <1>2, <1>3, <1>4, <1>5, RowsKeepMatch DEF TypeOK, LedgerRow
<1>7. e \in Document /\ e.status = "resolved"
  BY <1>1 DEF Document, Status, SentStatus
<1> HIDE DEF e
<1>8. /\ doc' \in [Doc -> Document] /\ doc'[d] = e
      /\ \A c \in Doc \ {d} : doc'[c] = doc[c]
  BY <1>2, <1>7, UpdatedDoc
<1>9. TypeOK'
  BY <1>2, <1>6, <1>8 DEF TypeOK, LedgerRow
<1>10. ParentFollowsShipment'
  <2> SUFFICES ASSUME NEW c \in Doc
               PROVE
      /\ \A i, j \in ShipmentsOf(c)' : i = j
      /\ (ShipmentsOf(c)' = {}) = (doc'[c].status \notin SentStatus)
      /\ \A j \in ShipmentsOf(c)' :
           doc'[c].status \in
             CASE shipments'[j].status = "in_transit" -> {"dispatched"}
               [] shipments'[j].status = "received" -> {"completed", "fulfilled"}
               [] OTHER -> {"discrepancy_flagged", "resolved", "partially_fulfilled"}
    BY DEF ParentFollowsShipment
  <2>1. ShipmentsOf(c)' = ShipmentsOf(c) /\ shipments' = shipments
    BY <1>2 DEF ShipmentsOf
  <2>2. CASE c = d
    BY <1>2, <1>7, <1>8, <2>1, <2>2 DEF ParentFollowsShipment, SentStatus
  <2>3. CASE c # d
    BY <1>8, <2>1, <2>3 DEF ParentFollowsShipment
  <2> QED
    BY <2>2, <2>3
<1>11. PickingApproved'
  BY <1>2, <1>8 DEF PickingApproved
<1> QED
  BY <1>6, <1>9, <1>10, <1>11

-----------------------------------------------------------------------------
(* The invariant.                                                          *)

LEMMA TradeStep ==
  ASSUME IInv, Trade
  PROVE  IInv'
<1> USE DEF IInv
<1>1. PICK b \in Branch, p \in Product : Sell(b, p) \/ Purchase(b, p)
  BY DEF Trade
<1>2. One(p) \in [Product -> Int] /\ Minus(One(p)) \in [Product -> Int]
  BY DEF One, Minus
<1>3. /\ UNCHANGED <<doc, shipments, picking, checked>>
      /\ \/ Move(b, Minus(One(p)), "sale")
         \/ Move(b, One(p), "purchase_in")
  BY <1>1 DEF Sell, Purchase
<1>4. /\ stock' \in [Branch -> [Product -> Int]] /\ ledger' \in [Branch -> [Product -> LedgerRow]]
      /\ LedgerMatchesStock'
  <2>1. {"sale", "purchase_in"} \subseteq MovementType \ {"transit_loss_writeoff"}
    BY DEF MovementType
  <2> QED
    BY <1>2, <1>3, <2>1, MoveKeepsMatch DEF TypeOK, LedgerRow
<1>5. TypeOK'
  BY <1>3, <1>4 DEF TypeOK, LedgerRow
<1>6. ParentFollowsShipment' /\ PickingApproved'
  BY <1>3, ParentsUndisturbed DEF PickingApproved
<1> QED
  BY <1>4, <1>5, <1>6

\* The invariant holds of the rows the system starts with.
THEOREM Initial == Init => IInv
<1> SUFFICES ASSUME Init PROVE IInv
  OBVIOUS
<1> USE DEF Init
<1>1. NoDoc \in Document /\ NoDoc.status = "none"
  <2>1. [p \in Product |-> NoLine] \in [Product -> Line]
    BY DEF NoLine, Line
  <2> QED
    BY <2>1, DistributionAssumption DEF NoDoc, Document, Kind, Status
<1>2. shipments \in Seq(Shipment) /\ DOMAIN shipments = {}
  OBVIOUS
<1>3. TypeOK
  BY <1>1, <1>2, DistributionAssumption DEF TypeOK
<1>4. LedgerMatchesStock
  <2> SUFFICES ASSUME NEW b \in Branch, NEW p \in Product
               PROVE  stock[b][p] = Opening[b][p] + Booked(ledger[b][p])
    BY DEF LedgerMatchesStock
  <2>1. Booked(ledger[b][p]) = 0
    BY DEF Booked, MovementType
  <2> QED
    BY <2>1, DistributionAssumption
<1>5. ParentFollowsShipment
  BY <1>1, <1>2 DEF ParentFollowsShipment, ShipmentsOf, SentStatus
<1>6. PickingApproved
  BY DEF PickingApproved
<1> QED
  BY <1>3, <1>4, <1>5, <1>6 DEF IInv

\* Every step keeps the invariant.
THEOREM Inductive == IInv /\ [Next]_vars => IInv'
<1> SUFFICES ASSUME IInv, [Next]_vars PROVE IInv'
  OBVIOUS
<1>1. CASE UNCHANGED vars
  <2>1. UNCHANGED <<doc, shipments, picking, checked, stock, ledger>>
    BY <1>1 DEF vars
  <2>2. TypeOK' /\ LedgerMatchesStock' /\ PickingApproved'
    BY <2>1 DEF IInv, TypeOK, LedgerMatchesStock, PickingApproved
  <2>3. ParentFollowsShipment'
    BY <2>1, ParentsUndisturbed DEF IInv
  <2> QED
    BY <2>2, <2>3 DEF IInv
<1>2. ASSUME NEW d \in Doc, Ship(d) PROVE IInv'
  BY <1>2, PickingStep, FinishStep DEF Ship
<1>3. ASSUME NEW k \in DOMAIN shipments, Receive(k) PROVE IInv'
  BY <1>3, ReceiptStep DEF Receive
<1>4. ASSUME NEW d \in Doc, Settle(d) PROVE IInv'
  BY <1>4, SettleStep DEF Settle
<1> QED
  BY <1>1, <1>2, <1>3, <1>4, RequestStep, DecideStep, TradeStep DEF Next

\* The invariant the theorems below rest on holds throughout.
THEOREM InvariantHolds == Spec => []IInv
BY Initial, Inductive, PTL DEF Spec

-----------------------------------------------------------------------------
(* Receipts.                                                               *)

\* What each document adds to ReceivedTotal.
Shares(b, p, kind) ==
  [d \in Doc |-> IF doc[d].dst = b /\ doc[d].kind = kind THEN doc[d].line[p].received ELSE 0]

LEMMA ShareType ==
  ASSUME TypeOK, NEW b, NEW p \in Product, NEW kind
  PROVE  \A d \in Doc : Shares(b, p, kind)[d] \in Int
<1> SUFFICES ASSUME NEW d \in Doc PROVE Shares(b, p, kind)[d] \in Int
  OBVIOUS
<1>1. doc[d].line[p] \in Line
  BY DEF TypeOK, Document
<1>2. doc[d].line[p].received \in Nat
  BY <1>1 DEF Line
<1> QED
  BY <1>2 DEF Shares

LEMMA TotalOfShares ==
  \A b, p, kind : ReceivedTotal(b, p, kind) = SumFunctionOnSet(Shares(b, p, kind), Doc)
BY DEF ReceivedTotal, Shares

\* A shipped document is one.
LEMMA ShippedDoc ==
  ASSUME IInv, NEW k \in DOMAIN shipments
  PROVE  shipments[k].doc \in Doc /\ doc[shipments[k].doc].status # "none"
<1>1. shipments[k] \in Shipment
  BY ShipmentRows DEF IInv
<1>2. shipments[k].doc \in Doc /\ k \in ShipmentsOf(shipments[k].doc)
  BY <1>1 DEF Shipment, ShipmentsOf
<1>3. doc[shipments[k].doc].status \in SentStatus
  BY <1>2 DEF IInv, ParentFollowsShipment
<1> QED
  BY <1>2, <1>3 DEF SentStatus

\* A step in which nothing is received: documents keep what they have received
\* and where they go, or are new, and no receipt is added to the ledger.
LEMMA NoReceiptStep ==
  ASSUME IInv, IInv', ReceiptInv,
         \A d \in Doc :
           \/ /\ doc'[d].kind = doc[d].kind /\ doc'[d].dst = doc[d].dst
              /\ doc'[d].status = "none" => doc[d].status = "none"
              /\ \A p \in Product : doc'[d].line[p].received = doc[d].line[p].received
           \/ /\ doc[d].status = "none"
              /\ \A p \in Product : doc'[d].line[p].received = 0,
         \A b \in Branch, p \in Product, m \in {"branch_receipt_in", "transfer_in"} :
           ledger'[b][p][m] = ledger[b][p][m],
         \A k \in DOMAIN shipments' :
           \/ k \in DOMAIN shipments /\ shipments'[k] = shipments[k]
           \/ shipments'[k].dst = doc'[shipments'[k].doc].dst
  PROVE  ReceiptInv'
<1>1. ASSUME NEW k \in DOMAIN shipments' PROVE shipments'[k].dst = doc'[shipments'[k].doc].dst
  <2>1. CASE k \in DOMAIN shipments /\ shipments'[k] = shipments[k]
    <3>1. shipments[k].dst = doc[shipments[k].doc].dst
      BY <2>1 DEF ReceiptInv, ShipmentsGoToDestination
    <3> QED
      BY <2>1, <3>1, ShippedDoc
  <2> QED
    BY <2>1
<1>2. NothingReceivedYet'
  BY DEF ReceiptInv, NothingReceivedYet
<1>3. ASSUME NEW b \in Branch, NEW p \in Product, NEW kind \in Kind
      PROVE  ReceivedTotal(b, p, kind)' = ReceivedTotal(b, p, kind)
  <2> DEFINE f == Shares(b, p, kind)
             g == Shares(b, p, kind)'
  <2>1. \A d \in Doc : f[d] \in Int
    BY ShareType DEF IInv
  <2>2. ASSUME NEW d \in Doc PROVE f[d] = g[d]
    BY DEF Shares, ReceiptInv, NothingReceivedYet
  <2>3. ReceivedTotal(b, p, kind) = SumFunctionOnSet(f, Doc)
    BY TotalOfShares
  <2>4. ReceivedTotal(b, p, kind)' = SumFunctionOnSet(g, Doc)
    BY DEF ReceivedTotal, Shares
  <2> HIDE DEF f, g
  <2>5. SumFunctionOnSet(f, Doc) = SumFunctionOnSet(g, Doc)
    BY <2>1, <2>2, SumSame, DistributionAssumption
  <2> QED
    BY <2>3, <2>4, <2>5
<1>4. ReceiptsMatchLedger'
  <2> SUFFICES ASSUME NEW b \in Branch, NEW p \in Product
               PROVE
      /\ ReceivedTotal(b, p, "requisition")' = ledger'[b][p]["branch_receipt_in"]
      /\ ReceivedTotal(b, p, "transfer")' = ledger'[b][p]["transfer_in"]
    BY DEF ReceiptsMatchLedger
  <2>1. /\ ReceivedTotal(b, p, "requisition") = ledger[b][p]["branch_receipt_in"]
        /\ ReceivedTotal(b, p, "transfer") = ledger[b][p]["transfer_in"]
    BY DEF ReceiptInv, ReceiptsMatchLedger
  <2>2. /\ ReceivedTotal(b, p, "requisition")' = ReceivedTotal(b, p, "requisition")
        /\ ReceivedTotal(b, p, "transfer")' = ReceivedTotal(b, p, "transfer")
    BY <1>3 DEF Kind
  <2> QED
    BY <2>1, <2>2
<1> QED
  BY <1>1, <1>2, <1>4 DEF ReceiptInv, ShipmentsGoToDestination

\* A movement adds to one type of one branch's rows.
LEMMA MovedLedger ==
  ASSUME TypeOK, NEW b \in Branch, NEW q \in [Product -> Int], NEW type \in MovementType,
         Move(b, q, type)
  PROVE  \A c \in Branch, p \in Product, m \in MovementType :
           ledger'[c][p][m] = IF c = b /\ m = type THEN ledger[c][p][m] + q[p]
                              ELSE ledger[c][p][m]
<1> SUFFICES ASSUME NEW c \in Branch, NEW p \in Product, NEW m \in MovementType
             PROVE  ledger'[c][p][m] = IF c = b /\ m = type THEN ledger[c][p][m] + q[p]
                                       ELSE ledger[c][p][m]
  OBVIOUS
<1> DEFINE row == [r \in Product |-> [ledger[b][r] EXCEPT ![type] = @ + q[r]]]
<1>1. ledger' = [ledger EXCEPT ![b] = row] /\ ledger \in [Branch -> [Product -> LedgerRow]]
  BY DEF Move, TypeOK, LedgerRow
<1>2. CASE c # b
  BY <1>1, <1>2
<1>3. CASE c = b
  <2>1. ledger'[c][p] = [ledger[b][p] EXCEPT ![type] = @ + q[p]]
    BY <1>1, <1>3
  <2>2. ledger[b][p] \in LedgerRow
    BY <1>1
  <2> QED
    BY <1>3, <2>1, <2>2 DEF LedgerRow
<1> QED
  BY <1>2, <1>3

LEMMA RequestReceipts ==
  ASSUME IInv, IInv', ReceiptInv, NEW d \in Doc, Request(d)
  PROVE  ReceiptInv'
<1>1. doc[d].status = "none" /\ UNCHANGED <<shipments, picking, checked, stock, ledger>>
  BY DEF Request, CreateRequisition, CreateTransfer
<1>2. \A c \in Doc \ {d} : doc'[c] = doc[c]
  <2>1. \E e : doc' = [doc EXCEPT ![d] = e]
    BY Zenon DEF Request, CreateRequisition, CreateTransfer
  <2> QED
    BY <2>1 DEF IInv, TypeOK
<1>3. ASSUME NEW p \in Product PROVE doc'[d].line[p].received = 0
  <2>1. PICK q \in Entered, auto \in BOOLEAN : doc'[d].line = Lines(q, auto)
    <3>1. PICK q \in Entered :
            \/ \E dst \in Branch : CreateRequisition(d, dst, q)
            \/ \E src, dst \in Branch, draft \in BOOLEAN : CreateTransfer(d, src, dst, q, draft)
      BY DEF Request
    <3>2. CASE \E dst \in Branch : CreateRequisition(d, dst, q)
      <4>1. doc'[d].line = Lines(q, FALSE)
        BY <3>2 DEF CreateRequisition, NoDoc, IInv, TypeOK
      <4> QED
        BY <4>1
    <3>3. CASE \E src, dst \in Branch, draft \in BOOLEAN : CreateTransfer(d, src, dst, q, draft)
      <4>1. PICK draft \in BOOLEAN : doc'[d].line = Lines(q, AutoApproved(q) /\ ~draft)
        BY <3>3 DEF CreateTransfer, NoDoc, IInv, TypeOK
      <4>2. (AutoApproved(q) /\ ~draft) \in BOOLEAN
        BY DEF AutoApproved
      <4> QED
        BY <4>1, <4>2
    <3> QED
      BY <3>1, <3>2, <3>3
  <2> DEFINE a == IF auto /\ q[p] > 0 THEN q[p] ELSE NoQty
  <2>2. doc'[d].line[p] = [NoLine EXCEPT !.requested = q[p], !.approved = a]
    BY <2>1, Zenon DEF Lines
  <2>3. PICK l, r : l = NoLine /\ r = q[p]
    OBVIOUS
  <2>4. l \in Line /\ l.received = 0
    BY <2>3 DEF NoLine, Line
  <2> HIDE DEF a
  <2>5. [l EXCEPT !.requested = r, !.approved = a].received = 0
    BY <2>4 DEF Line
  <2> QED
    BY <2>2, <2>3, <2>5
<1>4. \A k \in DOMAIN shipments' : k \in DOMAIN shipments /\ shipments'[k] = shipments[k]
  BY <1>1
<1> QED
  BY <1>1, <1>2, <1>3, <1>4, NoReceiptStep

\* Approving and rejecting leave alone what was received.
LEMMA DecideReceipts ==
  ASSUME IInv, IInv', ReceiptInv, NEW d \in Doc, Decide(d)
  PROVE  ReceiptInv'
<1>1. UNCHANGED <<shipments, picking, checked, stock, ledger>>
  BY DEF Decide, Approve, Reject
<1>2. \A c \in Doc \ {d} : doc'[c] = doc[c]
  <2>1. \E e : doc' = [doc EXCEPT ![d] = e]
    BY Zenon DEF Decide, Approve, Reject
  <2> QED
    BY <2>1 DEF IInv, TypeOK
<1>3. doc[d] \in Document /\ doc \in [Doc -> Document]
  BY DEF IInv, TypeOK
<1>4. /\ doc'[d].kind = doc[d].kind /\ doc'[d].dst = doc[d].dst
      /\ doc'[d].status \in {"approved", "rejected"}
  BY ZenonT(60), <1>3 DEF Decide, Approve, Reject, Document
<1>5. ASSUME NEW p \in Product PROVE doc'[d].line[p].received = doc[d].line[p].received
  <2>1. doc[d].line[p] \in Line
    BY <1>3 DEF Document
  <2>2. CASE Reject(d)
    BY <1>3, <2>2 DEF Reject, Document
  <2>3. ASSUME NEW q \in [Product -> Quantity \cup {NoQty}], Approve(d, q)
        PROVE  doc'[d].line[p].received = doc[d].line[p].received
    <3>1. \E a : doc'[d].line[p] = [doc[d].line[p] EXCEPT !.approved = a]
      BY <1>3, <2>3, Zenon DEF Approve, Document
    <3> QED
      BY <2>1, <3>1 DEF Line
  <2> QED
    BY <2>2, <2>3 DEF Decide
<1> QED
  BY <1>1, <1>2, <1>4, <1>5, NoReceiptStep

\* A dispatch moves goods out and says where they go.
LEMMA ShipReceipts ==
  ASSUME IInv, IInv', ReceiptInv, NEW d \in Doc, Ship(d)
  PROVE  ReceiptInv'
<1>1. CASE UNCHANGED <<doc, shipments, stock, ledger>>
  BY <1>1, NoReceiptStep
<1>2. CASE FinishDispatch(d)
  <2> DEFINE q == picking[d]
             type == IF doc[d].kind = "requisition" THEN "hq_dispatch_out" ELSE "in_transit_out"
             line == [p \in Product |-> [doc[d].line[p] EXCEPT !.dispatched = @ + q[p]]]
             n == Len(shipments) + 1
  <2>1. /\ doc[d] \in Document /\ doc \in [Doc -> Document] /\ TypeOK
        /\ \A p \in Product : q[p] \in Nat
        /\ q \in Entered
    BY <1>2, EnteredType DEF FinishDispatch, Unlocked, IInv, TypeOK
  <2>2. doc' = [doc EXCEPT ![d] = [doc[d] EXCEPT !.status = "dispatched", !.line = line]]
    BY <1>2, Zenon DEF FinishDispatch
  <2>3. ASSUME NEW p \in Product PROVE line[p].received = doc[d].line[p].received
    <3>1. doc[d].line[p] \in Line
      BY <2>1 DEF Document
    <3> QED
      BY <3>1 DEF Line
  <2> HIDE DEF line
  <2>4. /\ doc'[d].kind = doc[d].kind /\ doc'[d].dst = doc[d].dst
        /\ doc'[d].status = "dispatched" /\ doc'[d].line = line
        /\ \A c \in Doc \ {d} : doc'[c] = doc[c]
    BY <2>1, <2>2 DEF Document
  <2>5. ASSUME NEW b \in Branch, NEW p \in Product, NEW m \in {"branch_receipt_in", "transfer_in"}
        PROVE  ledger'[b][p][m] = ledger[b][p][m]
    <3>1. Source(d) \in Branch /\ Minus(q) \in [Product -> Int] /\ Move(Source(d), Minus(q), type)
      <4>1. Source(d) \in Branch
        BY <2>1, DistributionAssumption DEF Source, Document
      <4>2. Minus(q) \in [Product -> Int]
        BY <2>1 DEF Minus
      <4> QED
        BY <1>2, <4>1, <4>2 DEF FinishDispatch
    <3>2. type \in MovementType /\ m \in MovementType /\ m # type
      BY DEF MovementType
    <3> HIDE DEF q, type
    <3> QED
      BY <2>1, <3>1, <3>2, MovedLedger
  <2>6. ASSUME NEW k \in DOMAIN shipments'
        PROVE  \/ k \in DOMAIN shipments /\ shipments'[k] = shipments[k]
               \/ shipments'[k].dst = doc'[shipments'[k].doc].dst
    <3> DEFINE s == [doc |-> d, src |-> Source(d), dst |-> doc[d].dst, status |-> "in_transit",
                item |-> [p \in Product |-> [sent |-> q[p], received |-> 0, discrepancy |-> 0]],
                receipts |-> 0]
    <3>1. shipments' = Append(shipments, s) /\ s.doc = d /\ s.dst = doc[d].dst
      BY <1>2 DEF FinishDispatch
    <3> HIDE DEF s
    <3>2. Len(shipments) \in Nat /\ DOMAIN shipments = 1..Len(shipments)
      BY <2>1, ShipmentRows
    <3>3. (k \in DOMAIN shipments /\ shipments'[k] = shipments[k]) \/ shipments'[k] = s
      BY <2>1, <3>1, <3>2 DEF TypeOK
    <3> QED
      BY <2>4, <3>1, <3>3
  <2> QED
    BY <2>3, <2>4, <2>5, <2>6, NoReceiptStep
<1> QED
  BY <1>1, <1>2 DEF Ship, BeginDispatch, CheckLine, AbortDispatch

\* A receipt adds as much to the parent's line as to the ledger of the branch
\* that the shipment, and so its parent, goes to.
LEMMA ReceiptReceipts ==
  ASSUME IInv, IInv', ReceiptInv, NEW k \in DOMAIN shipments, NEW recv \in Entered,
         ConfirmReceipt(k, recv)
  PROVE  ReceiptInv'
<1> DEFINE s == shipments[k]
           d == s.doc
           type == IF doc[d].kind = "requisition" THEN "branch_receipt_in" ELSE "transfer_in"
<1>1. /\ TypeOK /\ s \in Shipment /\ d \in Doc /\ doc[d] \in Document /\ s.dst \in Branch
      /\ s.dst = doc[d].dst /\ doc[d].kind \in Kind
  <2>1. TypeOK /\ s \in Shipment
    BY ShipmentRows DEF IInv
  <2>2. d \in Doc /\ s.dst \in Branch
    BY <2>1 DEF Shipment
  <2>3. doc[d] \in Document
    BY <2>1, <2>2 DEF TypeOK
  <2>4. s.dst = doc[d].dst /\ doc[d].kind \in Kind
    BY <2>3 DEF Document, ReceiptInv, ShipmentsGoToDestination
  <2> QED
    BY <2>1, <2>2, <2>3, <2>4
<1>2. \A p \in Product : recv[p] \in Int
  BY EnteredType
<1>3. /\ \A c \in Doc \ {d} : doc'[c] = doc[c]
      /\ doc'[d].kind = doc[d].kind /\ doc'[d].dst = doc[d].dst /\ doc'[d].status # "none"
      /\ \A p \in Product : doc'[d].line[p].received = doc[d].line[p].received + recv[p]
  <2> DEFINE short == [p \in Product |-> Short(s.item[p].sent, recv[p])]
             flagged == \E p \in Product : short[p] > 0
             line == [p \in Product |->
                       [doc[d].line[p] EXCEPT
                          !.received = ReceiptAdded(@, recv[p]),
                          !.discrepancy = IF doc[d].kind = "transfer" /\ s.item[p].sent > 0
                                          THEN short[p] ELSE @]]
             parent == ParentAfterReceipt(d, flagged)
             e == [doc[d] EXCEPT !.status = parent, !.line = line]
  <2>1. doc' = [doc EXCEPT ![d] = e]
    BY Zenon DEF ConfirmReceipt
  <2>2. parent # "none"
    BY DEF ParentAfterReceipt
  <2>3. ASSUME NEW p \in Product
        PROVE  line[p].received = doc[d].line[p].received + recv[p]
    <3> DEFINE l == doc[d].line[p]
               a == l.received + recv[p]
               b == IF doc[d].kind = "transfer" /\ s.item[p].sent > 0
                    THEN short[p] ELSE l.discrepancy
    <3>1. l \in Line
      BY <1>1 DEF Document
    <3>2. line[p] = [l EXCEPT !.received = a, !.discrepancy = b]
      BY DEF ReceiptAdded
    <3> HIDE DEF b
    <3> QED
      BY <3>1, <3>2 DEF Line
  <2> HIDE DEF parent, line
  <2>4. e.kind = doc[d].kind /\ e.dst = doc[d].dst /\ e.status = parent /\ e.line = line
    BY <1>1 DEF Document
  <2> HIDE DEF e
  <2>5. doc'[d] = e /\ \A c \in Doc \ {d} : doc'[c] = doc[c]
    BY <1>1, <2>1 DEF TypeOK
  <2> QED
    BY <2>2, <2>3, <2>4, <2>5
<1>4. \A b \in Branch, p \in Product, m \in MovementType :
        ledger'[b][p][m] = IF b = s.dst /\ m = type THEN ledger[b][p][m] + recv[p]
                           ELSE ledger[b][p][m]
  <2>1. Move(s.dst, recv, type) /\ recv \in [Product -> Int] /\ type \in MovementType
    BY <1>2 DEF ConfirmReceipt, Entered, MovementType
  <2> HIDE DEF type
  <2> QED
    BY <1>1, <2>1, MovedLedger
<1>5. \A j \in DOMAIN shipments' :
        /\ j \in DOMAIN shipments
        /\ shipments'[j].doc = shipments[j].doc /\ shipments'[j].dst = shipments[j].dst
  <2>1. PICK x, y, z : shipments' = [shipments EXCEPT ![k] =
                         [s EXCEPT !.status = x, !.receipts = y, !.item = z]]
    BY Zenon DEF ConfirmReceipt
  <2> QED
    BY <1>1, <2>1 DEF Shipment
<1> HIDE DEF s, d, type
<1>6. ShipmentsGoToDestination'
  BY <1>1, <1>3, <1>5, ShippedDoc DEF ReceiptInv, ShipmentsGoToDestination
<1>7. NothingReceivedYet'
  BY <1>3 DEF ReceiptInv, NothingReceivedYet
<1>8. ASSUME NEW b \in Branch, NEW p \in Product, NEW kind \in Kind
      PROVE  ReceivedTotal(b, p, kind)' = IF b = doc[d].dst /\ kind = doc[d].kind
                                          THEN ReceivedTotal(b, p, kind) + recv[p]
                                          ELSE ReceivedTotal(b, p, kind)
  <2> DEFINE f == Shares(b, p, kind)
             g == Shares(b, p, kind)'
             add == IF b = doc[d].dst /\ kind = doc[d].kind THEN recv[p] ELSE 0
  <2>1. \A c \in Doc : f[c] \in Int
    BY <1>1, ShareType
  <2>2. \A c \in Doc : c # d => g[c] = f[c]
    BY <1>3 DEF Shares
  <2>3. add \in Int /\ g[d] = f[d] + add
    <3>1. doc[d].line[p].received \in Int
      <4>1. doc[d].line[p] \in Line
        BY <1>1 DEF Document
      <4> QED
        BY <4>1 DEF Line
    <3> QED
      BY <1>1, <1>2, <1>3, <3>1 DEF Shares
  <2>4. ReceivedTotal(b, p, kind) = SumFunctionOnSet(f, Doc)
    BY TotalOfShares
  <2>5. ReceivedTotal(b, p, kind)' = SumFunctionOnSet(g, Doc)
    BY DEF ReceivedTotal, Shares
  <2>6. f[d] \in Int /\ g[d] \in Int
    BY <1>1, <2>1, <2>3
  <2>7. SumFunctionOnSet(f, Doc) \in Int
    <3> HIDE DEF f
    <3> QED
      BY <2>1, SumTakeOut, DistributionAssumption
  <2>8. SumFunctionOnSet(g, Doc) = SumFunctionOnSet(f, Doc) - f[d] + g[d]
    <3> HIDE DEF f, g
    <3> QED
      BY <1>1, <2>1, <2>2, <2>6, SumChange, DistributionAssumption
  <2>9. ReceivedTotal(b, p, kind)' = ReceivedTotal(b, p, kind) + add
    <3> HIDE DEF f, g, add
    <3> QED
      BY <2>3, <2>4, <2>5, <2>6, <2>7, <2>8
  <2>10. ReceivedTotal(b, p, kind) \in Int
    BY <2>4, <2>7
  <2> QED
    BY <2>9, <2>10
<1>9. ASSUME NEW b \in Branch, NEW p \in Product
      PROVE  /\ ReceivedTotal(b, p, "requisition")' = ledger'[b][p]["branch_receipt_in"]
             /\ ReceivedTotal(b, p, "transfer")' = ledger'[b][p]["transfer_in"]
  <2>1. /\ ReceivedTotal(b, p, "requisition") = ledger[b][p]["branch_receipt_in"]
        /\ ReceivedTotal(b, p, "transfer") = ledger[b][p]["transfer_in"]
    BY DEF ReceiptInv, ReceiptsMatchLedger
  <2>2. {"branch_receipt_in", "transfer_in"} \subseteq MovementType
    BY DEF MovementType
  <2>3. CASE doc[d].kind = "requisition"
    <3>1. type = "branch_receipt_in"
      BY <2>3 DEF type
    <3> QED
      BY <1>1, <1>4, <1>8, <2>1, <2>2, <2>3, <3>1 DEF Kind
  <2>4. CASE doc[d].kind = "transfer"
    <3>1. type = "transfer_in"
      BY <2>4 DEF type
    <3> QED
      BY <1>1, <1>4, <1>8, <2>1, <2>2, <2>4, <3>1 DEF Kind
  <2> QED
    BY <1>1, <2>3, <2>4 DEF Kind
<1> QED
  BY <1>6, <1>7, <1>9 DEF ReceiptInv, ReceiptsMatchLedger

\* Resolving a discrepancy books no receipt: what goes back goes to the source.
LEMMA SettleReceipts ==
  ASSUME IInv, IInv', ReceiptInv, NEW d \in Doc, NEW resolution \in [Product -> Resolution],
         Resolve(d, resolution)
  PROVE  ReceiptInv'
<1>1. /\ doc \in [Doc -> Document] /\ doc[d] \in Document /\ doc[d].src \in Branch
      /\ ledger \in [Branch -> [Product -> LedgerRow]]
  BY DEF IInv, TypeOK, Document, LedgerRow
<1>2. UNCHANGED shipments /\ doc' = [doc EXCEPT ![d].status = "resolved"]
  BY DEF Resolve
<1>3. /\ doc'[d].kind = doc[d].kind /\ doc'[d].dst = doc[d].dst
      /\ doc'[d].status = "resolved" /\ doc'[d].line = doc[d].line
      /\ \A c \in Doc \ {d} : doc'[c] = doc[c]
  BY <1>1, <1>2 DEF Document
<1>4. ASSUME NEW b \in Branch, NEW p \in Product, NEW m \in {"branch_receipt_in", "transfer_in"}
      PROVE  ledger'[b][p][m] = ledger[b][p][m]
  <2>1. \E row : /\ ledger' = [ledger EXCEPT ![doc[d].src] = row]
                 /\ \E x, y : row[p] = [ledger[doc[d].src][p] EXCEPT
                                 !["transit_loss_writeoff"] = x, !["transit_return_in"] = y]
    <3> DEFINE src == doc[d].src
               lost == [r \in Product |->
                 IF resolution[r] = "writeoff_loss" THEN doc[d].line[r].discrepancy ELSE 0]
               back == [r \in Product |->
                 IF resolution[r] = "returned_to_source" THEN doc[d].line[r].discrepancy ELSE 0]
               row == [r \in Product |->
                 [ledger[src][r] EXCEPT !["transit_loss_writeoff"] = @ - lost[r],
                                        !["transit_return_in"] = @ + back[r]]]
               x == ledger[src][p]["transit_loss_writeoff"] - lost[p]
               y == ledger[src][p]["transit_return_in"] + back[p]
    <3>1. ledger' = [ledger EXCEPT ![src] = row]
      BY DEF Resolve
    <3>2. row[p] = [ledger[src][p] EXCEPT !["transit_loss_writeoff"] = x,
                                          !["transit_return_in"] = y]
      OBVIOUS
    <3> HIDE DEF row, x, y
    <3> QED
      BY <3>1, <3>2
  <2>2. CASE b = doc[d].src
    <3>1. \E x, y : ledger'[b][p] = [ledger[b][p] EXCEPT
                       !["transit_loss_writeoff"] = x, !["transit_return_in"] = y]
      BY <1>1, <2>1, <2>2
    <3>2. ledger[b][p] \in LedgerRow
      BY <1>1
    <3> QED
      BY <3>1, <3>2 DEF LedgerRow, MovementType
  <2>3. CASE b # doc[d].src
    BY <1>1, <2>1, <2>3
  <2> QED
    BY <2>2, <2>3
<1>5. \A k \in DOMAIN shipments' : k \in DOMAIN shipments /\ shipments'[k] = shipments[k]
  BY <1>2
<1> QED
  BY <1>3, <1>4, <1>5, NoReceiptStep

LEMMA TradeReceipts ==
  ASSUME IInv, IInv', ReceiptInv, Trade
  PROVE  ReceiptInv'
<1>1. PICK c \in Branch, r \in Product : Sell(c, r) \/ Purchase(c, r)
  BY DEF Trade
<1>2. PICK q \in [Product -> Int], type \in {"sale", "purchase_in"} : Move(c, q, type)
  <2>1. One(r) \in [Product -> Int] /\ Minus(One(r)) \in [Product -> Int]
    BY DEF One, Minus
  <2> QED
    BY <1>1, <2>1 DEF Sell, Purchase
<1>3. ASSUME NEW b \in Branch, NEW p \in Product, NEW m \in {"branch_receipt_in", "transfer_in"}
      PROVE  ledger'[b][p][m] = ledger[b][p][m]
  <2>1. type \in MovementType /\ m \in MovementType /\ m # type
    BY DEF MovementType
  <2> QED
    BY <1>2, <2>1, MovedLedger DEF IInv
<1>4. UNCHANGED <<doc, shipments>>
  BY <1>1 DEF Sell, Purchase
<1> QED
  BY <1>3, <1>4, NoReceiptStep

THEOREM InitialReceipts == Init => ReceiptInv
<1> SUFFICES ASSUME Init PROVE ReceiptInv
  OBVIOUS
<1> USE DEF Init
<1>1. IInv
  BY Initial
<1>2. \A d \in Doc, p \in Product : doc[d].line[p].received = 0
  BY DEF NoDoc, NoLine
<1>3. ASSUME NEW b \in Branch, NEW p \in Product, NEW kind
      PROVE  ReceivedTotal(b, p, kind) = 0
  <2> DEFINE f == Shares(b, p, kind)
  <2>1. \A d \in Doc : f[d] = 0
    BY <1>2 DEF Shares
  <2> HIDE DEF f
  <2>2. SumFunctionOnSet(f, Doc) = 0
    BY <2>1, SumZero, DistributionAssumption
  <2> QED
    BY <2>2, TotalOfShares DEF f
<1>4. \A b \in Branch, p \in Product, m \in MovementType : ledger[b][p][m] = 0
  OBVIOUS
<1>5. ReceiptsMatchLedger
  BY <1>3, <1>4 DEF ReceiptsMatchLedger, MovementType
<1>6. ShipmentsGoToDestination
  BY DEF ShipmentsGoToDestination
<1> QED
  BY <1>2, <1>5, <1>6 DEF ReceiptInv, NothingReceivedYet

THEOREM InductiveReceipts == IInv /\ IInv' /\ ReceiptInv /\ [Next]_vars => ReceiptInv'
<1> SUFFICES ASSUME IInv, IInv', ReceiptInv, [Next]_vars PROVE ReceiptInv'
  OBVIOUS
<1>1. CASE UNCHANGED vars
  BY <1>1, NoReceiptStep DEF vars
<1>2. ASSUME NEW d \in Doc, Request(d) \/ Decide(d) \/ Ship(d) \/ Settle(d) PROVE ReceiptInv'
  BY <1>2, RequestReceipts, DecideReceipts, ShipReceipts, SettleReceipts DEF Settle
<1>3. ASSUME NEW k \in DOMAIN shipments, Receive(k) PROVE ReceiptInv'
  BY <1>3, ReceiptReceipts DEF Receive
<1> QED
  BY <1>1, <1>2, <1>3, TradeReceipts DEF Next

-----------------------------------------------------------------------------
(* The theorems.                                                           *)

\* The state keeps its types.
THEOREM TypeCorrect == Spec => []TypeOK
<1>1. IInv => TypeOK
  BY DEF IInv
<1> QED
  BY <1>1, InvariantHolds, PTL

\* Sales, purchases, dispatches, receipts and returns leave no unit of stock
\* without a movement that explains it (branch_services.py 559-871).
THEOREM StockExplained == Spec => []LedgerMatchesStock
<1>1. IInv => LedgerMatchesStock
  BY DEF IInv
<1> QED
  BY <1>1, InvariantHolds, PTL

\* A document is dispatched at most once, after its approval, and tells what its
\* shipment tells, whatever is decided, received or resolved in between.
THEOREM ParentTellsShipment == Spec => []ParentFollowsShipment
<1>1. IInv => ParentFollowsShipment
  BY DEF IInv
<1> QED
  BY <1>1, InvariantHolds, PTL

\* Goods that have left are never requested, decided on or sent again.
THEOREM GoodsSentForGood == Spec => SentForGood
<1>1. ASSUME IInv, IInv', [Next]_vars, NEW d \in Doc, doc[d].status \in SentStatus
      PROVE  doc'[d].status \in SentStatus
  <2>1. PICK k \in DOMAIN shipments : shipments[k].doc = d
    BY <1>1 DEF IInv, ParentFollowsShipment, ShipmentsOf
  <2>2. k \in DOMAIN shipments' /\ shipments'[k].doc = d
    <3>1. CASE shipments' = shipments
      BY <2>1, <3>1
    <3>2. ASSUME NEW s, shipments' = Append(shipments, s)
          PROVE  k \in DOMAIN shipments' /\ shipments'[k].doc = d
      BY <1>1, <2>1, <3>2, ShipmentRows DEF IInv, TypeOK
    <3>3. ASSUME NEW j \in DOMAIN shipments, Receive(j)
          PROVE  k \in DOMAIN shipments' /\ shipments'[k].doc = d
      <4>1. PICK recv \in Entered : ConfirmReceipt(j, recv)
        BY SMTT(30), <3>3 DEF Receive
      <4> DEFINE t == shipments'[j]
      <4>2. /\ DOMAIN shipments' = DOMAIN shipments
            /\ \A i \in DOMAIN shipments \ {j} : shipments'[i] = shipments[i]
        BY ZenonT(60), <4>1 DEF ConfirmReceipt
      <4>3. t.doc = shipments[j].doc
        <5>1. shipments[j] \in Shipment
          BY SMTT(30), <1>1, ShipmentRows DEF IInv
        <5> QED
          BY <4>1, <5>1 DEF ConfirmReceipt, Shipment
      <4> QED
        BY <2>1, <4>2, <4>3
    <3>4. \/ shipments' = shipments
          \/ \E s : shipments' = Append(shipments, s)
          \/ \E j \in DOMAIN shipments : Receive(j)
      BY ZenonT(60), <1>1 DEF Next, vars, Request, CreateRequisition, CreateTransfer, Decide, Approve,
           Reject, Ship, BeginDispatch, CheckLine, FinishDispatch, AbortDispatch, Settle,
           Resolve, Trade, Sell, Purchase
    <3> QED
      BY <3>1, <3>2, <3>3, <3>4
  <2>3. ShipmentsOf(d)' # {}
    BY <2>2 DEF ShipmentsOf
  <2> QED
    BY <1>1, <2>3 DEF IInv, ParentFollowsShipment
<1>2. IInv /\ IInv' /\ [Next]_vars =>
        [\A d \in Doc : doc[d].status \in SentStatus => doc'[d].status \in SentStatus]_vars
  BY <1>1
<1> QED
  BY <1>2, InvariantHolds, PTL DEF Spec, SentForGood

\* What requisitions and transfers say was received at a branch is what its
\* stock ledger says, however often receipts are confirmed again
\* (branch_services.py 688-780): the two never drift apart.
THEOREM ReceiptsRecorded == Spec => []ReceiptsMatchLedger
<1>1. Spec => []ReceiptInv
  BY InitialReceipts, InductiveReceipts, InvariantHolds, PTL DEF Spec
<1>2. ReceiptInv => ReceiptsMatchLedger
  BY DEF ReceiptInv
<1> QED
  BY <1>1, <1>2, PTL

=============================================================================
