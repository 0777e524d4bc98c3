--------------------------- MODULE ProcurementProofs ---------------------------
(***************************************************************************)
(* Proofs about purchase orders (module Purchasing) and about what is owed *)
(* for them (module Payables).  The two share no state: each has its own   *)
(* specification, inductive invariant and theorems.                        *)
(***************************************************************************)
EXTENDS Purchasing, Payables, SumLemmas

-----------------------------------------------------------------------------
(* The inductive invariant of Purchasing.                                  *)

OrderStatus == {"approved", "sent", "partially_received", "received", "closed"}
NoteStatus == {"none", "draft", "submitted", "acknowledged", "collected", "credited", "cancelled"}
Station == {"idle", "save", "receive", "posting", "clear", "list", "write", "note"}
Request == [at : Station, copy : OrderStatus \cup NoteStatus, next : OrderStatus \cup NoteStatus,
            item : Note \cup {0}, seen : [Line -> Quantities], took : [Line -> Quantities],
            shelf : [Product -> Int]]

Typed ==
  /\ status \in OrderStatus
  /\ received \in [Line -> Quantities]
  /\ stock \in [Product -> Int]
  /\ noteRows \in Seq(BOOLEAN)
  /\ returns \in [Note -> [status : NoteStatus, qty : [Product -> Nat]]]
  /\ work \in [Session -> Request]
  /\ sold \in [Product -> Nat]
  /\ overwritten \in Seq(SUBSET ({"order"} \cup Product \cup Note))
  /\ torn \in BOOLEAN

\* One receipt at a time holds the order; while it does, the lines are as it
\* has read them and the order is not complete.
Posting(s) == work[s].at = "posting"
PostingAlone == \A s, t \in Session : Posting(s) /\ Posting(t) => s = t
PostingCurrent == \A s \in Session :
  Posting(s) => work[s].seen = received /\ status \notin {"received", "closed"}

\* What the views will save.
SavesOutcome == \A s \in Session :
  work[s].at = "save" =>
    \/ work[s].copy = "approved" /\ work[s].next = "sent"
    \/ work[s].copy \in {"received", "partially_received"} /\ work[s].next = "closed"
SavesStatus == \A s \in Session :
  work[s].at = "note" =>
    /\ work[s].item \in Note /\ work[s].next \in DOMAIN MayBecome
    /\ work[s].copy \in MayBecome[work[s].next]

\* A note that was not made returns nothing.
NothingYet == \A n \in Note : returns[n].status = "none" => \A p \in Product : returns[n].qty[p] = 0

\* Who rebuilds the received note does so after a receipt.  Between deleting
\* the rows and writing them the note is empty, and the lines are as they were
\* read, unless another receipt has come and its rebuild is still to start.
Filling(s) == work[s].at \in {"list", "write"}
NoteRebuilt ==
  /\ \A s \in Session : Rebuilding(s) => received # Nothing
  /\ ~torn =>
       /\ \A s, t \in Session : Filling(s) /\ Filling(t) => s = t
       /\ \A s \in Session : Filling(s) => noteRows = <<>>
       /\ \A s \in Session : work[s].at = "write" =>
            work[s].seen = received \/ \E t \in Session : work[t].at = "clear"

OrderInv ==
  /\ Typed /\ PostingAlone /\ PostingCurrent /\ SavesOutcome /\ SavesStatus /\ NothingYet
  /\ WithinOrder /\ StockAccounted /\ ReturnsWithinReceipt
  /\ NoteRebuilt /\ ReceiptNoteCurrent


-----------------------------------------------------------------------------
(* What the steps of Purchasing have in common.                            *)

LEMMA MaxIsGreatest ==
  ASSUME NEW S, S \subseteq Nat, IsFiniteSet(S), S # {}
  PROVE  Max(S) \in S /\ \A x \in S : x <= Max(S)
<1> DEFINE rank == [x \in S |-> x]
<1>1. rank \in [S -> Nat]
  OBVIOUS
<1>2. PICK bound \in Nat : \A x \in S : rank[x] <= bound
  <2> HIDE DEF rank
  <2> QED
    BY <1>1, FiniteBound
<1>3. PICK m \in S : \A x \in S : rank[x] <= rank[m]
  <2> HIDE DEF rank
  <2> QED
    BY <1>1, <1>2, GreatestRank
<1>4. \A x \in S : m >= x
  BY <1>3
<1>5. Max(S) \in S /\ \A x \in S : Max(S) >= x
  BY <1>4 DEF Max
<1> QED
  BY <1>5

\* Idle is a request.
LEMMA IdleRequest == Idle \in Request /\ Nothing \in [Line -> Quantities]
<1>1. Nothing \in [Line -> Quantities]
  BY DEF Nothing, Quantities
<1>2. Opening \in [Product -> Int]
  BY PurchasingAssumption
<1> QED
  BY <1>1, <1>2 DEF Idle, Request, Station, OrderStatus, NoteStatus

\* A line gets its quantities in naturals, and what is outstanding of it is one.
LEMMA QuantitiesNatural ==
  ASSUME NEW state \in [Line -> Quantities], NEW l \in Line
  PROVE  /\ state[l].good \in Nat /\ state[l].bad \in Nat /\ Units(state[l]) \in Nat
         /\ Ordered[l] \in Nat \ {0} /\ Outstanding(l, state) \in Nat
         /\ Units(state[l]) = state[l].good + state[l].bad
         /\ Outstanding(l, state) = 0 <=> Units(state[l]) >= Ordered[l]
         /\ Outstanding(l, state) > 0 => Outstanding(l, state) = Ordered[l] - Units(state[l])
<1>1. state[l].good \in Nat /\ state[l].bad \in Nat
  BY DEF Quantities
<1>2. Ordered[l] \in Nat \ {0}
  BY PurchasingAssumption
<1> QED
  BY <1>1, <1>2 DEF Units, Outstanding, Positive

\* What a save records.
LEMMA SavedRecords ==
  ASSUME NEW T, overwritten \in Seq(SUBSET T), NEW old \in SUBSET T, Saved(old)
  PROVE  overwritten' \in Seq(SUBSET T) /\ Overwritten' = Overwritten \cup old
<1>1. CASE old = {}
  BY <1>1 DEF Saved, Overwritten
<1>2. CASE old # {}
  <2>1. overwritten' = Append(overwritten, old)
    BY <1>2 DEF Saved
  <2>2. overwritten' \in Seq(SUBSET T)
    BY <2>1
  <2>3. Range(overwritten') = Range(overwritten) \cup {old}
    BY <2>1 DEF Range
  <2>4. Overwritten' = UNION Range(overwritten')
    BY DEF Overwritten
  <2>5. UNION (Range(overwritten) \cup {old}) = (UNION Range(overwritten)) \cup old
    OBVIOUS
  <2> QED
    BY <2>2, <2>3, <2>4, <2>5 DEF Overwritten
<1> QED
  BY <1>1, <1>2

\* The lines that a receipt posts, and the last of them that a product has.
LEMMA PostedLines ==
  ASSUME Typed, NEW s \in Session, NEW p \in Product
  PROVE  /\ Posted(s) \in SUBSET Line /\ IsFiniteSet(Posted(s))
         /\ PostedOf(s, p) \in SUBSET Line /\ IsFiniteSet(PostedOf(s, p))
         /\ PostedOf(s, p) # {} => Max(PostedOf(s, p)) \in PostedOf(s, p)
<1>1. Posted(s) \in SUBSET Line /\ PostedOf(s, p) \in SUBSET Line
  BY DEF Posted, PostedOf
<1>2. IsFiniteSet(Line) /\ Line \subseteq Nat
  BY PurchasingAssumption
<1>3. IsFiniteSet(Posted(s)) /\ IsFiniteSet(PostedOf(s, p))
  BY <1>1, <1>2, FS_Subset
<1>4. PostedOf(s, p) \subseteq Nat
  BY <1>1, <1>2
<1> QED
  BY <1>1, <1>3, <1>4, MaxIsGreatest

LEMMA TwoMembers ==
  ASSUME NEW x, NEW y, x # y
  PROVE  Cardinality({x, y}) = 2
<1>1. PICK S : S = {x}
  OBVIOUS
<1>2. IsFiniteSet(S) /\ Cardinality(S) = 1 /\ y \notin S
  BY <1>1, FS_Singleton
<1>3. Cardinality(S \cup {y}) = Cardinality(S) + 1
  BY <1>2, FS_AddElement
<1>4. S \cup {y} = {x, y}
  BY <1>1
<1> QED
  BY <1>2, <1>3, <1>4

\* What a receipt does to the lines: it adds what came in to those it posts,
\* which had as much outstanding.
LEMMA LinesPosted ==
  ASSUME Typed, PostingCurrent, NEW s \in Session, PostReceipt(s)
  PROVE  /\ received' \in [Line -> Quantities] /\ work[s].took \in [Line -> Quantities]
         /\ status \notin {"received", "closed"}
         /\ \A l \in Posted(s) : /\ received'[l].good = received[l].good + work[s].took[l].good
                                 /\ received'[l].bad = received[l].bad + work[s].took[l].bad
                                 /\ Units(work[s].took[l]) > 0
                                 /\ Units(received'[l]) <= Ordered[l]
         /\ \A l \in Line : l \notin Posted(s) => received'[l] = received[l]
<1>1. /\ work[s].took \in [Line -> Quantities] /\ received \in [Line -> Quantities]
      /\ work[s].seen = received /\ status \notin {"received", "closed"}
  BY DEF Typed, Request, PostReceipt, At, PostingCurrent, Posting
<1>2. received' = [l \in Line |-> IF l \in Posted(s)
               THEN [good |-> received[l].good + work[s].took[l].good,
                     bad |-> received[l].bad + work[s].took[l].bad]
               ELSE received[l]]
  BY <1>1 DEF PostReceipt
<1>3. \A l \in Line : /\ work[s].took[l].good \in Nat /\ work[s].took[l].bad \in Nat
                      /\ received[l].good \in Nat /\ received[l].bad \in Nat
  BY <1>1 DEF Quantities
<1>4. received' \in [Line -> Quantities]
  BY <1>1, <1>2, <1>3 DEF Quantities
<1>5. ASSUME NEW l \in Posted(s)
      PROVE  /\ received'[l].good = received[l].good + work[s].took[l].good
             /\ received'[l].bad = received[l].bad + work[s].took[l].bad
             /\ Units(work[s].took[l]) > 0
             /\ Units(received'[l]) <= Ordered[l]
  <2>1. l \in Line /\ Line \subseteq Nat
    BY PurchasingAssumption DEF Posted
  <2>2. /\ received'[l].good = received[l].good + work[s].took[l].good
        /\ received'[l].bad = received[l].bad + work[s].took[l].bad
    BY <1>2, <2>1
  <2>3. /\ Outstanding(l, received) > 0 /\ Units(work[s].took[l]) > 0
        /\ \A k \in Line : k <= l => ~Refused(s, k)
    BY <1>1 DEF Posted
  <2>4. l \in Nat /\ l <= l
    BY <2>1
  <2>5. ~Refused(s, l)
    BY <2>1, <2>3, <2>4
  <2>6. Units(work[s].took[l]) <= Outstanding(l, received)
    <3>1. Units(work[s].took[l]) \in Nat /\ Outstanding(l, received) \in Nat
      BY <1>1, <2>1, QuantitiesNatural
    <3> QED
      BY <1>1, <2>3, <2>5, <3>1 DEF Refused
  <2>7. Units(received'[l]) = Units(received[l]) + Units(work[s].took[l])
    BY <1>3, <2>1, <2>2 DEF Units
  <2>8. Outstanding(l, received) = Ordered[l] - Units(received[l])
    BY <1>1, <2>1, <2>3, QuantitiesNatural
  <2>9. Units(received[l]) \in Nat /\ Units(work[s].took[l]) \in Nat /\ Ordered[l] \in Nat
    BY <1>1, <2>1, QuantitiesNatural
  <2> QED
    BY <2>2, <2>3, <2>6, <2>7, <2>8, <2>9
<1>6. \A l \in Line : l \notin Posted(s) => received'[l] = received[l]
  BY <1>2
<1> QED
  BY <1>1, <1>4, <1>5, <1>6

\* Of each product a receipt shelves some number of units.
LEMMA ShelvedWhole ==
  ASSUME Typed, NEW s \in Session, NEW p \in Product
  PROVE  Shelved(s, p) \in Int
<1>1. /\ stock[p] \in Int /\ work[s].shelf[p] \in Int
      /\ work[s].took \in [Line -> Quantities]
  BY DEF Typed, Request
<1>2. CASE PostedOf(s, p) = {}
  BY <1>1, <1>2 DEF Shelved
<1>3. CASE PostedOf(s, p) # {}
  <2>1. Max(PostedOf(s, p)) \in Line
    BY <1>3, PostedLines
  <2>2. work[s].took[Max(PostedOf(s, p))].good \in Nat
    BY <1>1, <2>1, QuantitiesNatural
  <2> QED
    BY <1>1, <1>3, <2>2 DEF Shelved
<1> QED
  BY <1>2, <1>3

-----------------------------------------------------------------------------
(* Types.                                                                  *)

\* A request that only moves on.
LEMMA MovedTyped ==
  ASSUME Typed, NEW s, NEW q \in Request, work' = [work EXCEPT ![s] = q]
  PROVE  work' \in [Session -> Request]
BY DEF Typed

LEMMA ViewTyped ==
  ASSUME OrderInv, NEW s \in Session,
         \/ \E task \in DOMAIN Outcome : Read(s, task)
         \/ SaveOrder(s)
         \/ \E took \in Deliveries : ReadReceipt(s, took)
         \/ LockOrder(s) \/ ClearNote(s) \/ ListLines(s) \/ WriteNote(s) \/ Die(s)
  PROVE  Typed'
<1> USE DEF OrderInv
<1>1. Idle \in Request /\ work[s] \in Request
  BY IdleRequest DEF Typed
<1>2. CASE \E task \in DOMAIN Outcome : Read(s, task)
  <2>1. PICK task \in DOMAIN Outcome : Read(s, task)
    BY <1>2
  <2> DEFINE q == [Idle EXCEPT !.at = "save", !.copy = status, !.next = Outcome[task]]
  <2>2. Outcome[task] \in OrderStatus /\ status \in OrderStatus
    BY <2>1 DEF Outcome, OrderStatus, Typed
  <2>3. q \in Request
    BY <1>1, <2>2 DEF Request, Station
  <2> QED
    BY <2>1, <2>3, MovedTyped DEF Read, Typed, goods, papers
<1>3. CASE SaveOrder(s)
  <2>1. work[s].next \in OrderStatus
    BY <1>3 DEF SaveOrder, At, SavesOutcome, OrderStatus
  <2>2. status' \in OrderStatus
    BY <1>3, <2>1 DEF SaveOrder
  <2>3. overwritten' \in Seq(SUBSET ({"order"} \cup Product \cup Note))
    <3>1. PICK old \in SUBSET ({"order"} \cup Product \cup Note) : Saved(old)
      BY <1>3 DEF SaveOrder
    <3> QED
      BY <3>1, SavedRecords DEF Typed
  <2>4. work' \in [Session -> Request]
    BY <1>1, <1>3, MovedTyped DEF SaveOrder, Finish
  <2> QED
    BY <1>3, <2>2, <2>3, <2>4 DEF SaveOrder, Typed, goods, papers
<1>4. CASE \E took \in Deliveries : ReadReceipt(s, took)
  <2>1. PICK took \in Deliveries : ReadReceipt(s, took)
    BY <1>4
  <2> DEFINE q == [Idle EXCEPT !.at = "receive", !.took = took]
  <2>2. took \in [Line -> Quantities]
    BY <2>1, PurchasingAssumption DEF Quantities
  <2>3. q \in Request
    BY <1>1, <2>2 DEF Request, Station
  <2> QED
    BY <2>1, <2>3, MovedTyped DEF ReadReceipt, Typed, goods, papers
<1>5. CASE LockOrder(s)
  <2> DEFINE q == [work[s] EXCEPT !.at = "posting", !.seen = received, !.shelf = stock]
  <2>1. q \in Request
    BY <1>1 DEF Request, Station, Typed
  <2>2. work' = [work EXCEPT ![s] = Idle] \/ work' = [work EXCEPT ![s] = q]
    BY <1>5 DEF LockOrder, Finish
  <2>3. work' \in [Session -> Request]
    BY <1>1, <2>1, <2>2, MovedTyped
  <2> QED
    BY <1>5, <2>3 DEF LockOrder, Typed, goods, papers
<1>6. CASE ClearNote(s)
  <2> DEFINE q == [work[s] EXCEPT !.at = "list"]
  <2>1. q \in Request
    BY <1>1 DEF Request, Station
  <2>2. work' \in [Session -> Request]
    BY <1>6, <2>1, MovedTyped DEF ClearNote, Go
  <2>3. noteRows' \in Seq(BOOLEAN) /\ torn' \in BOOLEAN
    BY <1>6 DEF ClearNote
  <2> QED
    BY <1>6, <2>2, <2>3 DEF ClearNote, Typed, goods
<1>7. CASE ListLines(s)
  <2> DEFINE q == [work[s] EXCEPT !.at = "write", !.seen = received]
  <2>1. q \in Request
    BY <1>1 DEF Request, Station, Typed
  <2> QED
    BY <1>7, <2>1, MovedTyped DEF ListLines, Typed, goods, papers
<1>8. CASE WriteNote(s)
  <2>1. PICK current \in BOOLEAN : current = (work[s].seen = received)
    OBVIOUS
  <2>2. noteRows' = Append(noteRows, current)
    BY <1>8, <2>1 DEF WriteNote
  <2>3. noteRows' \in Seq(BOOLEAN)
    BY <2>2 DEF Typed
  <2>4. work' \in [Session -> Request]
    BY <1>1, <1>8, MovedTyped DEF WriteNote, Finish
  <2> QED
    BY <1>8, <2>3, <2>4 DEF WriteNote, Typed, goods
<1>9. CASE Die(s)
  <2>1. work' \in [Session -> Request]
    BY <1>1, <1>9, MovedTyped DEF Die, Finish
  <2>2. torn' \in BOOLEAN
    BY <1>9 DEF Die
  <2> QED
    BY <1>9, <2>1, <2>2 DEF Die, Typed, goods
<1> QED
  BY <1>2, <1>3, <1>4, <1>5, <1>6, <1>7, <1>8, <1>9

LEMMA PostTyped ==
  ASSUME OrderInv, NEW s \in Session, PostReceipt(s)
  PROVE  Typed'
<1> USE DEF OrderInv
<1> DEFINE T == {"order"} \cup Product \cup Note
<1>1. Idle \in Request /\ work[s] \in Request
  BY IdleRequest DEF Typed
<1>2. status' \in OrderStatus
  BY DEF PostReceipt, OrderStatus, Typed
<1>3. received' \in [Line -> Quantities]
  BY LinesPosted
<1>4. stock' \in [Product -> Int]
  <2>1. \A p \in Product : Shelved(s, p) \in Int
    BY ShelvedWhole
  <2> QED
    BY <2>1 DEF PostReceipt
<1>5. noteRows' \in Seq(BOOLEAN)
  <2>1. noteRows \in Seq(BOOLEAN)
    BY DEF Typed
  <2>2. PICK n \in Nat : DOMAIN noteRows = 1..n
    BY <2>1
  <2>3. [i \in 1..n |-> FALSE] \in Seq(BOOLEAN)
    OBVIOUS
  <2> QED
    BY <2>1, <2>2, <2>3 DEF PostReceipt
<1>6. overwritten' \in Seq(SUBSET T)
  <2>1. PICK old \in SUBSET T : Saved(old)
    BY DEF PostReceipt
  <2> QED
    BY <2>1, SavedRecords DEF Typed
<1>7. work' \in [Session -> Request]
  <2> DEFINE q == [Idle EXCEPT !.at = "clear"]
  <2>1. q \in Request
    BY <1>1 DEF Request, Station
  <2>2. work' = [work EXCEPT ![s] = Idle] \/ work' = [work EXCEPT ![s] = q]
    BY DEF PostReceipt
  <2> QED
    BY <1>1, <2>1, <2>2, MovedTyped
<1>8. torn' \in BOOLEAN /\ returns' = returns /\ sold' = sold
  BY DEF PostReceipt
<1> QED
  BY <1>2, <1>3, <1>4, <1>5, <1>6, <1>7, <1>8 DEF Typed

LEMMA ReturnTyped ==
  ASSUME OrderInv,
         \/ \E n \in Note : OfReturn(n)
         \/ \E s \in Session : SaveReturn(s)
         \/ \E p \in Product : Sell(p)
  PROVE  Typed'
<1> USE DEF OrderInv
<1>1. \A n \in Note, p \in Product : returns[n].qty[p] \in Nat /\ stock[p] \in Int
  BY DEF Typed
<1>2. ASSUME NEW n \in Note, NEW reason \in {"damaged", "other"}, NEW qty \in Returned,
             NEW submit \in BOOLEAN, CreateReturn(n, reason, qty, submit)
      PROVE  Typed'
  <2>1. qty \in [Product -> Nat]
    BY PurchasingAssumption
  <2>2. stock' \in [Product -> Int]
    BY <1>1, <1>2, <2>1 DEF CreateReturn
  <2>3. returns' \in [Note -> [status : NoteStatus, qty : [Product -> Nat]]]
    BY <1>2, <2>1 DEF CreateReturn, Typed, NoteStatus
  <2> QED
    BY <1>2, <2>2, <2>3 DEF CreateReturn, Typed
<1>3. ASSUME NEW n \in Note, CancelReturn(n) PROVE Typed'
  <2>1. stock' \in [Product -> Int]
    BY <1>1, <1>3 DEF CancelReturn
  <2>2. returns' \in [Note -> [status : NoteStatus, qty : [Product -> Nat]]]
    BY <1>3 DEF CancelReturn, Typed, NoteStatus
  <2> QED
    BY <1>3, <2>1, <2>2 DEF CancelReturn, Typed
<1>4. ASSUME NEW n \in Note, NEW s \in Session, NEW next \in DOMAIN MayBecome, ReadReturn(s, n, next)
      PROVE  Typed'
  <2> DEFINE q == [Idle EXCEPT !.at = "note", !.copy = returns[n].status, !.next = next, !.item = n]
  <2>1. returns[n].status \in NoteStatus /\ next \in NoteStatus
    BY DEF Typed, MayBecome, NoteStatus
  <2>2. q \in Request
    BY <2>1, IdleRequest DEF Request, Station
  <2> QED
    BY <1>4, <2>2, MovedTyped DEF ReadReturn, Typed, goods, papers
<1>5. ASSUME NEW s \in Session, SaveReturn(s) PROVE Typed'
  <2>1. work[s].item \in Note /\ work[s].next \in NoteStatus
    BY <1>5 DEF SaveReturn, At, SavesStatus, MayBecome, NoteStatus
  <2>2. returns' \in [Note -> [status : NoteStatus, qty : [Product -> Nat]]]
    BY <1>5, <2>1 DEF SaveReturn, Typed
  <2>3. overwritten' \in Seq(SUBSET ({"order"} \cup Product \cup Note))
    <3>1. PICK old \in SUBSET ({"order"} \cup Product \cup Note) : Saved(old)
      BY <1>5, <2>1 DEF SaveReturn
    <3> QED
      BY <3>1, SavedRecords DEF Typed
  <2>4. work' \in [Session -> Request]
    BY <1>5, IdleRequest, MovedTyped DEF SaveReturn, Finish
  <2> QED
    BY <1>5, <2>2, <2>3, <2>4 DEF SaveReturn, Typed, goods
<1>6. ASSUME NEW p \in Product, Sell(p) PROVE Typed'
  BY <1>6 DEF Sell, Typed, papers
<1> QED
  BY <1>2, <1>3, <1>4, <1>5, <1>6 DEF OfReturn

LEMMA TypedStep ==
  ASSUME OrderInv, Next
  PROVE  Typed'
BY ViewTyped, PostTyped, ReturnTyped DEF Next, OfOrder, OfReceipt


-----------------------------------------------------------------------------
(* Who posts, and what the views hold.                                     *)

\* The steps of a session that keep the order's lines.
ViewStep(s) ==
  \/ \E task \in DOMAIN Outcome : Read(s, task)
  \/ SaveOrder(s)
  \/ \E took \in Deliveries : ReadReceipt(s, took)
  \/ LockOrder(s) \/ ClearNote(s) \/ ListLines(s) \/ WriteNote(s) \/ Die(s)
  \/ SaveReturn(s)
  \/ \E n \in Note, next \in DOMAIN MayBecome : ReadReturn(s, n, next)

\* The steps that no session's state goes with.
ClerkStep ==
  \/ \E n \in Note, reason \in {"damaged", "other"}, qty \in Returned, submit \in BOOLEAN :
       CreateReturn(n, reason, qty, submit)
  \/ \E n \in Note : CancelReturn(n)
  \/ \E p \in Product : Sell(p)

LEMMA NextSteps ==
  ASSUME Next
  PROVE  ClerkStep \/ \E s \in Session : ViewStep(s) \/ PostReceipt(s)
BY DEF Next, OfOrder, OfReceipt, OfReturn, ClerkStep, ViewStep

LEMMA ViewKeeps ==
  ASSUME OrderInv, NEW s \in Session, ViewStep(s)
  PROVE  /\ received' = received /\ stock' = stock /\ sold' = sold
         /\ \A t \in Session : t # s => work'[t] = work[t]
         /\ \A t \in Session : work'[t] \in Request
<1>1. Typed'
  BY ViewTyped, ReturnTyped DEF ViewStep, OfReturn
<1>2. work \in [Session -> Request] /\ work' \in [Session -> Request]
  BY SMTT(30), <1>1 DEF OrderInv, Typed
<1>3. received' = received /\ stock' = stock /\ sold' = sold
  BY ZenonT(60) DEF ViewStep, Read, SaveOrder, ReadReceipt, LockOrder, ClearNote, ListLines, WriteNote, Die,
         SaveReturn, ReadReturn, goods
<1>4. \E q : work' = [work EXCEPT ![s] = q]
  BY DEF ViewStep, Read, SaveOrder, ReadReceipt, LockOrder, ClearNote, ListLines, WriteNote, Die,
         SaveReturn, ReadReturn, Finish, Go
<1> QED
  BY <1>2, <1>3, <1>4

\* What a session holds after such a step.
LEMMA ViewHolds ==
  ASSUME OrderInv, NEW s \in Session, ViewStep(s)
  PROVE  /\ Posting(s)' => /\ work'[s].seen = received /\ status' = status
                           /\ status \notin {"received", "closed"} /\ ~OrderLocked
         /\ work'[s].at = "save" =>
              \/ work'[s].copy = "approved" /\ work'[s].next = "sent"
              \/ work'[s].copy \in {"received", "partially_received"} /\ work'[s].next = "closed"
         /\ work'[s].at = "note" =>
              /\ work'[s].item \in Note /\ work'[s].next \in DOMAIN MayBecome
              /\ work'[s].copy \in MayBecome[work'[s].next]
<1>1. work \in [Session -> Request] /\ work[s] \in Request /\ Idle \in Request
  BY IdleRequest DEF OrderInv, Typed
<1>2. CASE \E task \in DOMAIN Outcome : Read(s, task)
  BY <1>1, <1>2 DEF Read, Idle, Outcome, MayBegin, Posting
<1>3. CASE SaveOrder(s) \/ WriteNote(s) \/ Die(s) \/ SaveReturn(s)
  <2>1. work'[s] = Idle
    BY <1>1, <1>3 DEF SaveOrder, WriteNote, Die, SaveReturn, Finish
  <2> QED
    BY <2>1 DEF Idle, Posting
<1>4. CASE \E took \in Deliveries : ReadReceipt(s, took)
  BY <1>1, <1>4 DEF ReadReceipt, Idle, Posting
<1>5. CASE LockOrder(s)
  BY <1>1, <1>5 DEF LockOrder, Idle, Finish, Posting, Request
<1>6. CASE ClearNote(s) \/ ListLines(s)
  <2>1. PICK r \in Request : r = work[s]
    BY <1>1
  <2>2. CASE ClearNote(s)
    <3>1. work' = [work EXCEPT ![s] = [r EXCEPT !.at = "list"]]
      BY <2>1, <2>2 DEF ClearNote, Go
    <3>2. work'[s] = [r EXCEPT !.at = "list"]
      BY <1>1, <3>1
    <3>3. work'[s].at = "list"
      BY <3>2 DEF Request
    <3> QED
      BY <3>3 DEF Posting
  <2>3. CASE ListLines(s)
    <3>1. work' = [work EXCEPT ![s] = [r EXCEPT !.at = "write", !.seen = received]]
      BY <2>1, <2>3 DEF ListLines
    <3>2. work'[s] = [r EXCEPT !.at = "write", !.seen = received]
      BY <1>1, <3>1
    <3>3. work'[s].at = "write"
      BY <3>2 DEF Request
    <3> QED
      BY <3>3 DEF Posting
  <2> QED
    BY <1>6, <2>2, <2>3
<1>7. CASE \E n \in Note, next \in DOMAIN MayBecome : ReadReturn(s, n, next)
  BY <1>1, <1>7 DEF ReadReturn, Idle, Posting
<1> QED
  BY <1>2, <1>3, <1>4, <1>5, <1>6, <1>7 DEF ViewStep

\* A save of the order happens while no receipt holds it.
LEMMA StatusKept ==
  ASSUME OrderInv, NEW s \in Session, ViewStep(s), \E t \in Session : Posting(t)
  PROVE  status' = status
BY DEF ViewStep, Read, SaveOrder, ReadReceipt, LockOrder, ClearNote, ListLines, WriteNote, Die,
       SaveReturn, ReadReturn, OrderLocked, At, Posting

LEMMA ClerkKeeps ==
  ASSUME ClerkStep
  PROVE  /\ status' = status /\ received' = received /\ work' = work /\ overwritten' = overwritten
         /\ noteRows' = noteRows /\ torn' = torn
BY DEF ClerkStep, CreateReturn, CancelReturn, Sell, papers

LEMMA PostMoves ==
  ASSUME OrderInv, NEW s \in Session, PostReceipt(s)
  PROVE  /\ \A t \in Session : t # s => work'[t] = work[t]
         /\ work'[s].at = IF Complete(s) THEN "clear" ELSE "idle"
         /\ returns' = returns /\ sold' = sold
<1>1. work \in [Session -> Request] /\ Idle \in Request
  BY IdleRequest DEF OrderInv, Typed
<1> QED
  BY <1>1 DEF PostReceipt, Idle

LEMMA HoldersStep ==
  ASSUME OrderInv, Next
  PROVE  PostingAlone' /\ PostingCurrent' /\ SavesOutcome' /\ SavesStatus'
<1>1. CASE ClerkStep
  BY <1>1, ClerkKeeps
     DEF OrderInv, PostingAlone, PostingCurrent, SavesOutcome, SavesStatus, Posting
<1>2. ASSUME NEW s \in Session, ViewStep(s)
      PROVE  PostingAlone' /\ PostingCurrent' /\ SavesOutcome' /\ SavesStatus'
  <2>1. /\ received' = received
        /\ \A t \in Session : t # s => work'[t] = work[t]
    BY <1>2, ViewKeeps
  <2>2. PostingAlone'
    BY <1>2, <2>1, ViewHolds DEF OrderInv, PostingAlone, Posting, OrderLocked, At
  <2>3. PostingCurrent'
    <3>1. CASE Posting(s)'
      <4>1. \A t \in Session : t # s => ~Posting(t)'
        BY <2>2, <3>1 DEF PostingAlone
      <4> QED
        BY <1>2, <2>1, <3>1, <4>1, ViewHolds DEF PostingCurrent, Posting
    <3>2. CASE ~Posting(s)'
      BY <1>2, <2>1, <3>2, StatusKept DEF OrderInv, PostingCurrent, Posting
    <3> QED
      BY <3>1, <3>2
  <2>4. SavesOutcome' /\ SavesStatus'
    BY <1>2, <2>1, ViewHolds DEF OrderInv, SavesOutcome, SavesStatus
  <2> QED
    BY <2>2, <2>3, <2>4
<1>3. ASSUME NEW s \in Session, PostReceipt(s)
      PROVE  PostingAlone' /\ PostingCurrent' /\ SavesOutcome' /\ SavesStatus'
  <2>1. /\ \A t \in Session : t # s => work'[t] = work[t]
        /\ work'[s].at \in {"clear", "idle"}
    BY <1>3, PostMoves
  <2>2. \A t \in Session : ~Posting(t)'
    <3>1. Posting(s)
      BY SMTT(30), <1>3 DEF PostReceipt, At, Posting
    <3> QED
      BY <2>1, <3>1 DEF OrderInv, PostingAlone, Posting
  <2> QED
    BY <2>1, <2>2 DEF OrderInv, PostingAlone, PostingCurrent, SavesOutcome, SavesStatus
<1> QED
  BY <1>1, <1>2, <1>3, NextSteps

LEMMA NothingYetStep ==
  ASSUME OrderInv, Next
  PROVE  NothingYet'
<1>1. returns \in [Note -> [status : NoteStatus, qty : [Product -> Nat]]]
  BY DEF OrderInv, Typed
<1>2. CASE UNCHANGED returns
  BY <1>2 DEF OrderInv, NothingYet
<1>3. ASSUME NEW n \in Note, NEW reason \in {"damaged", "other"}, NEW qty \in Returned,
             NEW submit \in BOOLEAN, CreateReturn(n, reason, qty, submit)
      PROVE  NothingYet'
  BY <1>1, <1>3 DEF CreateReturn, OrderInv, NothingYet
<1>4. ASSUME NEW n \in Note, CancelReturn(n) PROVE NothingYet'
  BY <1>1, <1>4 DEF CancelReturn, OrderInv, NothingYet
<1>5. ASSUME NEW s \in Session, SaveReturn(s) PROVE NothingYet'
  <2>1. work[s].next # "none"
    BY <1>5 DEF SaveReturn, At, OrderInv, SavesStatus, MayBecome
  <2> QED
    BY <1>1, <1>5, <2>1 DEF SaveReturn, OrderInv, NothingYet
<1> QED
  BY <1>2, <1>3, <1>4, <1>5, NextSteps
     DEF ClerkStep, ViewStep, Read, SaveOrder, ReadReceipt, LockOrder, PostReceipt, ClearNote,
         ListLines, WriteNote, Die, ReadReturn, Sell, papers


-----------------------------------------------------------------------------
(* WithinOrder.                                                            *)

\* Overwritten rows stay so.
LEMMA OverwrittenGrows ==
  ASSUME OrderInv, Next
  PROVE  Overwritten \subseteq Overwritten'
<1>1. overwritten \in Seq(SUBSET ({"order"} \cup Product \cup Note))
  BY DEF OrderInv, Typed
<1>2. CASE overwritten' = overwritten
  BY <1>2 DEF Overwritten
<1>3. ASSUME NEW old \in SUBSET ({"order"} \cup Product \cup Note), Saved(old)
      PROVE  Overwritten \subseteq Overwritten'
  BY <1>1, <1>3, SavedRecords
<1>4. ASSUME NEW s \in Session, SaveReturn(s) PROVE work[s].item \in Note
  BY <1>4 DEF SaveReturn, At, OrderInv, SavesStatus
<1>5. overwritten' = overwritten \/ \E old \in SUBSET ({"order"} \cup Product \cup Note) : Saved(old)
  <2>1. ASSUME NEW s \in Session, SaveReturn(s)
        PROVE  \E old \in SUBSET ({"order"} \cup Product \cup Note) : Saved(old)
    BY <1>4, <2>1 DEF SaveReturn
  <2>2. ASSUME NEW s \in Session, SaveOrder(s) \/ PostReceipt(s)
        PROVE  \E old \in SUBSET ({"order"} \cup Product \cup Note) : Saved(old)
    BY <2>2 DEF SaveOrder, PostReceipt
  <2> QED
    BY <2>1, <2>2, NextSteps
       DEF ClerkStep, ViewStep, Read, ReadReceipt, LockOrder, ClearNote, ListLines, WriteNote, Die,
           ReadReturn, Sell, CreateReturn, CancelReturn
<1> QED
  BY <1>2, <1>3, <1>5

LEMMA WithinStep ==
  ASSUME OrderInv, Next
  PROVE  WithinOrder'
<1> DEFINE open == \E l \in Line : Outstanding(l, received) > 0
<1>1. Overwritten \subseteq Overwritten'
  BY OverwrittenGrows
<1>2. /\ \A l \in Line : Units(received[l]) <= Ordered[l]
      /\ status = "received" => ~open
      /\ status = "partially_received" => open
      /\ received # Nothing /\ ~open /\ "order" \notin Overwritten => status \in {"received", "closed"}
  BY DEF OrderInv, WithinOrder
<1>3. CASE received' = received /\ status' = status
  BY <1>1, <1>2, <1>3 DEF WithinOrder
<1>4. ASSUME NEW s \in Session, SaveOrder(s) PROVE WithinOrder'
  <2>1. received' = received /\ status' = work[s].next
    BY <1>4 DEF SaveOrder, goods
  <2>2. \/ work[s].copy = "approved" /\ work[s].next = "sent"
        \/ work[s].copy \in {"received", "partially_received"} /\ work[s].next = "closed"
    BY <1>4 DEF SaveOrder, At, OrderInv, SavesOutcome
  <2>3. "order" \notin Overwritten' => status = work[s].copy
    <3>1. ASSUME status # work[s].copy PROVE "order" \in Overwritten'
      <4>1. Saved({"order"})
        BY <1>4, <3>1 DEF SaveOrder
      <4>2. /\ overwritten \in Seq(SUBSET ({"order"} \cup Product \cup Note))
            /\ {"order"} \in SUBSET ({"order"} \cup Product \cup Note)
        BY DEF OrderInv, Typed
      <4>3. Overwritten' = Overwritten \cup {"order"}
        BY <4>1, <4>2, SavedRecords
      <4> QED
        BY <4>3
    <3> QED
      BY <3>1
  <2> QED
    BY <1>1, <1>2, <2>1, <2>2, <2>3 DEF WithinOrder
<1>5. ASSUME NEW s \in Session, PostReceipt(s) PROVE WithinOrder'
  <2> DEFINE later == \E l \in Line : Outstanding(l, received') > 0
  <2>1. /\ received' \in [Line -> Quantities] /\ received \in [Line -> Quantities]
        /\ status \notin {"received", "closed"}
        /\ \A l \in Posted(s) : Units(received'[l]) <= Ordered[l]
        /\ \A l \in Line : l \notin Posted(s) => received'[l] = received[l]
    BY <1>5, LinesPosted DEF OrderInv, Typed
  <2>2. \A l \in Line : Units(received'[l]) <= Ordered[l]
    BY <1>2, <2>1
  <2>3. CASE Complete(s)
    <3>1. status' = IF \E l \in Line : received'[l].good < Ordered[l] - received'[l].bad
                    THEN "partially_received" ELSE "received"
      <4>1. PICK new : new = received'
        OBVIOUS
      <4>2. status' = IF \E l \in Line : new[l].good < Ordered[l] - new[l].bad
                    THEN "partially_received" ELSE "received"
        BY <1>5, <2>3, <4>1 DEF PostReceipt
      <4> QED
        BY <4>1, <4>2
    <3>2. ASSUME NEW l \in Line
          PROVE  received'[l].good < Ordered[l] - received'[l].bad <=> Outstanding(l, received') > 0
      <4>1. PICK new \in [Line -> Quantities] : new = received'
        BY <2>1
      <4>2. /\ new[l].good \in Nat /\ new[l].bad \in Nat /\ Ordered[l] \in Nat
            /\ Outstanding(l, new) \in Nat /\ Units(new[l]) = new[l].good + new[l].bad
            /\ Outstanding(l, new) = 0 <=> Units(new[l]) >= Ordered[l]
        BY QuantitiesNatural
      <4>3. new[l].good < Ordered[l] - new[l].bad <=> Outstanding(l, new) > 0
        BY <4>2
      <4> QED
        BY <4>1, <4>3
    <3>3. \/ status' = "received" /\ ~later
          \/ status' = "partially_received" /\ later
      <4> HIDE DEF later
      <4>1. later <=> \E l \in Line : received'[l].good < Ordered[l] - received'[l].bad
        BY <3>2 DEF later
      <4>2. CASE later
        BY <3>1, <4>1, <4>2
      <4>3. CASE ~later
        BY <3>1, <4>1, <4>3
      <4> QED
        BY <4>2, <4>3
    <3> QED
      BY <2>2, <3>3 DEF WithinOrder
  <2>4. CASE ~Complete(s)
    <3>1. status' = status
      BY <1>5, <2>4 DEF PostReceipt
    <3>2. CASE Posted(s) = {}
      <4>1. received' = received
        BY <2>1, <3>2
      <4> QED
        BY <1>3, <3>1, <4>1
    <3>3. CASE Posted(s) # {}
      <4>1. PICK l \in Line : Refused(s, l)
        BY <2>4, <3>3 DEF Complete
      <4>2. work[s].seen = received
        BY <1>5 DEF PostReceipt, At, OrderInv, PostingCurrent, Posting
      <4>3. l \notin Posted(s)
        BY <4>1, PurchasingAssumption DEF Posted
      <4>4. Outstanding(l, received) > 0
        BY <4>1, <4>2 DEF Refused
      <4>5. Outstanding(l, received') > 0
        BY SMTT(30), <2>1, <4>3, <4>4 DEF Outstanding
      <4> QED
        BY <2>1, <2>2, <3>1, <4>5 DEF WithinOrder
    <3> QED
      BY <3>2, <3>3
  <2> QED
    BY <2>3, <2>4
<1>6. ASSUME NEW s \in Session, ViewStep(s), ~SaveOrder(s)
      PROVE  received' = received /\ status' = status
  BY <1>6 DEF ViewStep, Read, ReadReceipt, LockOrder, ClearNote, ListLines, WriteNote, Die,
              SaveReturn, ReadReturn, goods
<1> QED
  BY <1>3, <1>4, <1>5, <1>6, NextSteps, ClerkKeeps

-----------------------------------------------------------------------------
(* The received note.                                                      *)

\* Steps that leave the note, its rows and those who rebuild it alone.
LEMMA NoteApart ==
  ASSUME NoteRebuilt, ReceiptNoteCurrent, received' = received, noteRows' = noteRows, torn' = torn,
         \A t \in Session : Rebuilding(t) \/ Rebuilding(t)' => work'[t] = work[t]
  PROVE  NoteRebuilt' /\ ReceiptNoteCurrent'
<1>1. \A t \in Session : (Rebuilding(t)' <=> Rebuilding(t)) /\ (Filling(t)' <=> Filling(t))
  BY DEF Rebuilding, Filling
<1>2. \A t \in Session : /\ work'[t].at = "clear" <=> work[t].at = "clear"
                         /\ work'[t].at = "write" <=> work[t].at = "write"
                         /\ work'[t].at = "write" => work'[t] = work[t]
  BY DEF Rebuilding
<1>3. NoteRebuilt'
  BY <1>1, <1>2 DEF NoteRebuilt
<1>4. ReceiptNoteCurrent'
  BY <1>1 DEF ReceiptNoteCurrent
<1> QED
  BY <1>3, <1>4

LEMMA PostRebuilds ==
  ASSUME OrderInv, NEW s \in Session, PostReceipt(s)
  PROVE  NoteRebuilt' /\ ReceiptNoteCurrent'
<1>1. /\ \A t \in Session : t # s => work'[t] = work[t]
      /\ work'[s].at = IF Complete(s) THEN "clear" ELSE "idle"
  BY PostMoves
<1>2. work[s].at = "posting"
  BY DEF PostReceipt, At
<1>3. CASE Posted(s) = {}
  <2>1. received' = received
    <3>1. /\ received' \in [Line -> Quantities] /\ received \in [Line -> Quantities]
          /\ \A l \in Line : l \notin Posted(s) => received'[l] = received[l]
      BY LinesPosted DEF OrderInv, Typed
    <3> QED
      BY <1>3, <3>1
  <2>2. noteRows' = noteRows /\ torn' = torn
    BY <1>3 DEF PostReceipt, Complete, OrderInv, Typed
  <2>3. work'[s].at = "idle"
    BY <1>1, <1>3 DEF Complete
  <2>4. \A t \in Session : Rebuilding(t) \/ Rebuilding(t)' => work'[t] = work[t]
    BY <1>1, <1>2, <2>3 DEF Rebuilding
  <2> QED
    BY <2>1, <2>2, <2>4, NoteApart DEF OrderInv
<1>4. CASE Posted(s) # {}
  <2>1. received' # Nothing
    <3>1. PICK l \in Posted(s) : TRUE
      BY <1>4
    <3>2. l \in Line
      BY DEF Posted
    <3>3. PICK q \in Quantities, w \in Quantities : q = received[l] /\ w = work[s].took[l]
      BY <3>2, LinesPosted DEF OrderInv, Typed
    <3>4. received'[l].good = q.good + w.good /\ received'[l].bad = q.bad + w.bad /\ w.good + w.bad > 0
      BY <3>1, <3>3, LinesPosted DEF OrderInv, Units
    <3>5. q.good \in Nat /\ q.bad \in Nat /\ w.good \in Nat /\ w.bad \in Nat
      BY <3>3 DEF Quantities
    <3>6. received'[l].good # 0 \/ received'[l].bad # 0
      BY <3>4, <3>5
    <3>7. Nothing[l].good = 0 /\ Nothing[l].bad = 0
      BY <3>2 DEF Nothing
    <3> QED
      BY <3>6, <3>7
  <2>2. noteRows = <<>> => noteRows' = <<>>
    <3>1. noteRows' = [i \in DOMAIN noteRows |-> FALSE]
      BY <1>4 DEF PostReceipt
    <3>2. ASSUME noteRows = <<>> PROVE noteRows' = <<>>
      <4>1. DOMAIN noteRows = {}
        BY <3>2
      <4>2. noteRows' = [i \in {} |-> FALSE]
        BY <3>1, <4>1
      <4> QED
        BY <4>2
    <3> QED
      BY <3>2
  <2>3. \A t \in Session : Filling(t)' <=> Filling(t)
    BY <1>1, <1>2 DEF Filling
  <2>4. ~torn' => ~torn /\ work'[s].at = "clear"
    BY <1>1, <1>4 DEF PostReceipt
  <2>5. NoteRebuilt'
    BY <1>1, <2>1, <2>2, <2>3, <2>4 DEF OrderInv, NoteRebuilt
  <2>6. ReceiptNoteCurrent'
    BY <2>4 DEF ReceiptNoteCurrent, Rebuilding
  <2> QED
    BY <2>5, <2>6
<1> QED
  BY <1>3, <1>4

LEMMA RebuildSteps ==
  ASSUME OrderInv, NEW s \in Session, ViewStep(s)
  PROVE  NoteRebuilt' /\ ReceiptNoteCurrent'
<1>1. /\ received' = received
      /\ \A t \in Session : t # s => work'[t] = work[t]
      /\ work \in [Session -> Request] /\ work[s] \in Request /\ Idle \in Request
  BY ViewKeeps, IdleRequest DEF OrderInv, Typed
<1>2. CASE ClearNote(s)
  <2>1. /\ noteRows' = <<>> /\ work[s].at = "clear" /\ work'[s].at = "list"
        /\ torn' = \E o \in Session \ {s} : work[o].at \in {"list", "write"}
    BY <1>1, <1>2 DEF ClearNote, At, Go, Request
  <2>2. ~torn' => \A t \in Session : Filling(t)' => t = s
    BY <1>1, <2>1 DEF Filling
  <2>3. NoteRebuilt'
    <3>1. \A t \in Session : Rebuilding(t)' => Rebuilding(t)
      BY <1>1, <2>1 DEF Rebuilding
    <3>2. \A t \in Session : work'[t].at = "write" => Filling(t)' /\ t # s
      BY <2>1 DEF Filling
    <3> QED
      BY <1>1, <2>1, <2>2, <3>1, <3>2 DEF OrderInv, NoteRebuilt
  <2>4. ReceiptNoteCurrent'
    BY <2>1 DEF ReceiptNoteCurrent, Rebuilding
  <2> QED
    BY <2>3, <2>4
<1>3. CASE ListLines(s)
  <2>1. /\ noteRows' = noteRows /\ torn' = torn
        /\ work[s].at = "list" /\ work'[s].at = "write" /\ work'[s].seen = received
    BY <1>1, <1>3 DEF ListLines, At, Request, papers
  <2>2. NoteRebuilt'
    <3>1. \A t \in Session : (Rebuilding(t)' <=> Rebuilding(t)) /\ (Filling(t)' <=> Filling(t))
      BY <1>1, <2>1 DEF Rebuilding, Filling
    <3>2. \A t \in Session : work[t].at = "clear" => work'[t].at = "clear"
      BY <1>1, <2>1
    <3> QED
      BY <1>1, <2>1, <3>1, <3>2 DEF OrderInv, NoteRebuilt
  <2>3. ReceiptNoteCurrent'
    BY <2>1 DEF ReceiptNoteCurrent, Rebuilding
  <2> QED
    BY <2>2, <2>3
<1>4. CASE WriteNote(s)
  <2>1. PICK current \in BOOLEAN : current = (work[s].seen = received)
    OBVIOUS
  <2>2. /\ noteRows' = Append(noteRows, current) /\ torn' = torn
        /\ work[s].at = "write" /\ work'[s].at = "idle"
    BY <1>1, <1>4, <2>1 DEF WriteNote, At, Finish, Idle
  <2>3. \A t \in Session : /\ Rebuilding(t)' => Rebuilding(t) /\ t # s
                           /\ Filling(t)' => Filling(t) /\ t # s
                           /\ work[t].at = "clear" => work'[t].at = "clear"
    BY <1>1, <2>2 DEF Rebuilding, Filling
  <2>4. Filling(s) /\ Rebuilding(s)
    BY <2>2 DEF Filling, Rebuilding
  <2>5. ~torn => \A t \in Session : ~Filling(t)'
    BY <2>3, <2>4 DEF OrderInv, NoteRebuilt
  <2>6. NoteRebuilt'
    <3>1. \A t \in Session : work'[t].at = "write" => Filling(t)'
      BY DEF Filling
    <3> QED
      BY <1>1, <2>2, <2>3, <2>5, <3>1 DEF OrderInv, NoteRebuilt
  <2>7. ASSUME ~torn, \A t \in Session : ~Rebuilding(t)' PROVE noteRows' = <<TRUE>>
    <3>1. \A t \in Session : work[t].at # "clear"
      BY <2>3, <2>7 DEF Rebuilding
    <3>2. current = TRUE
      BY <2>1, <2>2, <2>7, <3>1 DEF OrderInv, NoteRebuilt
    <3>3. noteRows = <<>>
      BY <2>4, <2>7 DEF OrderInv, NoteRebuilt
    <3>4. noteRows' = Append(<<>>, TRUE)
      BY <2>2, <3>2, <3>3
    <3> QED
      BY <3>4
  <2>8. received # Nothing
    BY <2>4 DEF OrderInv, NoteRebuilt
  <2>9. ReceiptNoteCurrent'
    BY <1>1, <2>2, <2>7, <2>8 DEF ReceiptNoteCurrent
  <2> QED
    BY <2>6, <2>9
<1>5. CASE Die(s)
  <2>1. /\ noteRows' = noteRows /\ torn' = (torn \/ Rebuilding(s)) /\ work'[s].at = "idle"
    BY <1>1, <1>5 DEF Die, Finish, Idle
  <2>2. CASE Rebuilding(s)
    <3>1. torn'
      BY <2>1, <2>2
    <3>2. \A t \in Session : Rebuilding(t)' => Rebuilding(t)
      BY <1>1, <2>1 DEF Rebuilding
    <3> QED
      BY <1>1, <3>1, <3>2 DEF OrderInv, NoteRebuilt, ReceiptNoteCurrent
  <2>3. CASE ~Rebuilding(s)
    <3>1. torn' = torn
      BY <2>1, <2>3 DEF OrderInv, Typed
    <3>2. \A t \in Session : Rebuilding(t) \/ Rebuilding(t)' => work'[t] = work[t]
      BY <1>1, <2>1, <2>3 DEF Rebuilding
    <3> QED
      BY <1>1, <2>1, <3>1, <3>2, NoteApart DEF OrderInv
  <2> QED
    BY <2>2, <2>3
<1>6. CASE \/ \E task \in DOMAIN Outcome : Read(s, task)
           \/ SaveOrder(s)
           \/ \E took \in Deliveries : ReadReceipt(s, took)
           \/ LockOrder(s) \/ SaveReturn(s)
           \/ \E n \in Note, next \in DOMAIN MayBecome : ReadReturn(s, n, next)
  <2>1. noteRows' = noteRows /\ torn' = torn
    BY ZenonT(60), <1>6 DEF Read, SaveOrder, ReadReceipt, LockOrder, SaveReturn, ReadReturn, papers
  <2>2. ~Rebuilding(s)
    BY <1>6 DEF Read, SaveOrder, ReadReceipt, LockOrder, SaveReturn, ReadReturn, At, Rebuilding
  <2>3. work'[s].at \in {"idle", "save", "receive", "posting", "note"}
    <3>1. CASE \E task \in DOMAIN Outcome : Read(s, task)
      BY <1>1, <3>1 DEF Read, Idle
    <3>2. CASE \E took \in Deliveries : ReadReceipt(s, took)
      BY <1>1, <3>2 DEF ReadReceipt, Idle
    <3>3. CASE \E n \in Note, next \in DOMAIN MayBecome : ReadReturn(s, n, next)
      BY <1>1, <3>3 DEF ReadReturn, Idle
    <3>4. CASE SaveOrder(s) \/ SaveReturn(s)
      BY <1>1, <3>4 DEF SaveOrder, SaveReturn, Finish, Idle
    <3>5. CASE LockOrder(s)
      BY <1>1, <3>5 DEF LockOrder, Finish, Idle, Request
    <3> QED
      BY <1>6, <3>1, <3>2, <3>3, <3>4, <3>5
  <2>4. \A t \in Session : Rebuilding(t) \/ Rebuilding(t)' => work'[t] = work[t]
    BY <1>1, <2>2, <2>3 DEF Rebuilding
  <2> QED
    BY SMTT(30), <1>1, <2>1, <2>4, NoteApart DEF OrderInv
<1> QED
  BY <1>2, <1>3, <1>4, <1>5, <1>6 DEF ViewStep

LEMMA NotesStep ==
  ASSUME OrderInv, Next
  PROVE  NoteRebuilt' /\ ReceiptNoteCurrent'
<1>1. CASE ClerkStep
  BY <1>1, ClerkKeeps, NoteApart DEF OrderInv
<1> QED
  BY <1>1, PostRebuilds, RebuildSteps, NextSteps

-----------------------------------------------------------------------------
(* Sums over the lines of a product and over the notes of the order.       *)

Notes == [Note -> [status : NoteStatus, qty : [Product -> Nat]]]
LinesOf(p) == {l \in Line : ProductOf[l] = p}
GoodIn(r, p) == SumOf({l \in Line : ProductOf[l] = p}, LAMBDA l : r[l].good)
BadIn(r, p) == SumOf({l \in Line : ProductOf[l] = p}, LAMBDA l : r[l].bad)
ReturnedIn(r, p) ==
  SumOf({n \in Note : r[n].status \notin {"none", "cancelled"}}, LAMBDA n : r[n].qty[p])
Part(note, p) == IF note.status \notin {"none", "cancelled"} THEN note.qty[p] ELSE 0

LEMMA SumsTaken ==
  ASSUME NEW p \in Product
  PROVE  /\ Delivered(p) = GoodIn(received, p) /\ Delivered(p)' = GoodIn(received', p)
         /\ Damaged(p) = BadIn(received, p) /\ Damaged(p)' = BadIn(received', p)
         /\ AlreadyReturned(p) = ReturnedIn(returns, p)
         /\ AlreadyReturned(p)' = ReturnedIn(returns', p)
<1>1. Delivered(p) = GoodIn(received, p) /\ Delivered(p)' = GoodIn(received', p)
  BY DEF Delivered, GoodIn, SumOf
<1>2. Damaged(p) = BadIn(received, p) /\ Damaged(p)' = BadIn(received', p)
  BY DEF Damaged, BadIn, SumOf
<1>3. AlreadyReturned(p) = ReturnedIn(returns, p)
  BY DEF AlreadyReturned, ReturnedIn, SumOf, Active
<1>4. AlreadyReturned(p)' = ReturnedIn(returns', p)
  BY DEF AlreadyReturned, ReturnedIn, SumOf, Active
<1> QED
  BY <1>1, <1>2, <1>3, <1>4

\* What lines got is a natural, and no less when the lines got no less.
LEMMA GoodMore ==
  ASSUME NEW r \in [Line -> Quantities], NEW p \in Product, NEW q \in [Line -> Quantities],
         \A l \in Line : r[l].good <= q[l].good /\ r[l].bad <= q[l].bad
  PROVE  /\ GoodIn(r, p) \in Nat /\ GoodIn(q, p) \in Nat /\ GoodIn(r, p) <= GoodIn(q, p)
         /\ BadIn(r, p) \in Nat /\ BadIn(q, p) \in Nat /\ BadIn(r, p) <= BadIn(q, p)
<1>1. PICK S : S = {l \in Line : ProductOf[l] = p}
  OBVIOUS
<1>2. IsFiniteSet(S) /\ S \subseteq Line
  BY <1>1, PurchasingAssumption, FS_Subset
<1>3. \A l \in S : /\ r[l].good \in Nat /\ r[l].bad \in Nat /\ q[l].good \in Nat /\ q[l].bad \in Nat
                   /\ r[l].good <= q[l].good /\ r[l].bad <= q[l].bad
  BY <1>2 DEF Quantities
<1>4. PICK f, g : f = [l \in S |-> r[l].good] /\ g = [l \in S |-> q[l].good]
  OBVIOUS
<1>5. /\ SumFunctionOnSet(f, S) \in Nat /\ SumFunctionOnSet(g, S) \in Nat
      /\ SumFunctionOnSet(f, S) <= SumFunctionOnSet(g, S)
  <2>1. \A l \in S : f[l] \in Nat /\ g[l] \in Nat /\ f[l] <= g[l]
    BY <1>3, <1>4
  <2>2. \A l \in S : f[l] \in Int /\ g[l] \in Int /\ f[l] <= g[l]
    BY <2>1
  <2> QED
    BY <1>2, <2>1, <2>2, SumNatural, SumAtMost
<1>6. GoodIn(r, p) = SumFunctionOnSet(f, S) /\ GoodIn(q, p) = SumFunctionOnSet(g, S)
  BY <1>1, <1>4 DEF GoodIn, SumOf
<1>7. PICK b, c : b = [l \in S |-> r[l].bad] /\ c = [l \in S |-> q[l].bad]
  OBVIOUS
<1>8. /\ SumFunctionOnSet(b, S) \in Nat /\ SumFunctionOnSet(c, S) \in Nat
      /\ SumFunctionOnSet(b, S) <= SumFunctionOnSet(c, S)
  <2>1. \A l \in S : b[l] \in Nat /\ c[l] \in Nat /\ b[l] <= c[l]
    BY <1>3, <1>7
  <2>2. \A l \in S : b[l] \in Int /\ c[l] \in Int /\ b[l] <= c[l]
    BY <2>1
  <2> QED
    BY <1>2, <2>1, <2>2, SumNatural, SumAtMost
<1>9. BadIn(r, p) = SumFunctionOnSet(b, S) /\ BadIn(q, p) = SumFunctionOnSet(c, S)
  BY <1>1, <1>7 DEF BadIn, SumOf
<1> QED
  BY <1>5, <1>6, <1>8, <1>9

\* One line of a product gets more, or none does.
LEMMA GoodOnOne ==
  ASSUME NEW r \in [Line -> Quantities], NEW p \in Product, NEW q \in [Line -> Quantities],
         NEW x \in LinesOf(p), \A l \in LinesOf(p) : l # x => q[l] = r[l]
  PROVE  GoodIn(q, p) = GoodIn(r, p) - r[x].good + q[x].good
<1>1. PICK S : S = {l \in Line : ProductOf[l] = p}
  OBVIOUS
<1>2. IsFiniteSet(S) /\ S \subseteq Line /\ x \in S /\ \A l \in S : l # x => q[l] = r[l]
  BY <1>1, PurchasingAssumption, FS_Subset DEF LinesOf
<1>3. PICK f, g : f = [l \in S |-> r[l].good] /\ g = [l \in S |-> q[l].good]
  OBVIOUS
<1>4. \A l \in S : f[l] \in Int /\ g[l] \in Int /\ (l # x => g[l] = f[l])
  BY <1>2, <1>3 DEF Quantities
<1>5. SumFunctionOnSet(g, S) = SumFunctionOnSet(f, S) - f[x] + g[x]
  BY <1>2, <1>4, SumChange
<1>6. GoodIn(r, p) = SumFunctionOnSet(f, S) /\ GoodIn(q, p) = SumFunctionOnSet(g, S)
  BY <1>1, <1>3 DEF GoodIn, SumOf
<1> QED
  BY <1>2, <1>3, <1>5, <1>6

LEMMA GoodSame ==
  ASSUME NEW r \in [Line -> Quantities], NEW p \in Product, NEW q \in [Line -> Quantities],
         \A l \in LinesOf(p) : q[l] = r[l]
  PROVE  GoodIn(q, p) = GoodIn(r, p)
<1>1. PICK S : S = {l \in Line : ProductOf[l] = p}
  OBVIOUS
<1>2. IsFiniteSet(S) /\ S \subseteq Line /\ \A l \in S : q[l] = r[l]
  BY <1>1, PurchasingAssumption, FS_Subset DEF LinesOf
<1>3. [l \in S |-> r[l].good] = [l \in S |-> q[l].good]
  BY <1>2
<1> QED
  BY <1>1, <1>3 DEF GoodIn, SumOf

\* Of the notes that are not cancelled, one changes.
LEMMA ReturnedOnOne ==
  ASSUME NEW r \in Notes, NEW p \in Product, NEW q \in Notes,
         NEW n \in Note, \A m \in Note : m # n => q[m] = r[m]
  PROVE  /\ ReturnedIn(r, p) \in Nat /\ ReturnedIn(q, p) \in Nat
         /\ ReturnedIn(q, p) = ReturnedIn(r, p) - Part(r[n], p) + Part(q[n], p)
<1>1. IsFiniteSet(Note)
  BY PurchasingAssumption
<1>2. PICK f, g : f = [m \in Note |-> Part(r[m], p)] /\ g = [m \in Note |-> Part(q[m], p)]
  OBVIOUS
<1>3. \A m \in Note : f[m] \in Nat /\ g[m] \in Nat /\ (m # n => g[m] = f[m])
  BY <1>2 DEF Part, Notes
<1>4. \A m \in Note : f[m] \in Int /\ g[m] \in Int
  BY <1>3
<1>5. SumFunctionOnSet(g, Note) = SumFunctionOnSet(f, Note) - f[n] + g[n]
  BY <1>1, <1>3, <1>4, SumChange
<1>6. SumFunctionOnSet(f, Note) \in Nat /\ SumFunctionOnSet(g, Note) \in Nat
  BY <1>1, <1>3, SumNatural
<1>7. ReturnedIn(r, p) = SumFunctionOnSet(f, Note)
  <2>1. PICK A : A = {m \in Note : r[m].status \notin {"none", "cancelled"}}
    OBVIOUS
  <2>2. PICK h : h = [m \in A |-> r[m].qty[p]]
    OBVIOUS
  <2>3. ReturnedIn(r, p) = SumFunctionOnSet(h, A)
    BY <2>1, <2>2 DEF ReturnedIn, SumOf
  <2>4. A \in SUBSET Note
    BY <2>1
  <2>5. \A m \in A : h[m] \in Int /\ f[m] = h[m]
    BY <1>2, <1>4, <2>1, <2>2 DEF Part
  <2>6. \A m \in Note : m \notin A => f[m] = 0
    BY <1>2, <2>1 DEF Part
  <2> QED
    BY <1>1, <2>3, <2>4, <2>5, <2>6, SumPart
<1>8. ReturnedIn(q, p) = SumFunctionOnSet(g, Note)
  <2>1. PICK A : A = {m \in Note : q[m].status \notin {"none", "cancelled"}}
    OBVIOUS
  <2>2. PICK h : h = [m \in A |-> q[m].qty[p]]
    OBVIOUS
  <2>3. ReturnedIn(q, p) = SumFunctionOnSet(h, A)
    BY <2>1, <2>2 DEF ReturnedIn, SumOf
  <2>4. A \in SUBSET Note
    BY <2>1
  <2>5. \A m \in A : h[m] \in Int /\ g[m] = h[m]
    BY <1>2, <1>4, <2>1, <2>2 DEF Part
  <2>6. \A m \in Note : m \notin A => g[m] = 0
    BY <1>2, <2>1 DEF Part
  <2> QED
    BY <1>1, <2>3, <2>4, <2>5, <2>6, SumPart
<1> QED
  BY <1>2, <1>5, <1>6, <1>7, <1>8

-----------------------------------------------------------------------------
(* StockAccounted and ReturnsWithinReceipt.                                *)

\* No old copy of a note that returns the product was saved, nor one of the
\* product itself.
NotesKept(p) == \A n \in Note \cap Overwritten : returns[n].qty[p] = 0
Kept(p) == p \notin Overwritten /\ NotesKept(p)
Account(p) == Opening[p] + Delivered(p) - sold[p] - AlreadyReturned(p)

\* What a step on one note does to what the notes return.
LEMMA NoteChanged ==
  ASSUME OrderInv, Next, NEW n \in Note, \A m \in Note : m # n => returns'[m] = returns[m],
         NEW p \in Product
  PROVE  /\ AlreadyReturned(p) \in Nat /\ AlreadyReturned(p)' \in Nat
         /\ AlreadyReturned(p)' = AlreadyReturned(p) - Part(returns[n], p) + Part(returns'[n], p)
<1>1. returns \in Notes /\ returns' \in Notes
  BY TypedStep DEF OrderInv, Typed, Notes
<1> QED
  BY <1>1, ReturnedOnOne, SumsTaken

LEMMA TotalsNatural ==
  ASSUME OrderInv, NEW p \in Product
  PROVE  /\ Delivered(p) \in Nat /\ Damaged(p) \in Nat
         /\ AlreadyReturned(p) \in Nat
         /\ Opening[p] \in Nat /\ sold[p] \in Nat /\ stock[p] \in Int
<1>1. PICK r \in [Line -> Quantities] : r = received
  BY DEF OrderInv, Typed
<1>2. \A l \in Line : r[l].good \in Nat /\ r[l].bad \in Nat
  BY DEF Quantities
<1>3. GoodIn(r, p) \in Nat /\ BadIn(r, p) \in Nat
  BY <1>2, GoodMore
<1>4. AlreadyReturned(p) \in Nat
  <2>1. returns \in Notes
    BY DEF OrderInv, Typed, Notes
  <2>2. CASE Note = {}
    <3>1. AlreadyReturned(p) = SumFunctionOnSet([x \in {} |-> returns[x].qty[p]], {})
      <4>1. {n \in Note : Active(n)} = {}
        BY <2>2
      <4> QED
        BY <4>1 DEF AlreadyReturned, SumOf
    <3> QED
      BY <3>1, SumEmpty
  <2>3. CASE Note # {}
    BY <2>1, <2>3, ReturnedOnOne, SumsTaken
  <2> QED
    BY <2>2, <2>3
<1> QED
  BY <1>1, <1>3, <1>4, SumsTaken, PurchasingAssumption DEF OrderInv, Typed

\* A receipt adds to the stock what it adds to the lines, unless what it saved
\* was an old copy or one of several.
LEMMA PostAccounts ==
  ASSUME OrderInv, NEW s \in Session, PostReceipt(s), NEW p \in Product, p \notin Overwritten'
  PROVE  stock'[p] - stock[p] = Delivered(p)' - Delivered(p)
<1>1. /\ received \in [Line -> Quantities] /\ received' \in [Line -> Quantities]
      /\ work[s].took \in [Line -> Quantities] /\ work[s].shelf \in [Product -> Int]
      /\ stock \in [Product -> Int]
      /\ \A l \in Posted(s) : received'[l].good = received[l].good + work[s].took[l].good
      /\ \A l \in Line : l \notin Posted(s) => received'[l] = received[l]
  BY LinesPosted DEF OrderInv, Typed, Request
<1>2. PICK r \in [Line -> Quantities], q \in [Line -> Quantities] : r = received /\ q = received'
  BY <1>1
<1>3. Delivered(p) = GoodIn(r, p) /\ Delivered(p)' = GoodIn(q, p)
  BY <1>2, SumsTaken
<1>4. stock'[p] = Shelved(s, p)
  BY DEF PostReceipt
<1>5. PostedOf(s, p) = {l \in Posted(s) : ProductOf[l] = p} /\ Posted(s) \subseteq Line
  BY DEF PostedOf, Posted
<1>6. CASE PostedOf(s, p) = {}
  <2>1. \A l \in LinesOf(p) : q[l] = r[l]
    BY <1>1, <1>2, <1>5, <1>6 DEF LinesOf
  <2>2. GoodIn(q, p) = GoodIn(r, p)
    BY <2>1, GoodSame
  <2>3. stock'[p] = stock[p]
    BY <1>4, <1>6 DEF Shelved
  <2>4. GoodIn(r, p) \in Nat
    BY <1>2, <1>3, TotalsNatural
  <2> QED
    BY <1>1, <1>3, <2>2, <2>3, <2>4
<1>7. CASE PostedOf(s, p) # {}
  <2>1. PICK lost : lost = {o \in Product :
                /\ PostedOf(s, o) # {}
                /\ work[s].shelf[o] # stock[o] \/ Cardinality(PostedOf(s, o)) > 1}
    OBVIOUS
  <2>2. p \notin lost
    <3>1. Saved(lost)
      BY <2>1 DEF PostReceipt
    <3>2. /\ overwritten \in Seq(SUBSET ({"order"} \cup Product \cup Note))
          /\ lost \in SUBSET ({"order"} \cup Product \cup Note)
      BY <2>1 DEF OrderInv, Typed
    <3>3. Overwritten' = Overwritten \cup lost
      BY <3>1, <3>2, SavedRecords
    <3> QED
      BY <3>3
  <2>3. work[s].shelf[p] = stock[p] /\ ~(Cardinality(PostedOf(s, p)) > 1)
    BY <1>7, <2>1, <2>2
  <2>4. PICK x \in PostedOf(s, p) : x = Max(PostedOf(s, p))
    BY <1>7, PostedLines DEF OrderInv
  <2>5. PostedOf(s, p) = {x}
    <3>1. ASSUME NEW y \in PostedOf(s, p), y # x PROVE FALSE
      <4>1. IsFiniteSet(PostedOf(s, p)) /\ {x, y} \subseteq PostedOf(s, p)
        BY PostedLines DEF OrderInv
      <4>2. Cardinality({x, y}) = 2
        BY <3>1, TwoMembers
      <4>3. Cardinality(PostedOf(s, p)) \in Nat /\ Cardinality({x, y}) <= Cardinality(PostedOf(s, p))
        BY <4>1, FS_Subset, FS_CardinalityType
      <4> QED
        BY <2>3, <4>2, <4>3
    <3> QED
      BY <3>1
  <2>6. x \in LinesOf(p) /\ \A l \in LinesOf(p) : l # x => q[l] = r[l]
    BY <1>1, <1>2, <1>5, <2>5 DEF LinesOf
  <2>7. GoodIn(q, p) = GoodIn(r, p) - r[x].good + q[x].good
    BY <2>6, GoodOnOne
  <2>8. q[x].good = r[x].good + work[s].took[x].good
    BY <1>1, <1>2, <1>5, <2>4
  <2>9. stock'[p] = stock[p] + work[s].took[x].good
    BY <1>4, <1>7, <2>3, <2>4 DEF Shelved
  <2>10. r[x].good \in Nat /\ work[s].took[x].good \in Nat /\ GoodIn(r, p) \in Nat
    BY <1>1, <1>2, <1>3, <2>6, TotalsNatural, QuantitiesNatural DEF LinesOf
  <2> QED
    BY <1>1, <1>3, <2>7, <2>8, <2>9, <2>10
<1> QED
  BY <1>6, <1>7

\* What StockAccounted and ReturnsWithinReceipt say of one product.
Accounted(p) == Kept(p) => stock[p] = Account(p)
Covered(p) ==
  NotesKept(p) => AlreadyReturned(p) <= Delivered(p) \/ AlreadyReturned(p) <= Damaged(p)

LEMMA AccountsByProduct ==
  /\ StockAccounted <=> \A p \in Product : Accounted(p)
  /\ StockAccounted' <=> \A p \in Product : Accounted(p)'
BY DEF StockAccounted, Accounted, Kept, NotesKept, Account

LEMMA LargerOfTwo ==
  ASSUME NEW a \in Nat, NEW b \in Nat, NEW n \in Nat
  PROVE  n <= Max({a, b}) <=> n <= a \/ n <= b
<1>1. IsFiniteSet({a, b}) /\ {a, b} \subseteq Nat /\ {a, b} # {}
  <2>1. IsFiniteSet({a} \cup {b}) /\ {a, b} = {a} \cup {b}
    BY FS_Singleton, FS_AddElement
  <2> QED
    BY <2>1
<1>2. Max({a, b}) \in {a, b} /\ a <= Max({a, b}) /\ b <= Max({a, b})
  BY <1>1, MaxIsGreatest
<1>3. PICK m \in Nat : m = Max({a, b}) /\ (m = a \/ m = b) /\ a <= m /\ b <= m
  BY <1>2
<1> QED
  BY <1>3

LEMMA CoveredByProduct ==
  ASSUME OrderInv
  PROVE  ReturnsWithinReceipt <=> \A p \in Product : Covered(p)
<1>1. ASSUME NEW p \in Product
      PROVE  AlreadyReturned(p) <= Max({Delivered(p), Damaged(p)})
               <=> AlreadyReturned(p) <= Delivered(p) \/ AlreadyReturned(p) <= Damaged(p)
  BY TotalsNatural, LargerOfTwo
<1> QED
  BY <1>1 DEF ReturnsWithinReceipt, Covered, NotesKept

LEMMA CoveredNext ==
  ASSUME OrderInv, Next
  PROVE  /\ \A p \in Product : /\ Delivered(p)' \in Nat /\ Damaged(p)' \in Nat
                               /\ AlreadyReturned(p)' \in Nat
         /\ (\A p \in Product : Covered(p)') => ReturnsWithinReceipt'
<1>1. received' \in [Line -> Quantities] /\ returns' \in Notes
  BY TypedStep DEF Typed, Notes
<1>2. ASSUME NEW p \in Product
      PROVE  Delivered(p)' \in Nat /\ Damaged(p)' \in Nat /\ AlreadyReturned(p)' \in Nat
  <2>1. PICK q \in [Line -> Quantities] : q = received'
    BY <1>1
  <2>2. \A l \in Line : q[l].good <= q[l].good /\ q[l].bad <= q[l].bad
    BY DEF Quantities
  <2>3. GoodIn(q, p) \in Nat /\ BadIn(q, p) \in Nat
    BY <2>2, GoodMore
  <2>4. PICK r \in Notes : r = returns'
    BY <1>1
  <2>5. ReturnedIn(r, p) \in Nat
    <3>1. CASE Note = {}
      <4>1. ReturnedIn(r, p) = SumFunctionOnSet([x \in {} |-> r[x].qty[p]], {})
        <5>1. {n \in Note : r[n].status \notin {"none", "cancelled"}} = {}
          BY <3>1
        <5> QED
          BY <5>1 DEF ReturnedIn, SumOf
      <4> QED
        BY <4>1, SumEmpty
    <3>2. CASE Note # {}
      BY <3>2, ReturnedOnOne
    <3> QED
      BY <3>1, <3>2
  <2> QED
    BY <2>1, <2>3, <2>4, <2>5, SumsTaken
<1>3. ASSUME NEW p \in Product, Covered(p)'
      PROVE  (NotesKept(p) => AlreadyReturned(p) <= Max({Delivered(p), Damaged(p)}))'
  <2>1. PICK a \in Nat, b \in Nat, n \in Nat :
          a = Delivered(p)' /\ b = Damaged(p)' /\ n = AlreadyReturned(p)'
    BY <1>2
  <2>2. NotesKept(p)' => n <= a \/ n <= b
    BY <1>3, <2>1 DEF Covered
  <2>3. NotesKept(p)' => n <= Max({a, b})
    BY <2>2, LargerOfTwo
  <2> QED
    BY <2>1, <2>3
<1>4. ASSUME \A p \in Product : Covered(p)' PROVE ReturnsWithinReceipt'
  BY <1>3, <1>4 DEF ReturnsWithinReceipt, NotesKept
<1> QED
  BY <1>2, <1>4

\* Steps that move no goods.
LEMMA GoodsApart ==
  ASSUME OrderInv, Next, stock' = stock, received' = received, sold' = sold, returns' = returns
  PROVE  StockAccounted' /\ ReturnsWithinReceipt'
<1>1. Overwritten \subseteq Overwritten'
  BY OverwrittenGrows
<1>2. ASSUME NEW p \in Product
      PROVE  /\ Delivered(p)' = Delivered(p) /\ Damaged(p)' = Damaged(p)
             /\ AlreadyReturned(p)' = AlreadyReturned(p)
             /\ Kept(p)' => Kept(p)
             /\ NotesKept(p)' => NotesKept(p)
  BY <1>1, SumsTaken DEF Kept, NotesKept
<1>3. \A p \in Product : Accounted(p)'
  BY <1>2, AccountsByProduct DEF OrderInv, Accounted, Account
<1>4. \A p \in Product : Covered(p)'
  BY <1>2, CoveredByProduct DEF OrderInv, Covered
<1> QED
  BY <1>3, <1>4, AccountsByProduct, CoveredNext

LEMMA PostKeepsAccounts ==
  ASSUME OrderInv, Next, NEW s \in Session, PostReceipt(s)
  PROVE  StockAccounted' /\ ReturnsWithinReceipt'
<1>1. Overwritten \subseteq Overwritten' /\ returns' = returns /\ sold' = sold
  BY OverwrittenGrows, PostMoves
<1>2. ASSUME NEW p \in Product
      PROVE  /\ AlreadyReturned(p)' = AlreadyReturned(p)
             /\ Kept(p)' => Kept(p)
             /\ NotesKept(p)' => NotesKept(p)
  BY <1>1, SumsTaken DEF Kept, NotesKept
<1>3. ASSUME NEW p \in Product PROVE Accounted(p)'
  <2>1. ASSUME Kept(p)' PROVE stock'[p] = Account(p)'
    <3>1. stock[p] = Account(p)
      BY <1>2, <2>1, AccountsByProduct DEF OrderInv, Accounted
    <3>2. stock'[p] - stock[p] = Delivered(p)' - Delivered(p)
      BY <2>1, PostAccounts DEF Kept
    <3>3. /\ Delivered(p) \in Nat /\ Opening[p] \in Nat /\ sold[p] \in Nat /\ stock[p] \in Int
          /\ AlreadyReturned(p) \in Nat /\ Delivered(p)' \in Nat /\ stock'[p] \in Int
      <4>1. stock'[p] \in Int
        BY TypedStep DEF Typed
      <4> QED
        BY <4>1, TotalsNatural, CoveredNext
    <3>4. Account(p)' = Opening[p] + Delivered(p)' - sold[p] - AlreadyReturned(p)
      BY <1>1, <1>2 DEF Account
    <3>5. stock[p] = Opening[p] + Delivered(p) - sold[p] - AlreadyReturned(p)
      BY <3>1 DEF Account
    <3> QED
      BY <3>2, <3>3, <3>4, <3>5
  <2> QED
    BY <2>1 DEF Accounted
<1>4. ASSUME NEW p \in Product PROVE Covered(p)'
  <2>1. Delivered(p) <= Delivered(p)' /\ Damaged(p) <= Damaged(p)'
    <3>1. PICK r \in [Line -> Quantities], q \in [Line -> Quantities] : r = received /\ q = received'
      BY LinesPosted DEF OrderInv, Typed
    <3>2. /\ \A l \in Posted(s) : /\ q[l].good = r[l].good + work[s].took[l].good
                                  /\ q[l].bad = r[l].bad + work[s].took[l].bad
          /\ \A l \in Line : l \notin Posted(s) => q[l] = r[l]
          /\ work[s].took \in [Line -> Quantities]
      BY <3>1, LinesPosted DEF OrderInv
    <3>3. \A l \in Line : /\ r[l].good \in Nat /\ r[l].bad \in Nat
                          /\ work[s].took[l].good \in Nat /\ work[s].took[l].bad \in Nat
      BY <3>2 DEF Quantities
    <3>4. \A l \in Line : r[l].good <= q[l].good /\ r[l].bad <= q[l].bad
      BY <3>2, <3>3
    <3> QED
      BY <3>1, <3>4, GoodMore, SumsTaken
  <2>2. Covered(p)
    BY CoveredByProduct DEF OrderInv
  <2>3. /\ Delivered(p) \in Nat /\ Damaged(p) \in Nat /\ AlreadyReturned(p) \in Nat
        /\ Delivered(p)' \in Nat /\ Damaged(p)' \in Nat
    BY TotalsNatural, CoveredNext
  <2> QED
    BY <1>2, <2>1, <2>2, <2>3 DEF Covered
<1> QED
  BY <1>3, <1>4, AccountsByProduct, CoveredNext
\* A note is made, cancelled or saved, by which the stock changes as much as
\* what it returns.
LEMMA NoteAccounts ==
  ASSUME OrderInv, Next, NEW n \in Note, \A m \in Note : m # n => returns'[m] = returns[m],
         received' = received, sold' = sold,
         \A p \in Product : Kept(p)' =>
           stock'[p] = stock[p] + Part(returns[n], p) - Part(returns'[n], p),
         \A p \in Product : NotesKept(p)' => NotesKept(p)
  PROVE  StockAccounted'
<1>1. Overwritten \subseteq Overwritten'
  BY OverwrittenGrows
<1>2. ASSUME NEW p \in Product PROVE Accounted(p)'
  <2>1. ASSUME Kept(p)' PROVE stock'[p] = Account(p)'
    <3>1. stock[p] = Account(p)
      BY <1>1, <2>1, AccountsByProduct DEF OrderInv, Accounted, Kept
    <3>2. stock[p] = Opening[p] + Delivered(p) - sold[p] - AlreadyReturned(p)
      BY <3>1 DEF Account
    <3>3. stock'[p] = stock[p] + Part(returns[n], p) - Part(returns'[n], p)
      BY <2>1
    <3>4. /\ AlreadyReturned(p)' = AlreadyReturned(p) - Part(returns[n], p) + Part(returns'[n], p)
          /\ AlreadyReturned(p)' \in Nat
      BY NoteChanged
    <3>5. /\ Delivered(p) \in Nat /\ Opening[p] \in Nat /\ sold[p] \in Nat /\ stock[p] \in Int
          /\ AlreadyReturned(p) \in Nat
      BY TotalsNatural
    <3>6. Part(returns[n], p) \in Nat /\ Part(returns'[n], p) \in Nat
      BY TypedStep DEF OrderInv, Typed, Part
    <3>7. Account(p)' = Opening[p] + Delivered(p) - sold[p] - AlreadyReturned(p)'
      BY SumsTaken DEF Account
    <3> QED
      BY <3>2, <3>3, <3>4, <3>5, <3>6, <3>7
  <2> QED
    BY <2>1 DEF Accounted
<1> QED
  BY <1>2, AccountsByProduct

\* A note that returns no more than before leaves the product covered.
LEMMA NoteCovers ==
  ASSUME OrderInv, Next, NEW n \in Note, \A m \in Note : m # n => returns'[m] = returns[m],
         received' = received,
         \A p \in Product : NotesKept(p)' =>
           /\ NotesKept(p)
           /\ \/ Part(returns'[n], p) <= Part(returns[n], p)
              \/ AlreadyReturned(p)' <= Delivered(p) \/ AlreadyReturned(p)' <= Damaged(p)
  PROVE  ReturnsWithinReceipt'
<1>1. ASSUME NEW p \in Product PROVE Covered(p)'
  <2>1. Covered(p)
    BY CoveredByProduct DEF OrderInv
  <2>2. Delivered(p)' = Delivered(p) /\ Damaged(p)' = Damaged(p)
    BY SumsTaken
  <2>3. /\ AlreadyReturned(p)' = AlreadyReturned(p) - Part(returns[n], p) + Part(returns'[n], p)
        /\ AlreadyReturned(p) \in Nat /\ AlreadyReturned(p)' \in Nat
    BY NoteChanged
  <2>4. /\ Part(returns[n], p) \in Nat /\ Part(returns'[n], p) \in Nat
        /\ Delivered(p) \in Nat /\ Damaged(p) \in Nat
    BY TypedStep, TotalsNatural DEF OrderInv, Typed, Part
  <2> QED
    BY <2>1, <2>2, <2>3, <2>4 DEF Covered
<1> QED
  BY <1>1, CoveredNext

LEMMA CreateKeepsAccounts ==
  ASSUME OrderInv, Next, NEW n \in Note, NEW reason \in {"damaged", "other"}, NEW qty \in Returned,
         NEW submit \in BOOLEAN, CreateReturn(n, reason, qty, submit)
  PROVE  StockAccounted' /\ ReturnsWithinReceipt'
<1>1. /\ qty \in [Product -> Nat] /\ returns \in Notes /\ stock \in [Product -> Int]
      /\ returns[n].status = "none"
      /\ returns' = [returns EXCEPT ![n] =
           [status |-> IF submit THEN "submitted" ELSE "draft", qty |-> qty]]
      /\ stock' = [p \in Product |-> stock[p] - qty[p]]
      /\ received' = received /\ sold' = sold /\ overwritten' = overwritten
  BY PurchasingAssumption DEF CreateReturn, OrderInv, Typed, Notes
<1>2. /\ \A m \in Note : m # n => returns'[m] = returns[m]
      /\ returns'[n].qty = qty /\ returns'[n].status \in {"submitted", "draft"}
  BY <1>1 DEF Notes
<1>3. \A p \in Product : Part(returns[n], p) = 0 /\ Part(returns'[n], p) = qty[p]
  BY <1>1, <1>2 DEF Part
<1>4. Overwritten' = Overwritten
  BY <1>1 DEF Overwritten
<1>5. \A p \in Product : NotesKept(p)' => NotesKept(p)
  BY <1>1, <1>2, <1>4 DEF NotesKept, OrderInv, NothingYet
<1>6. \A p \in Product : stock'[p] = stock[p] + Part(returns[n], p) - Part(returns'[n], p)
  BY <1>1, <1>3
<1>7. StockAccounted'
  BY <1>1, <1>2, <1>5, <1>6, NoteAccounts
<1>8. ASSUME NEW p \in Product
      PROVE  \/ Part(returns'[n], p) <= Part(returns[n], p)
             \/ AlreadyReturned(p)' <= Delivered(p) \/ AlreadyReturned(p)' <= Damaged(p)
  <2>1. /\ AlreadyReturned(p)' = AlreadyReturned(p) - Part(returns[n], p) + Part(returns'[n], p)
        /\ AlreadyReturned(p) \in Nat
    BY <1>2, NoteChanged
  <2>2. Delivered(p) \in Nat /\ Damaged(p) \in Nat /\ qty[p] \in Nat
    BY <1>1, TotalsNatural
  <2>3. CASE qty[p] = 0
    BY <1>3, <2>3
  <2>4. CASE qty[p] > 0
    <3>1. qty[p] <= Returnable(p, reason)
      BY <2>4 DEF CreateReturn
    <3>2. qty[p] <= Delivered(p) - AlreadyReturned(p) \/ qty[p] <= Damaged(p) - AlreadyReturned(p)
      BY <2>1, <2>2, <2>4, <3>1 DEF Returnable, Positive
    <3> QED
      BY <1>3, <2>1, <2>2, <3>2
  <2> QED
    BY <2>2, <2>3, <2>4
<1>9. ReturnsWithinReceipt'
  BY <1>1, <1>2, <1>5, <1>8, NoteCovers
<1> QED
  BY <1>7, <1>9

LEMMA CancelKeepsAccounts ==
  ASSUME OrderInv, Next, NEW n \in Note, CancelReturn(n)
  PROVE  StockAccounted' /\ ReturnsWithinReceipt'
<1>1. /\ returns \in Notes /\ stock \in [Product -> Int]
      /\ returns[n].status \in {"draft", "submitted", "acknowledged"}
      /\ returns' = [returns EXCEPT ![n].status = "cancelled"]
      /\ stock' = [p \in Product |-> stock[p] + returns[n].qty[p]]
      /\ received' = received /\ sold' = sold /\ overwritten' = overwritten
  BY DEF CancelReturn, MayCancel, OrderInv, Typed, Notes
<1>2. /\ \A m \in Note : m # n => returns'[m] = returns[m]
      /\ returns'[n].qty = returns[n].qty /\ returns'[n].status = "cancelled"
  BY <1>1 DEF Notes
<1>3. \A p \in Product : /\ Part(returns[n], p) = returns[n].qty[p] /\ returns[n].qty[p] \in Nat
                          /\ Part(returns'[n], p) = 0
  BY <1>1, <1>2 DEF Part, Notes
<1>4. Overwritten' = Overwritten
  BY <1>1 DEF Overwritten
<1>5. \A p \in Product : NotesKept(p)' => NotesKept(p)
  BY <1>2, <1>4 DEF NotesKept
<1>6. \A p \in Product : stock'[p] = stock[p] + Part(returns[n], p) - Part(returns'[n], p)
  BY <1>1, <1>3
<1>7. StockAccounted'
  BY <1>1, <1>2, <1>5, <1>6, NoteAccounts
<1>8. \A p \in Product : Part(returns'[n], p) <= Part(returns[n], p)
  BY <1>3
<1>9. ReturnsWithinReceipt'
  BY <1>1, <1>2, <1>5, <1>8, NoteCovers
<1> QED
  BY <1>7, <1>9

LEMMA SaveKeepsAccounts ==
  ASSUME OrderInv, Next, NEW s \in Session, SaveReturn(s)
  PROVE  StockAccounted' /\ ReturnsWithinReceipt'
<1>1. PICK n \in Note, next \in DOMAIN MayBecome :
        n = work[s].item /\ next = work[s].next /\ work[s].copy \in MayBecome[next]
  BY DEF SaveReturn, At, OrderInv, SavesStatus
<1>2. /\ returns \in Notes /\ returns' = [returns EXCEPT ![n].status = next]
      /\ received' = received /\ sold' = sold /\ stock' = stock
      /\ stock \in [Product -> Int]
  BY <1>1 DEF SaveReturn, goods, OrderInv, Typed, Notes
<1>3. /\ \A m \in Note : m # n => returns'[m] = returns[m]
      /\ returns'[n].qty = returns[n].qty /\ returns'[n].status = next
      /\ next \notin {"none", "cancelled"}
      /\ work[s].copy \notin {"none", "cancelled"}
  BY <1>1, <1>2 DEF Notes, MayBecome
<1>4. Overwritten \subseteq Overwritten'
  BY OverwrittenGrows
<1>5. \A p \in Product : NotesKept(p)' => NotesKept(p)
  BY <1>3, <1>4 DEF NotesKept
<1>6. ASSUME NEW p \in Product, NotesKept(p)' PROVE Part(returns'[n], p) = Part(returns[n], p)
  <2>1. CASE returns[n].status = work[s].copy
    BY <1>3, <2>1 DEF Part
  <2>2. CASE returns[n].status # work[s].copy
    <3>1. Saved({n})
      BY <1>1, <2>2 DEF SaveReturn
    <3>2. /\ overwritten \in Seq(SUBSET ({"order"} \cup Product \cup Note))
          /\ {n} \in SUBSET ({"order"} \cup Product \cup Note)
      BY DEF OrderInv, Typed
    <3>3. Overwritten' = Overwritten \cup {n}
      BY <3>1, <3>2, SavedRecords
    <3>4. returns'[n].qty[p] = 0
      BY <1>6, <3>3 DEF NotesKept
    <3> QED
      BY <1>3, <3>4 DEF Part
  <2> QED
    BY <2>1, <2>2
<1>7. \A p \in Product : Part(returns[n], p) \in Nat
  BY <1>2 DEF Part, Notes
<1>8. \A p \in Product : Kept(p)' =>
        stock'[p] = stock[p] + Part(returns[n], p) - Part(returns'[n], p)
  BY <1>2, <1>6, <1>7 DEF Kept
<1>9. StockAccounted'
  BY <1>2, <1>3, <1>5, <1>8, NoteAccounts
<1>10. \A p \in Product : NotesKept(p)' => Part(returns'[n], p) <= Part(returns[n], p)
  BY <1>6, <1>7
<1>11. ReturnsWithinReceipt'
  BY <1>2, <1>3, <1>5, <1>10, NoteCovers
<1> QED
  BY <1>9, <1>11

LEMMA SellKeepsAccounts ==
  ASSUME OrderInv, Next, NEW o \in Product, Sell(o)
  PROVE  StockAccounted' /\ ReturnsWithinReceipt'
<1>1. /\ sold' = [sold EXCEPT ![o] = @ + 1] /\ stock' = [stock EXCEPT ![o] = @ - 1]
      /\ received' = received /\ returns' = returns /\ overwritten' = overwritten
      /\ stock \in [Product -> Int] /\ sold \in [Product -> Nat]
  BY DEF Sell, papers, OrderInv, Typed
<1>2. ASSUME NEW p \in Product
      PROVE  /\ Delivered(p)' = Delivered(p) /\ Damaged(p)' = Damaged(p)
             /\ AlreadyReturned(p)' = AlreadyReturned(p)
             /\ Kept(p)' <=> Kept(p)
             /\ NotesKept(p)' <=> NotesKept(p)
  BY <1>1, SumsTaken DEF Kept, NotesKept, Overwritten
<1>3. ASSUME NEW p \in Product PROVE Accounted(p)'
  <2>1. Accounted(p)
    BY AccountsByProduct DEF OrderInv
  <2>2. stock'[p] + sold'[p] = stock[p] + sold[p] /\ stock'[p] \in Int /\ sold'[p] \in Nat
    BY <1>1
  <2>3. /\ Delivered(p) \in Nat /\ Opening[p] \in Nat /\ sold[p] \in Nat /\ stock[p] \in Int
        /\ AlreadyReturned(p) \in Nat
    BY TotalsNatural
  <2>4. Account(p) = Opening[p] + Delivered(p) - sold[p] - AlreadyReturned(p)
    BY DEF Account
  <2>5. Account(p)' = Opening[p] + Delivered(p) - sold'[p] - AlreadyReturned(p)
    BY <1>2 DEF Account
  <2>6. ASSUME stock[p] = Account(p) PROVE stock'[p] = Account(p)'
    <3>1. stock[p] = Opening[p] + Delivered(p) - sold[p] - AlreadyReturned(p)
      BY <2>4, <2>6
    <3>2. stock'[p] = Opening[p] + Delivered(p) - sold'[p] - AlreadyReturned(p)
      <4>1. PICK level \in Int, later \in Int, left \in Nat, gone \in Nat :
              level = stock[p] /\ later = stock'[p] /\ left = sold[p] /\ gone = sold'[p]
        BY <2>2, <2>3
      <4>2. later + gone = level + left
        BY <2>2, <4>1
      <4>3. PICK d \in Nat, n \in Nat, first \in Nat :
              d = Delivered(p) /\ n = AlreadyReturned(p) /\ first = Opening[p]
        BY <2>3
      <4>4. level = first + d - left - n
        BY <3>1, <4>1, <4>3
      <4>5. later = first + d - gone - n
        BY <4>2, <4>4
      <4> QED
        BY <4>1, <4>3, <4>5
    <3> QED
      BY <2>5, <3>2
  <2> QED
    BY <1>2, <2>1, <2>6 DEF Accounted
<1>4. \A p \in Product : Covered(p)'
  BY <1>2, CoveredByProduct DEF OrderInv, Covered
<1> QED
  BY <1>3, <1>4, AccountsByProduct, CoveredNext

LEMMA AccountsStep ==
  ASSUME OrderInv, Next
  PROVE  StockAccounted' /\ ReturnsWithinReceipt'
<1>1. ASSUME NEW s \in Session, ViewStep(s), ~SaveReturn(s)
      PROVE  returns' = returns
  BY <1>1 DEF ViewStep, Read, SaveOrder, ReadReceipt, LockOrder, ClearNote, ListLines, WriteNote, Die,
              ReadReturn, papers
<1>2. ASSUME NEW s \in Session, ViewStep(s), ~SaveReturn(s)
      PROVE  StockAccounted' /\ ReturnsWithinReceipt'
  BY <1>1, <1>2, ViewKeeps, GoodsApart
<1> QED
  BY SMTT(30), <1>2, PostKeepsAccounts, CreateKeepsAccounts, CancelKeepsAccounts, SaveKeepsAccounts,
     SellKeepsAccounts, NextSteps DEF ClerkStep

-----------------------------------------------------------------------------
(* The theorems.                                                           *)

LEMMA OrderInit == Init => OrderInv
<1> SUFFICES ASSUME Init PROVE OrderInv
  OBVIOUS
<1>1. Idle \in Request /\ Nothing \in [Line -> Quantities]
  BY IdleRequest
<1>2. Typed
  <2>1. status \in OrderStatus /\ received \in [Line -> Quantities] /\ stock \in [Product -> Int]
    BY <1>1, PurchasingAssumption DEF Init, OrderStatus
  <2>2. returns \in [Note -> [status : NoteStatus, qty : [Product -> Nat]]]
    BY DEF Init, NoReturn, NoteStatus
  <2>3. work \in [Session -> Request] /\ sold \in [Product -> Nat] /\ torn \in BOOLEAN
    BY <1>1 DEF Init
  <2>4. /\ noteRows \in Seq(BOOLEAN)
        /\ overwritten \in Seq(SUBSET ({"order"} \cup Product \cup Note))
    BY DEF Init
  <2> QED
    BY <2>1, <2>2, <2>3, <2>4 DEF Typed
<1>3. \A s \in Session : work[s].at = "idle"
  BY DEF Init, Idle
<1>4. PostingAlone /\ PostingCurrent /\ SavesOutcome /\ SavesStatus
  BY <1>3 DEF PostingAlone, PostingCurrent, SavesOutcome, SavesStatus, Posting
<1>5. NothingYet
  BY DEF Init, NothingYet, NoReturn
<1>6. WithinOrder
  <2>1. \A l \in Line : Units(received[l]) = 0 /\ Ordered[l] \in Nat
    BY PurchasingAssumption DEF Init, Nothing, Units
  <2> QED
    BY <2>1 DEF WithinOrder, Init
<1>7. ASSUME NEW p \in Product
      PROVE  Delivered(p) = 0 /\ AlreadyReturned(p) = 0 /\ Damaged(p) = 0
  <2>1. PICK S : S = {l \in Line : ProductOf[l] = p}
    OBVIOUS
  <2>2. IsFiniteSet(S) /\ S \subseteq Line
    BY <2>1, PurchasingAssumption, FS_Subset
  <2>3. PICK f, b : f = [l \in S |-> received[l].good] /\ b = [l \in S |-> received[l].bad]
    OBVIOUS
  <2>4. \A l \in S : f[l] = 0 /\ b[l] = 0
    BY <2>2, <2>3 DEF Init, Nothing
  <2>5. Delivered(p) = SumFunctionOnSet(f, S) /\ Damaged(p) = SumFunctionOnSet(b, S)
    BY <2>1, <2>3 DEF Delivered, Damaged, SumOf
  <2>6. AlreadyReturned(p) = SumFunctionOnSet([x \in {} |-> returns[x].qty[p]], {})
    <3>1. {n \in Note : Active(n)} = {}
      BY DEF Init, Active, NoReturn
    <3> QED
      BY <3>1 DEF AlreadyReturned, SumOf
  <2> QED
    BY <2>2, <2>4, <2>5, <2>6, SumZero, SumEmpty
<1>8. StockAccounted
  BY <1>7, PurchasingAssumption DEF Init, StockAccounted
<1>9. ReturnsWithinReceipt
  <2>1. \A p \in Product : AlreadyReturned(p) <= Max({Delivered(p), Damaged(p)})
    BY <1>7, LargerOfTwo
  <2> QED
    BY <2>1 DEF ReturnsWithinReceipt
<1>10. NoteRebuilt /\ ReceiptNoteCurrent
  BY <1>3 DEF Init, NoteRebuilt, ReceiptNoteCurrent, Rebuilding, Filling
<1> QED
  BY <1>2, <1>4, <1>5, <1>6, <1>8, <1>9, <1>10 DEF OrderInv

LEMMA OrderStep == OrderInv /\ [Next]_vars => OrderInv'
<1> SUFFICES ASSUME OrderInv, [Next]_vars PROVE OrderInv'
  OBVIOUS
<1>1. CASE Next
  BY <1>1, TypedStep, HoldersStep, NothingYetStep, WithinStep, NotesStep, AccountsStep DEF OrderInv
<1>2. CASE UNCHANGED vars
  <2>1. /\ status' = status /\ received' = received /\ stock' = stock /\ noteRows' = noteRows
        /\ returns' = returns /\ work' = work /\ sold' = sold /\ overwritten' = overwritten
        /\ torn' = torn
    BY <1>2 DEF vars
  <2>2. Typed' /\ PostingAlone' /\ PostingCurrent' /\ SavesOutcome' /\ SavesStatus' /\ NothingYet'
    BY <2>1 DEF OrderInv, Typed, PostingAlone, PostingCurrent, SavesOutcome, SavesStatus, NothingYet, Posting
  <2>3. WithinOrder' /\ NoteRebuilt' /\ ReceiptNoteCurrent'
    BY <2>1 DEF OrderInv, WithinOrder, NoteRebuilt, ReceiptNoteCurrent, Rebuilding, Filling, Overwritten
  <2>4. StockAccounted' <=> StockAccounted
    BY <2>1, SumsTaken DEF StockAccounted, Overwritten
  <2>5. ReturnsWithinReceipt' <=> ReturnsWithinReceipt
    BY <2>1, SumsTaken DEF ReturnsWithinReceipt, Overwritten
  <2> QED
    BY <2>2, <2>3, <2>4, <2>5 DEF OrderInv
<1> QED
  BY <1>1, <1>2

\* In every state of an order's life the views, receipts and notes under way
\* are as OrderInv says: one receipt at a time posts, what it has read is
\* current, and what will be saved was read in a status that allows it
\* (pos/models.py 1704-1810, pos/views.py 4738-4828, 8556-8939).
THEOREM OrderInductive == Spec => []OrderInv
BY OrderInit, OrderStep, PTL DEF Spec

\* No line receives more than was ordered, however receipts interleave, and the
\* status tells whether units are outstanding unless an old copy was saved over
\* it (mark_as_received, pos/models.py 1704-1810).
THEOREM ReceiptsWithinOrder == Spec => []WithinOrder
<1>1. OrderInv => WithinOrder
  BY DEF OrderInv
<1> QED
  BY <1>1, OrderInductive, PTL

\* A product's stock is its opening stock with what was received in good order,
\* less what was sold and returned, where nothing excepted has happened to it:
\* two of its lines in one receipt, or a save from an old copy
\* (pos/models.py 1704-1810, pos/views.py 8556-8743, 8913-8939).
THEOREM OrderStockAccounted == Spec => []StockAccounted
<1>1. OrderInv => StockAccounted
  BY DEF OrderInv
<1> QED
  BY <1>1, OrderInductive, PTL

\* The returned notes of an order together return no more of a product than the
\* larger of its good and its damaged units (grn_create, pos/views.py
\* 8556-8743).
THEOREM ReturnsCovered == Spec => []ReturnsWithinReceipt
<1>1. OrderInv => ReturnsWithinReceipt
  BY DEF OrderInv
<1> QED
  BY <1>1, OrderInductive, PTL

\* Between receipts the received note lists the order's lines as they are, once
\* each, unless the rebuild of its last receipt was disturbed
\* (pos/views.py 4749-4805).
THEOREM ReceivedNoteCurrent == Spec => []ReceiptNoteCurrent
<1>1. OrderInv => ReceiptNoteCurrent
  BY DEF OrderInv
<1> QED
  BY <1>1, OrderInductive, PTL

-----------------------------------------------------------------------------
(* The inductive invariant of Payables.                                    *)

Settled(b) == Paid(b) + Credited(b)

Verdicts == {"unpaid", "partially_paid", "paid"}
TxStages ==
  [none |-> {"idle"}, payment |-> {"number", "wait", "pay", "assess", "mark"},
   reversal |-> {"list", "delete", "finish", "assess", "mark"},
   apply |-> {"apply", "total", "credit", "assess", "mark", "finish"},
   refund |-> {"number", "wait", "total", "credit", "finish"}]
TxKinds == {"none", "payment", "reversal", "apply", "refund"}
AllStages == {"idle", "number", "wait", "pay", "assess", "mark", "list", "delete", "finish",
              "apply", "total", "credit"}
PayableRows ==
  ({"bill"} \X Bill) \cup ({"credit"} \X Credit)
  \cup ({"numbers"} \X SequenceRow) \cup ({"allocations"} \X Payment)
MarkTables == UNION {[D -> Verdicts] : D \in SUBSET Invoice}
Transaction ==
  [at : AllStages, kind : TxKinds,
   entry : Entries \cup {NoEntry}, year : Year \cup {0}, numbered : SUBSET SequenceRow,
   payment : Payment \cup {0}, credit : Credit \cup {"none"},
   amount : Nat, copy : Nat, total : Nat, todo : SUBSET Bill, bill : Bill \cup {0},
   alloc : [Bill -> Nat], verdict : Verdicts \cup {"none"},
   marks : MarkTables,
   held : SUBSET PayableRows, used : SUBSET PayableRows]

TablesTyped ==
  /\ payments \in [Payment -> [amount : Nat, reversed : BOOLEAN]]
  /\ paid \in [Payment -> [Bill -> Nat]]
  /\ credited \in [Credit -> [Bill -> Nat]]
  /\ refunded \in [Credit -> Nat]
  /\ allocated \in [Credit -> Nat]
  /\ invoiceStatus \in [Invoice -> Verdicts]
  /\ sequences \subseteq SequenceRow

\* A transaction's stage is one of its kind, and what that kind works on is known.
Staged(w) ==
  /\ w \in Transaction
  /\ w.at \in TxStages[w.kind]
  /\ w.at = "number" => w.year \in Year
  /\ w.kind = "payment" => w.entry \in Entries
  /\ w.kind = "payment" /\ w.at \notin {"number", "wait"} => w.payment \in Payment
  /\ w.kind = "reversal" => w.payment \in Payment
  /\ w.kind \in {"apply", "refund"} => w.credit \in Credit /\ w.amount > 0
  /\ w.kind = "apply" \/ w.at \in {"assess", "mark"} => w.bill \in Invoice

\* What it has not begun it has not used, and the rows that keep others away.
Untouched(w) ==
  /\ w.at \in {"idle", "number", "wait", "list", "delete", "apply"} =>
       w.alloc = Zero /\ w.used = {} /\ DOMAIN w.marks = {}
  /\ w.kind \in {"reversal", "refund"} => w.alloc = Zero
Guarded(w) ==
  /\ w.at \notin {"number", "wait"} => NumberRows(w) \subseteq w.held
  /\ w.kind \in {"none", "reversal", "apply"} => w.numbered = {}
  /\ w.kind = "reversal" /\ w.at \notin {"list", "delete"} => Row("allocations", w.payment) \in w.held

\* What it allocates is outstanding, and each bill it changes has been marked
\* with the status that the change leads to or waits for it.
AllocFits(w) == \A b \in Bill :
  w.alloc[b] > 0 =>
    /\ Row("bill", b) \in w.used
    /\ Crossed("bill", b) \/ Settled(b) + w.alloc[b] <= Due[b]
Expected(w, b) == StatusFor(Due[b], Settled(b) - Deleted(w, b) + w.alloc[b])
MarksTell(w) == \A b \in DOMAIN w.marks :
  Row("bill", b) \in w.used /\ (Crossed("bill", b) \/ w.marks[b] = Expected(w, b))
VerdictTells(w) ==
  w.at = "mark" =>
    /\ Row("bill", w.bill) \in w.used /\ w.verdict \in Verdicts
    /\ Crossed("bill", w.bill) \/ w.verdict = Expected(w, w.bill)
Assessing(w, b) == b = w.bill /\ w.at \in {"total", "credit", "assess", "mark"}
AllocMarked(w) == \A b \in Invoice :
  w.alloc[b] > 0 => b \in DOMAIN w.marks \/ Assessing(w, b)
DeletedMarked(w) ==
  w.kind = "reversal" /\ w.at # "list" => \A b \in Bill : paid[w.payment][b] > 0 =>
    /\ b \in Invoice => b \in w.todo \/ b \in DOMAIN w.marks \/ Assessing(w, b)
    /\ w.at # "delete" => Row("bill", b) \in w.used

\* Payments and credits.
PaymentFits(w) ==
  w.kind = "payment" =>
    /\ w.at \notin {"number", "wait"} => payments[w.payment].amount = 0
    /\ Fifo(w) => Spent(w) <= w.entry.amount
    /\ \A b \in w.todo : w.alloc[b] = 0 /\ b \notin DOMAIN w.marks
    /\ w.at \in {"assess", "mark"} => w.bill \notin w.todo
ReversalFits(w) == w.kind = "reversal" => payments[w.payment].amount > 0
CreditFits(w) ==
  w.kind \in {"apply", "refund"} =>
    /\ w.todo = {} /\ w.copy + w.amount <= CreditAmount[w.credit]
    /\ w.kind = "apply" /\ w.at # "apply" => w.alloc = [Zero EXCEPT ![w.bill] = w.amount]
    /\ w.at \in {"credit", "assess", "mark", "finish"} =>
         /\ Row("credit", w.credit) \in w.used
         /\ Crossed("credit", w.credit) \/ w.total = Used(w.credit) + w.amount

TxFits(w) ==
  /\ Staged(w) /\ Untouched(w) /\ Guarded(w)
  /\ AllocFits(w) /\ MarksTell(w) /\ VerdictTells(w) /\ AllocMarked(w) /\ DeletedMarked(w)
  /\ PaymentFits(w) /\ ReversalFits(w) /\ CreditFits(w)

HeldApart == \A s, o \in Connection : s # o => tx[s].held \cap tx[o].held = {}
Paying(w) == w.kind = "payment" /\ w.at \notin {"number", "wait"}
OneEach == \A s, o \in Connection :
  s # o /\ Paying(tx[s]) /\ Paying(tx[o]) => tx[s].payment # tx[o].payment

\* A transaction goes on with its payment, or takes one that nobody has.
TakesOwn(s, w) ==
  Paying(w) =>
    \/ Paying(tx[s]) /\ w.payment = tx[s].payment
    \/ \A o \in Connection : o # s => tx[o].payment # w.payment
NoneYet == \A p \in Payment :
  payments[p].amount = 0 => paid[p] = Zero /\ ~payments[p].reversed

PayablesInv ==
  /\ TablesTyped /\ NoneYet /\ HeldApart /\ OneEach
  /\ tx \in [Connection -> Transaction]
  /\ \A s \in Connection : TxFits(tx[s])
  /\ WithinAmounts /\ BalancesTold

-----------------------------------------------------------------------------
(* Sums and least members.                                                 *)

PaidIn(t, b) == SumOver(Payment, LAMBDA p : t[p][b])
CreditedIn(t, b) == SumOver(Credit, LAMBDA c : t[c][b])
UsedIn(r, t, c) == r[c] + SumOver(Bill, LAMBDA b : t[c][b])

LEMMA BalancesTaken ==
  ASSUME NEW b, NEW c
  PROVE  /\ Settled(b) = PaidIn(paid, b) + CreditedIn(credited, b)
         /\ Settled(b)' = PaidIn(paid', b) + CreditedIn(credited', b)
         /\ Used(c) = UsedIn(refunded, credited, c)
         /\ Used(c)' = UsedIn(refunded', credited', c)
<1>1. Paid(b) = PaidIn(paid, b) /\ Paid(b)' = PaidIn(paid', b)
  BY DEF Paid, PaidIn, SumOver
<1>2. Credited(b) = CreditedIn(credited, b) /\ Credited(b)' = CreditedIn(credited', b)
  BY DEF Credited, CreditedIn, SumOver
<1>3. Used(c) = UsedIn(refunded, credited, c) /\ Used(c)' = UsedIn(refunded', credited', c)
  BY DEF Used, UsedIn, SumOver
<1> QED
  BY <1>1, <1>2, <1>3 DEF Settled

LEMMA BalancesNatural ==
  ASSUME TablesTyped
  PROVE  /\ \A b \in Bill : /\ PaidIn(paid, b) \in Nat /\ CreditedIn(credited, b) \in Nat
                            /\ Settled(b) \in Nat /\ Due[b] \in Nat
         /\ \A c \in Credit : Used(c) \in Nat /\ CreditAmount[c] \in Nat
<1>1. ASSUME NEW b \in Bill
      PROVE  PaidIn(paid, b) \in Nat /\ CreditedIn(credited, b) \in Nat
  <2>1. PICK f : f = [p \in Payment |-> paid[p][b]]
    OBVIOUS
  <2>2. \A p \in Payment : f[p] \in Nat
    BY <2>1 DEF TablesTyped
  <2>3. SumFunctionOnSet(f, Payment) \in Nat
    BY <2>2, SumNatural, PayablesAssumption
  <2>4. PICK g : g = [c \in Credit |-> credited[c][b]]
    OBVIOUS
  <2>5. \A c \in Credit : g[c] \in Nat
    BY <2>4 DEF TablesTyped
  <2>6. SumFunctionOnSet(g, Credit) \in Nat
    BY <2>5, SumNatural, PayablesAssumption
  <2> QED
    BY <2>1, <2>3, <2>4, <2>6 DEF PaidIn, CreditedIn, SumOver
<1>2. ASSUME NEW c \in Credit
      PROVE  Used(c) \in Nat
  <2>1. PICK f : f = [b \in Bill |-> credited[c][b]]
    OBVIOUS
  <2>2. \A b \in Bill : f[b] \in Nat
    BY <2>1 DEF TablesTyped
  <2>3. SumFunctionOnSet(f, Bill) \in Nat /\ refunded[c] \in Nat
    BY <2>2, SumNatural, PayablesAssumption DEF TablesTyped
  <2>4. Used(c) = refunded[c] + SumFunctionOnSet(f, Bill)
    BY <2>1 DEF Used, SumOver
  <2> QED
    BY <2>3, <2>4
<1>3. \A b \in Bill : Settled(b) \in Nat
  <2> TAKE b \in Bill
  <2> QED
    BY <1>1, BalancesTaken
<1> QED
  BY <1>1, <1>2, <1>3, PayablesAssumption

\* What a payment has spent, and what one more bill adds to it.
LEMMA SpentSum ==
  ASSUME NEW w \in Transaction
  PROVE  /\ Spent(w) = SumFunctionOnSet(w.alloc, Bill) /\ Spent(w) \in Nat
         /\ w.alloc = Zero => Spent(w) = 0
         /\ \A b \in Bill : w.alloc[b] \in Nat
<1>1. w.alloc \in [Bill -> Nat] /\ IsFiniteSet(Bill)
  BY PayablesAssumption DEF Transaction
<1>2. Spent(w) = SumFunctionOnSet(w.alloc, Bill)
  <2>1. [x \in Bill |-> w.alloc[x]] = w.alloc
    BY <1>1
  <2> QED
    BY <2>1 DEF Spent, SumOver
<1>3. PICK f : f = w.alloc
  OBVIOUS
<1>4. \A b \in Bill : f[b] \in Nat
  BY <1>1, <1>3
<1>5. SumFunctionOnSet(f, Bill) \in Nat
  BY <1>1, <1>4, SumNatural
<1>6. ASSUME f = Zero PROVE SumFunctionOnSet(f, Bill) = 0
  <2>1. \A b \in Bill : f[b] = 0
    BY <1>6 DEF Zero
  <2> QED
    BY <1>1, <2>1, SumZero
<1> QED
  BY <1>2, <1>3, <1>4, <1>5, <1>6

\* Only invoices are marked.
LEMMA MarksOnInvoices ==
  ASSUME NEW w \in Transaction
  PROVE  DOMAIN w.marks \subseteq Invoice /\ \A b \in DOMAIN w.marks : w.marks[b] \in Verdicts
<1>1. w.marks \in UNION {[D -> Verdicts] : D \in SUBSET Invoice}
  BY DEF Transaction, MarkTables
<1>2. PICK D \in SUBSET Invoice : w.marks \in [D -> Verdicts]
  BY <1>1
<1> QED
  BY <1>2

LEMMA LessOfTwo ==
  ASSUME NEW m \in Nat, NEW n \in Nat
  PROVE  Min({m, n}) \in Nat /\ Min({m, n}) <= m /\ Min({m, n}) <= n
<1>1. \E x \in {m, n} : \A y \in {m, n} : x <= y
  <2>1. CASE m <= n
    BY <2>1
  <2>2. CASE n <= m
    BY <2>2
  <2> QED
    BY <2>1, <2>2
<1> QED
  BY <1>1 DEF Min

LEMMA LeastIn ==
  ASSUME NEW S, S \subseteq Nat, S # {}
  PROVE  Min(S) \in S
BY LeastNatural DEF Min

-----------------------------------------------------------------------------
(* Transactions that do not commit.                                        *)

\* What the commit of another must leave alone for a transaction to go on.
LEMMA FitsThrough ==
  ASSUME NEW w, TxFits(w), crossed \subseteq crossed',
         \A b \in Bill : Row("bill", b) \in w.used /\ Row("bill", b) \notin crossed' =>
           Settled(b)' = Settled(b) /\ \A p \in Payment : paid'[p][b] = paid[p][b],
         \A c \in Credit : Row("credit", c) \in w.used /\ Row("credit", c) \notin crossed' =>
           Used(c)' = Used(c),
         w.kind = "payment" /\ w.at \notin {"number", "wait"} => payments'[w.payment].amount = 0,
         w.kind = "reversal" =>
           /\ payments'[w.payment].amount > 0
           /\ w.at # "list" => \A b \in Bill : paid'[w.payment][b] > 0 => paid[w.payment][b] > 0
  PROVE  TxFits(w)'
<1>1. /\ Staged(w) /\ Untouched(w) /\ Guarded(w) /\ AllocFits(w) /\ MarksTell(w)
      /\ VerdictTells(w) /\ AllocMarked(w) /\ DeletedMarked(w) /\ PaymentFits(w) /\ CreditFits(w)
  BY DEF TxFits
<1>2. Staged(w)' /\ Untouched(w)' /\ Guarded(w)'
  BY <1>1 DEF Staged, Untouched, Guarded, NumberRows
<1>3. AllocFits(w)'
  BY <1>1 DEF AllocFits, Crossed
<1>4. \A b \in Bill : Row("bill", b) \in w.used /\ Row("bill", b) \notin crossed' =>
        Expected(w, b)' = Expected(w, b)
  <2> SUFFICES ASSUME NEW b \in Bill, Row("bill", b) \in w.used, Row("bill", b) \notin crossed'
               PROVE  Expected(w, b)' = Expected(w, b)
    OBVIOUS
  <2>1. Deleted(w, b)' = Deleted(w, b)
    BY <1>1 DEF Deleted, Staged
  <2>2. Settled(b)' = Settled(b)
    OBVIOUS
  <2> QED
    BY <2>1, <2>2 DEF Expected
<1>5. \A b \in DOMAIN w.marks : b \in Bill
  BY <1>1, MarksOnInvoices, PayablesAssumption DEF Staged
<1>6. MarksTell(w)'
  BY <1>1, <1>4, <1>5 DEF MarksTell, Crossed
<1>7. VerdictTells(w)'
  <2>1. w.at = "mark" => w.bill \in Bill
    BY <1>1, PayablesAssumption DEF Staged
  <2> QED
    BY <1>1, <1>4, <2>1 DEF VerdictTells, Crossed
<1>8. AllocMarked(w)' /\ DeletedMarked(w)'
  BY <1>1 DEF AllocMarked, DeletedMarked, Assessing
<1>9. PaymentFits(w)'
  BY <1>1 DEF PaymentFits, Fifo, Spent, SumOver
<1>10. ReversalFits(w)'
  BY DEF ReversalFits
<1>11. CreditFits(w)'
  BY <1>1 DEF CreditFits, Crossed, Staged
<1> QED
  BY <1>2, <1>3, <1>6, <1>7, <1>8, <1>9, <1>10, <1>11 DEF TxFits

LEMMA EmptyFits ==
  NoTx \in Transaction /\ TxFits(NoTx) /\ TxFits(NoTx)'
<1>1. Zero \in [Bill -> Nat]
  BY DEF Zero
<1>2. [b \in {} |-> "none"] \in MarkTables
  <2>1. [b \in {} |-> "none"] \in [{} -> Verdicts]
    OBVIOUS
  <2> QED
    BY <2>1 DEF MarkTables
<1>3. NoTx \in Transaction
  BY <1>1, <1>2 DEF NoTx, Transaction, AllStages, TxKinds
<1>4. Staged(NoTx) /\ Untouched(NoTx) /\ Guarded(NoTx)
  BY <1>3 DEF Staged, Untouched, Guarded, NumberRows, NoTx, TxStages
<1>5. AllocFits(NoTx) /\ MarksTell(NoTx) /\ VerdictTells(NoTx) /\ AllocMarked(NoTx) /\ DeletedMarked(NoTx)
  BY PayablesAssumption DEF AllocFits, MarksTell, VerdictTells, AllocMarked, DeletedMarked, NoTx, Zero
<1>6. PaymentFits(NoTx) /\ ReversalFits(NoTx) /\ CreditFits(NoTx)
  BY DEF PaymentFits, ReversalFits, CreditFits, NoTx
<1>7. (Staged(NoTx) /\ Untouched(NoTx) /\ Guarded(NoTx))'
  BY <1>3 DEF Staged, Untouched, Guarded, NumberRows, NoTx, TxStages
<1>8. (AllocFits(NoTx) /\ MarksTell(NoTx) /\ VerdictTells(NoTx) /\ AllocMarked(NoTx) /\ DeletedMarked(NoTx))'
  <2>1. \A b \in Bill : NoTx.alloc[b] = 0
    BY DEF NoTx, Zero
  <2>2. NoTx.at = "idle" /\ NoTx.kind = "none" /\ DOMAIN NoTx.marks = {} /\ Invoice \subseteq Bill
    BY PayablesAssumption DEF NoTx
  <2>3. AllocFits(NoTx)' /\ AllocMarked(NoTx)'
    BY <2>1, <2>2 DEF AllocFits, AllocMarked
  <2> QED
    BY <2>2, <2>3 DEF MarksTell, VerdictTells, DeletedMarked
<1>9. (PaymentFits(NoTx) /\ ReversalFits(NoTx) /\ CreditFits(NoTx))'
  BY DEF PaymentFits, ReversalFits, CreditFits, NoTx
<1> QED
  BY <1>3, <1>4, <1>5, <1>6, <1>7, <1>8, <1>9 DEF TxFits

\* Without a commit the tables and what fits them stay as they are.
LEMMA QuietTables ==
  ASSUME TablesTyped, NoneYet, WithinAmounts, BalancesTold, UNCHANGED <<tables, crossed>>
  PROVE  (TablesTyped /\ NoneYet /\ WithinAmounts /\ BalancesTold)'
<1>1. UNCHANGED <<payments, paid, credited, refunded, allocated, invoiceStatus, sequences, crossed>>
  BY DEF tables
<1>2. (TablesTyped /\ NoneYet)'
  BY <1>1 DEF TablesTyped, NoneYet
<1>3. /\ \A b \in Bill : Settled(b)' = Settled(b)
      /\ \A c \in Credit : Used(c)' = Used(c)
  BY <1>1 DEF Settled, Paid, Credited, Used, SumOver
<1>4. WithinAmounts'
  BY <1>1, <1>3 DEF WithinAmounts, Crossed, SumOver, Settled
<1>5. BalancesTold'
  <2>1. Invoice \subseteq Bill
    BY PayablesAssumption
  <2> QED
    BY <1>1, <1>3, <2>1 DEF BalancesTold, Crossed, Settled
<1> QED
  BY <1>2, <1>4, <1>5

LEMMA QuietFits ==
  ASSUME UNCHANGED <<tables, crossed>>, NEW w, TxFits(w)
  PROVE  TxFits(w)'
<1>1. UNCHANGED <<payments, paid, credited, refunded, allocated, invoiceStatus, crossed>>
  BY DEF tables
<1>2. /\ \A b \in Bill : Settled(b)' = Settled(b)
      /\ \A c \in Credit : Used(c)' = Used(c)
  BY <1>1 DEF Settled, Paid, Credited, Used, SumOver
<1>3. /\ w.kind = "payment" /\ w.at \notin {"number", "wait"} => payments'[w.payment].amount = 0
      /\ w.kind = "reversal" => payments'[w.payment].amount > 0
  BY <1>1 DEF TxFits, PaymentFits, ReversalFits
<1> QED
  BY <1>1, <1>2, <1>3, FitsThrough

\* The rows a transaction's number was taken from.
LEMMA SameNumbers ==
  ASSUME NEW v, NEW w, w.numbered = v.numbered
  PROVE  NumberRows(w) = NumberRows(v)
BY DEF NumberRows

LEMMA OneEachKept ==
  ASSUME OneEach, NEW s \in Connection, NEW w, TakesOwn(s, w), tx \in [Connection -> Transaction],
         tx' = [tx EXCEPT ![s] = w]
  PROVE  OneEach'
<1> SUFFICES ASSUME NEW o \in Connection, NEW q \in Connection, o # q,
                    Paying(tx'[o]), Paying(tx'[q])
             PROVE  tx'[o].payment # tx'[q].payment
  BY DEF OneEach, Paying
<1>1. CASE o = s
  BY <1>1 DEF OneEach, TakesOwn
<1>2. CASE q = s
  BY <1>2 DEF OneEach, TakesOwn
<1>3. CASE o # s /\ q # s
  BY <1>3 DEF OneEach
<1> QED
  BY <1>1, <1>2, <1>3

\* A statement that commits nothing changes one transaction.
LEMMA StepKeeps ==
  ASSUME PayablesInv, NEW s \in Connection, NEW w, Step(s, w), TxFits(w), TakesOwn(s, w),
         \A o \in Connection : o # s => w.held \cap tx[o].held = {}
  PROVE  PayablesInv'
<1>1. /\ tx' = [tx EXCEPT ![s] = w] /\ tx \in [Connection -> Transaction] /\ w \in Transaction
      /\ \A o \in Connection : TxFits(tx[o])
      /\ HeldApart /\ OneEach /\ UNCHANGED <<tables, crossed>>
  BY DEF Step, PayablesInv, TxFits, Staged
<1>2. (TablesTyped /\ NoneYet /\ WithinAmounts /\ BalancesTold)'
  BY <1>1, QuietTables DEF PayablesInv
<1>3. \A o \in Connection : TxFits(tx[o])'
  <2> TAKE o \in Connection
  <2>1. PICK v : v = tx'[o]
    OBVIOUS
  <2>2. TxFits(v)
    BY <1>1, <2>1
  <2>3. TxFits(v)'
    BY <1>1, <2>2, QuietFits
  <2> QED
    BY <2>1, <2>3
<1>4. HeldApart' /\ tx' \in [Connection -> Transaction]
  BY <1>1 DEF HeldApart
<1>5. OneEach'
  BY <1>1, OneEachKept
<1> QED
  BY <1>2, <1>3, <1>4, <1>5 DEF PayablesInv

LEMMA RollbackKeeps ==
  ASSUME PayablesInv, NEW s \in Connection, Rollback(s)
  PROVE  PayablesInv'
<1>1. PICK w : w = NoTx
  OBVIOUS
<1>2. Step(s, w) /\ TxFits(w)
  BY <1>1, EmptyFits DEF Rollback
<1>3. \A o \in Connection : o # s => w.held \cap tx[o].held = {}
  BY <1>1 DEF NoTx
<1>4. TakesOwn(s, w)
  BY <1>1 DEF TakesOwn, Paying, NoTx
<1> QED
  BY <1>2, <1>3, <1>4, StepKeeps

\* What a stage says of a transaction's kind.
LEMMA StageKind ==
  ASSUME NEW w, Staged(w)
  PROVE  /\ w.at = "pay" => w.kind = "payment"
         /\ w.at \in {"number", "wait"} => w.kind \in {"payment", "refund"}
         /\ w.at \in {"list", "delete"} => w.kind = "reversal"
         /\ w.at = "apply" => w.kind = "apply"
         /\ w.at \in {"total", "credit"} => w.kind \in {"apply", "refund"}
         /\ w.at \in {"assess", "mark"} => w.kind \in {"payment", "reversal", "apply"}
         /\ w.at = "finish" => w.kind \in {"reversal", "apply", "refund"}
         /\ w.at = "idle" <=> w.kind = "none"
<1>1. w.kind \in TxKinds /\ w.at \in TxStages[w.kind]
  BY DEF Staged, Transaction
<1> QED
  BY <1>1 DEF TxKinds, TxStages

LEMMA Working ==
  ASSUME PayablesInv, NEW s \in Connection
  PROVE  tx[s] \in Transaction /\ TxFits(tx[s])
BY DEF PayablesInv

\* A transaction that has only begun fits whatever is in the tables.
LEMMA BlankFits ==
  ASSUME NEW w \in Transaction, w.alloc = Zero, w.used = {}, DOMAIN w.marks = {},
         w.at \in {"number", "wait", "list", "delete", "apply"}
  PROVE  Untouched(w) /\ AllocFits(w) /\ MarksTell(w) /\ VerdictTells(w) /\ AllocMarked(w)
<1>1. \A b \in Bill : w.alloc[b] = 0
  BY DEF Zero
<1>2. Invoice \subseteq Bill
  BY PayablesAssumption
<1> QED
  BY <1>1, <1>2 DEF Untouched, AllocFits, MarksTell, VerdictTells, AllocMarked

\* What it allocates and marks goes on to fit while it leaves both alone.
LEMMA SameFits ==
  ASSUME NEW v, NEW w, TxFits(v), w.kind = v.kind, w.payment = v.payment, w.alloc = v.alloc,
         w.marks = v.marks, v.used \subseteq w.used,
         v.kind = "reversal" => v.at \notin {"list", "delete"} /\ w.at \notin {"list", "delete"}
  PROVE  AllocFits(w) /\ MarksTell(w) /\ \A b \in Bill : Expected(w, b) = Expected(v, b)
<1>1. AllocFits(v) /\ MarksTell(v) /\ v \in Transaction
  BY DEF TxFits, Staged
<1>2. \A b \in Bill : Expected(w, b) = Expected(v, b)
  BY DEF Expected, Deleted
<1>3. AllocFits(w)
  BY <1>1 DEF AllocFits
<1>4. DOMAIN v.marks \subseteq Bill
  BY <1>1, MarksOnInvoices, PayablesAssumption
<1>5. MarksTell(w)
  BY <1>1, <1>2, <1>4 DEF MarksTell
<1> QED
  BY <1>2, <1>3, <1>5

LEMMA BeginKeeps ==
  ASSUME PayablesInv, NEW s \in Connection, NEW entry \in Entries, Begin(s, entry)
  PROVE  PayablesInv'
<1>1. PICK w : w = [NoTx EXCEPT !.at = "number", !.kind = "payment", !.entry = entry,
                         !.year = entry.year]
  OBVIOUS
<1>2. /\ w \in Transaction /\ w.at = "number" /\ w.kind = "payment" /\ w.entry = entry
      /\ w.alloc = Zero /\ w.used = {} /\ w.held = {} /\ w.todo = {} /\ DOMAIN w.marks = {}
      /\ w.year \in Year /\ w.numbered = {}
  <2>1. w \in Transaction
    <3>1. "number" \in AllStages /\ "payment" \in TxKinds /\ entry.year \in Year
      BY PayablesAssumption DEF AllStages, TxKinds
    <3> QED
      BY <1>1, <3>1, EmptyFits DEF Transaction
  <2> QED
    BY <1>1, <2>1, PayablesAssumption DEF NoTx
<1>3. Untouched(w) /\ AllocFits(w) /\ MarksTell(w) /\ VerdictTells(w) /\ AllocMarked(w)
  BY <1>2, BlankFits
<1>4. Staged(w) /\ Guarded(w) /\ DeletedMarked(w) /\ ReversalFits(w) /\ CreditFits(w)
  BY <1>2 DEF Staged, Guarded, DeletedMarked, ReversalFits, CreditFits, TxStages
<1>5. PaymentFits(w)
  <2>1. Spent(w) = 0 /\ entry.amount \in Nat
    BY <1>2, SpentSum, PayablesAssumption
  <2> QED
    BY <1>2, <2>1 DEF PaymentFits
<1>6. TxFits(w)
  BY <1>3, <1>4, <1>5 DEF TxFits
<1>7. Step(s, w)
  BY <1>1 DEF Begin
<1>8. TakesOwn(s, w)
  BY <1>2 DEF TakesOwn, Paying
<1> QED
  BY <1>2, <1>6, <1>7, <1>8, StepKeeps

\* A transaction finds the sequence row it takes its number from, or none.
LEMMA ChooseSequenceKeeps ==
  ASSUME PayablesInv, NEW s \in Connection, ChooseSequence(s)
  PROVE  PayablesInv'
<1>1. PICK v : v = tx[s]
  OBVIOUS
<1>2. v \in Transaction /\ TxFits(v) /\ Staged(v) /\ v.at = "number"
      /\ v.kind \in {"payment", "refund"}
  BY <1>1, Working, StageKind DEF ChooseSequence, AtStage, TxFits
<1>3. PICK rows : /\ rows \in SUBSET SequenceRow
                  /\ Step(s, [v EXCEPT !.at = "wait", !.numbered = rows])
  <2>1. Committed(v.kind, v.year) \subseteq SequenceRow /\ Fresh \subseteq SequenceRow
    BY DEF Committed, Fresh, PayablesInv, TablesTyped
  <2> QED
    BY <1>1, <2>1 DEF ChooseSequence
<1>4. PICK w : w = [v EXCEPT !.at = "wait", !.numbered = rows]
  OBVIOUS
<1>5. v.alloc = Zero /\ v.used = {} /\ DOMAIN v.marks = {}
  BY <1>2 DEF TxFits, Untouched
<1>6. /\ w \in Transaction /\ w.at = "wait" /\ w.kind = v.kind /\ w.entry = v.entry
      /\ w.credit = v.credit /\ w.amount = v.amount /\ w.copy = v.copy /\ w.todo = v.todo
      /\ w.alloc = Zero /\ w.used = {} /\ w.held = v.held /\ w.marks = v.marks
  <2>1. w \in Transaction
    BY <1>2, <1>3, <1>4 DEF Transaction, AllStages
  <2> QED
    BY <1>2, <1>4, <1>5, <2>1 DEF Transaction
<1>7. Untouched(w) /\ AllocFits(w) /\ MarksTell(w) /\ VerdictTells(w) /\ AllocMarked(w)
  BY <1>5, <1>6, BlankFits
<1>8. Staged(w) /\ Guarded(w) /\ DeletedMarked(w) /\ ReversalFits(w)
  BY <1>2, <1>6 DEF Staged, Guarded, DeletedMarked, ReversalFits, TxStages
<1>9. CreditFits(w)
  BY <1>2, <1>6 DEF TxFits, CreditFits
<1>10. PaymentFits(w)
  <2>1. Spent(w) = Spent(v) /\ (Fifo(w) <=> Fifo(v))
    BY <1>5, <1>6 DEF Spent, Fifo, SumOver
  <2> QED
    BY <1>2, <1>5, <1>6, <2>1 DEF TxFits, PaymentFits, Zero
<1>11. TxFits(w)
  BY <1>7, <1>8, <1>9, <1>10 DEF TxFits
<1>12. \A o \in Connection : o # s => w.held \cap tx[o].held = {}
  BY <1>1, <1>6 DEF PayablesInv, HeldApart
<1>13. TakesOwn(s, w)
  BY <1>6 DEF TakesOwn, Paying
<1> QED
  BY <1>3, <1>4, <1>11, <1>12, <1>13, StepKeeps

LEMMA CreatePaymentKeeps ==
  ASSUME PayablesInv, NEW s \in Connection, CreatePayment(s)
  PROVE  PayablesInv'
<1>1. PICK v : v = tx[s]
  OBVIOUS
<1>2. v \in Transaction /\ TxFits(v) /\ v.at = "wait" /\ v.kind = "payment"
  BY <1>1, Working DEF CreatePayment, AtStage
<1>3. PICK bills, p :
        /\ bills = IF ~Fifo(v) THEN {b \in Bill : v.entry.asked[b] > 0}
                  ELSE (Bill \ Invoice) \cup (IF v.entry.form = "invoices" THEN Open ELSE {})
        /\ p = Min(Unnumbered)
  OBVIOUS
<1>4. PICK w : w = [v EXCEPT !.at = "pay", !.payment = p,
                      !.held = NumberRows(v), !.todo = bills]
  OBVIOUS
<1>5. Step(s, w) /\ Unnumbered # {} /\ NumberFree(s)
  BY <1>1, <1>3, <1>4 DEF CreatePayment
<1>6. p \in Unnumbered
  BY <1>3, <1>5, LeastIn, PayablesAssumption DEF Unnumbered
<1>7. v.kind = "payment" /\ v.entry \in Entries /\ v.alloc = Zero /\ v.used = {} /\ DOMAIN v.marks = {}
  BY <1>2, StageKind DEF TxFits, Staged, Untouched
<1>8. bills \in SUBSET Bill
  BY <1>3, PayablesAssumption DEF Open
<1>9. /\ w \in Transaction /\ w.at = "pay" /\ w.kind = "payment" /\ w.entry = v.entry
      /\ w.payment = p /\ w.alloc = Zero /\ w.used = {} /\ w.held = NumberRows(v)
      /\ w.marks = v.marks /\ w.numbered = v.numbered
  <2>1. w \in Transaction
    <3>1. p \in Payment /\ NumberRows(v) \in SUBSET PayableRows
      BY <1>2, <1>6 DEF PayableRows, Row, NumberRows, Transaction, Unnumbered
    <3> QED
      BY <1>2, <1>4, <1>8, <3>1 DEF Transaction, AllStages
  <2> QED
    BY <1>2, <1>4, <1>7, <2>1 DEF Transaction
<1>10. Staged(w) /\ Untouched(w) /\ Guarded(w)
  <2>1. NumberRows(w) = NumberRows(v)
    BY <1>9, SameNumbers
  <2> QED
    BY <1>6, <1>7, <1>9, <2>1 DEF Staged, Untouched, Guarded, TxStages, Unnumbered
<1>11. /\ AllocFits(w) /\ MarksTell(w) /\ VerdictTells(w) /\ AllocMarked(w) /\ DeletedMarked(w)
       /\ ReversalFits(w) /\ CreditFits(w)
  <2>1. \A b \in Bill : w.alloc[b] = 0
    BY <1>9 DEF Zero
  <2>2. Invoice \subseteq Bill
    BY PayablesAssumption
  <2> QED
    BY <1>7, <1>9, <2>1, <2>2 DEF AllocFits, MarksTell, VerdictTells, AllocMarked, DeletedMarked,
       ReversalFits, CreditFits
<1>12. PaymentFits(w)
  <2>1. Spent(w) = 0 /\ w.entry.amount \in Nat
    BY <1>7, <1>9, SpentSum, PayablesAssumption
  <2>2. \A b \in w.todo : w.alloc[b] = 0
    BY <1>9 DEF Transaction, Zero
  <2>3. payments[p].amount = 0
    BY <1>6 DEF Unnumbered
  <2> QED
    BY <1>7, <1>9, <2>1, <2>2, <2>3 DEF PaymentFits
<1>13. TxFits(w)
  BY <1>10, <1>11, <1>12 DEF TxFits
<1>14. \A o \in Connection : o # s => w.held \cap tx[o].held = {}
  BY <1>1, <1>5, <1>9 DEF NumberFree, Free
<1>15. TakesOwn(s, w)
  BY <1>6, <1>9 DEF TakesOwn, Unnumbered
<1> QED
  BY <1>5, <1>13, <1>14, <1>15, StepKeeps

\* What an allocation to one more bill does.
LEMMA SpentMore ==
  ASSUME NEW v \in Transaction, NEW b \in Bill, NEW n \in Nat, v.alloc[b] = 0,
         NEW w \in Transaction, w.alloc = [v.alloc EXCEPT ![b] = n]
  PROVE  Spent(w) = Spent(v) + n
<1>1. PICK f, g : f = v.alloc /\ g = w.alloc
  OBVIOUS
<1>2. f \in [Bill -> Nat] /\ g = [f EXCEPT ![b] = n] /\ f[b] = 0
  BY <1>1 DEF Transaction
<1>3. (\A y \in Bill : f[y] \in Int) /\ (\A y \in Bill : y # b => g[y] = f[y])
  BY <1>2
<1>4. g[b] = n /\ g[b] \in Int
  BY <1>2
<1>5. SumFunctionOnSet(g, Bill) = SumFunctionOnSet(f, Bill) - f[b] + g[b]
  <2>1. IsFiniteSet(Bill)
    BY PayablesAssumption
  <2> QED
    BY <1>3, <1>4, <2>1, SumChange
<1>6. Spent(v) = SumFunctionOnSet(f, Bill) /\ Spent(w) = SumFunctionOnSet(g, Bill) /\ Spent(v) \in Nat
  BY <1>1, SpentSum
<1> QED
  BY <1>2, <1>4, <1>5, <1>6

\* The share of a bill is no more than what is outstanding of it, nor than what
\* is left of a payment that goes to the first due first.
LEMMA ShareFits ==
  ASSUME PayablesInv, NEW v, TxFits(v), v.kind = "payment", NEW b \in v.todo
  PROVE  /\ b \in Bill /\ Share(v, b) \in Nat
         /\ Share(v, b) > 0 => Settled(b) + Share(v, b) <= Due[b]
         /\ Fifo(v) => Spent(v) + Share(v, b) <= v.entry.amount
<1>1. v \in Transaction /\ v.entry \in Entries /\ b \in Bill /\ v.alloc[b] = 0
  BY DEF TxFits, Staged, PaymentFits, Transaction
<1>2. /\ Settled(b) \in Nat /\ Due[b] \in Nat /\ PaidIn(paid, b) \in Nat /\ CreditedIn(credited, b) \in Nat
  BY <1>1, BalancesNatural DEF PayablesInv
<1>3. /\ SeenPaid(v, b) + SeenCredited(v, b) = Settled(b)
  <2>1. Paid(b) = PaidIn(paid, b) /\ Credited(b) = CreditedIn(credited, b)
    BY DEF Paid, PaidIn, Credited, CreditedIn, SumOver
  <2> QED
    BY <1>1, <1>2, <2>1 DEF SeenPaid, SeenCredited, Deleted, Settled
<1>4. Due[b] - SeenPaid(v, b) - SeenCredited(v, b) = Due[b] - Settled(b)
  <2>1. SeenPaid(v, b) \in Int /\ SeenCredited(v, b) \in Int
    <3>1. Paid(b) = PaidIn(paid, b) /\ Credited(b) = CreditedIn(credited, b)
      BY DEF Paid, PaidIn, Credited, CreditedIn, SumOver
    <3> QED
      BY <1>1, <1>2, <3>1 DEF SeenPaid, SeenCredited, Deleted
  <2> QED
    BY <1>2, <1>3, <2>1
<1>5. Remaining(v, b) = AtLeastZero(Due[b] - Settled(b))
  BY <1>4 DEF Remaining
<1>6. Remaining(v, b) \in Nat /\ (Remaining(v, b) > 0 => Settled(b) + Remaining(v, b) <= Due[b])
  BY <1>2, <1>5 DEF AtLeastZero
<1>7. CASE Fifo(v)
  <2>1. Spent(v) \in Nat /\ Spent(v) <= v.entry.amount /\ v.entry.amount \in Nat
    BY <1>1, <1>7, SpentSum, PayablesAssumption DEF TxFits, PaymentFits
  <2>2. PICK left \in Nat : left = v.entry.amount - Spent(v)
    BY <2>1
  <2>3. Share(v, b) = Min({left, Remaining(v, b)})
    BY <1>7, <2>2 DEF Share
  <2>4. Share(v, b) \in Nat /\ Share(v, b) <= left /\ Share(v, b) <= Remaining(v, b)
    BY <1>6, <2>3, LessOfTwo
  <2> QED
    BY <1>1, <1>2, <1>6, <2>1, <2>2, <2>4
<1>8. CASE ~Fifo(v)
  <2>1. v.entry.asked[b] \in Nat
    BY <1>1, PayablesAssumption
  <2>2. Share(v, b) \in Nat /\ Share(v, b) <= Remaining(v, b)
    BY <1>6, <1>8, <2>1, LessOfTwo DEF Share
  <2> QED
    BY <1>1, <1>2, <1>6, <1>8, <2>2
<1> QED
  BY <1>7, <1>8

LEMMA AllocateKeeps ==
  ASSUME PayablesInv, NEW s \in Connection, Allocate(s)
  PROVE  PayablesInv'
<1>1. PICK v, b, n : v = tx[s] /\ b = Min(v.todo) /\ n = Share(v, b)
  OBVIOUS
<1>2. v \in Transaction /\ TxFits(v) /\ v.at = "pay" /\ v.kind = "payment"
  BY <1>1, Working, StageKind DEF Allocate, AtStage, TxFits
<1>3. v.todo # {} /\ v.todo \subseteq Bill /\ Bill \subseteq Nat
  BY <1>1, <1>2, PayablesAssumption DEF Allocate, Done, Transaction
<1>4. b \in v.todo /\ b \in Bill /\ n \in Nat
      /\ (n > 0 => Settled(b) + n <= Due[b])
      /\ (Fifo(v) => Spent(v) + n <= v.entry.amount)
  <2>1. b \in v.todo
    BY <1>1, <1>3, LeastIn
  <2> QED
    BY <1>1, <1>2, <2>1, ShareFits
<1>5. CASE TooMuch(v, b)
  BY <1>1, <1>5, RollbackKeeps DEF Allocate
<1>6. CASE ~TooMuch(v, b)
  <2>1. PICK paying : paying = [v EXCEPT !.alloc[b] = n, !.used = @ \cup {Row("bill", b)},
                                          !.todo = @ \ {b}]
    OBVIOUS
  <2>2. PICK w : w = IF b \in Invoice THEN [paying EXCEPT !.at = "assess", !.bill = b] ELSE paying
    OBVIOUS
  <2>3. Step(s, w)
    BY <1>1, <1>6, <2>1, <2>2 DEF Allocate
  <2>4. /\ paying \in Transaction /\ paying.at = "pay" /\ paying.kind = "payment"
        /\ paying.entry = v.entry /\ paying.payment = v.payment
        /\ paying.alloc = [v.alloc EXCEPT ![b] = n] /\ paying.used = v.used \cup {Row("bill", b)}
        /\ paying.todo = v.todo \ {b} /\ paying.marks = v.marks /\ paying.held = v.held
        /\ paying.numbered = v.numbered
    <3>1. Row("bill", b) \in PayableRows
      BY <1>4 DEF PayableRows, Row
    <3>2. /\ [v.alloc EXCEPT ![b] = n] \in [Bill -> Nat] /\ v.todo \ {b} \in SUBSET Bill
          /\ v.used \cup {Row("bill", b)} \in SUBSET PayableRows
      BY <1>2, <1>4, <3>1 DEF Transaction
    <3>3. paying = [v EXCEPT !.alloc = [v.alloc EXCEPT ![b] = n],
                             !.used = v.used \cup {Row("bill", b)}, !.todo = v.todo \ {b}]
      BY <1>2, <2>1 DEF Transaction
    <3>4. paying \in Transaction
      BY <1>2, <3>2, <3>3 DEF Transaction
    <3> QED
      BY <1>2, <3>3, <3>4 DEF Transaction
  <2>5. /\ w \in Transaction /\ w.kind = "payment" /\ w.entry = v.entry /\ w.payment = v.payment
        /\ w.alloc = [v.alloc EXCEPT ![b] = n] /\ w.used = v.used \cup {Row("bill", b)}
        /\ w.todo = v.todo \ {b} /\ w.marks = v.marks /\ w.held = v.held
        /\ w.numbered = v.numbered
        /\ \/ b \in Invoice /\ w.at = "assess" /\ w.bill = b
           \/ b \notin Invoice /\ w.at = "pay"
    <3>1. CASE b \in Invoice
      <4>1. w \in Transaction
        BY <1>4, <2>2, <2>4, <3>1 DEF Transaction, AllStages
      <4> QED
        BY <2>2, <2>4, <3>1, <4>1 DEF Transaction
    <3>2. CASE b \notin Invoice
      BY <2>2, <2>4, <3>2
    <3> QED
      BY <3>1, <3>2
  <2>6. \A x \in Bill : w.alloc[x] = IF x = b THEN n ELSE v.alloc[x]
    BY <1>2, <2>5 DEF Transaction
  <2>7. v.alloc[b] = 0 /\ b \notin DOMAIN v.marks /\ v.payment \in Payment
    BY <1>2, <1>4 DEF TxFits, PaymentFits, Staged
  <2>8. Staged(w) /\ Untouched(w) /\ Guarded(w)
    <3>1. NumberRows(w) \subseteq v.held
      BY <1>2, <2>5, SameNumbers DEF TxFits, Guarded
    <3>2. v.entry \in Entries
      BY <1>2 DEF TxFits, Staged
    <3>3. Staged(w)
      BY <2>5, <2>7, <3>2 DEF Staged, TxStages
    <3> QED
      BY <2>5, <3>1, <3>3 DEF Untouched, Guarded
  <2>9. AllocFits(w)
    BY <1>2, <1>4, <2>5, <2>6 DEF TxFits, AllocFits
  <2>10. MarksTell(w)
    <3>1. \A x \in DOMAIN w.marks : x \in Bill /\ x # b
      BY <2>5, <2>7, MarksOnInvoices, PayablesAssumption
    <3>2. \A x \in DOMAIN w.marks : Expected(w, x) = Expected(v, x)
      BY <1>2, <2>5, <2>6, <3>1 DEF Expected, Deleted
    <3> QED
      BY <1>2, <2>5, <3>2 DEF TxFits, MarksTell
  <2>11. VerdictTells(w) /\ DeletedMarked(w) /\ ReversalFits(w) /\ CreditFits(w)
    BY <2>5 DEF VerdictTells, DeletedMarked, ReversalFits, CreditFits
  <2>12. AllocMarked(w)
    <3> SUFFICES ASSUME NEW x \in Invoice, w.alloc[x] > 0
                 PROVE  x \in DOMAIN w.marks \/ Assessing(w, x)
      BY DEF AllocMarked
    <3>1. CASE x = b
      BY <2>5, <3>1 DEF Assessing
    <3>2. CASE x # b
      <4>1. v.alloc[x] > 0
        BY <2>6, <3>2, PayablesAssumption
      <4>2. x \in DOMAIN v.marks
        BY <1>2, <4>1 DEF TxFits, AllocMarked, Assessing
      <4> QED
        BY <2>5, <4>2
    <3> QED
      BY <3>1, <3>2
  <2>13. PaymentFits(w)
    <3>1. payments[w.payment].amount = 0
      BY <1>2, <2>5 DEF TxFits, PaymentFits
    <3>2. Spent(w) = Spent(v) + n
      BY <1>2, <1>4, <2>5, <2>7, SpentMore
    <3>3. Fifo(w) <=> Fifo(v)
      BY <2>5 DEF Fifo
    <3>4. \A x \in w.todo : x \in Bill /\ x # b /\ w.alloc[x] = 0 /\ x \notin DOMAIN w.marks
      BY <1>2, <1>3, <2>5, <2>6 DEF TxFits, PaymentFits
    <3> QED
      BY <1>4, <2>5, <3>1, <3>2, <3>3, <3>4 DEF PaymentFits
  <2>14. TxFits(w)
    BY <2>8, <2>9, <2>10, <2>11, <2>12, <2>13 DEF TxFits
  <2>15. \A o \in Connection : o # s => w.held \cap tx[o].held = {}
    BY <1>1, <2>5 DEF PayablesInv, HeldApart
  <2>16. TakesOwn(s, w)
    BY <1>1, <1>2, <2>5 DEF TakesOwn, Paying
  <2> QED
    BY <2>3, <2>14, <2>15, <2>16, StepKeeps
<1> QED
  BY <1>5, <1>6

\* The status that recalculate_status computes is the one expected.
LEMMA SeenSettled ==
  ASSUME TablesTyped, NEW v, TxFits(v), NEW b \in Bill
  PROVE  SeenPaid(v, b) + SeenCredited(v, b) = Settled(b) - Deleted(v, b) + v.alloc[b]
<1>1. v \in Transaction /\ v.alloc[b] \in Nat
  BY SpentSum DEF TxFits, Staged
<1>2. PICK p \in Nat, c \in Nat : p = Paid(b) /\ c = Credited(b)
  <2>1. Paid(b) = PaidIn(paid, b) /\ Credited(b) = CreditedIn(credited, b)
    BY DEF Paid, PaidIn, Credited, CreditedIn, SumOver
  <2> QED
    BY <2>1, BalancesNatural
<1>3. Deleted(v, b) \in Nat
  BY DEF TxFits, Staged, Deleted, TablesTyped
<1>4. PICK d \in Nat, n \in Nat : d = Deleted(v, b) /\ n = v.alloc[b]
  BY <1>1, <1>3
<1>5. v.kind \in {"payment", "apply"} \/ n = 0
  <2>1. v.kind \in {"payment", "apply"} \/ v.alloc = Zero
    BY StageKind DEF TxFits, Staged, Untouched, Transaction, TxKinds
  <2> QED
    BY <1>4, <2>1 DEF Zero
<1>6. SeenPaid(v, b) = p - d + (IF v.kind = "payment" THEN n ELSE 0)
  BY <1>2, <1>4 DEF SeenPaid
<1>7. SeenCredited(v, b) = c + (IF v.kind = "apply" THEN n ELSE 0)
  BY <1>2, <1>4 DEF SeenCredited
<1> QED
  BY <1>2, <1>4, <1>5, <1>6, <1>7 DEF Settled

LEMMA AssessKeeps ==
  ASSUME PayablesInv, NEW s \in Connection, Assess(s)
  PROVE  PayablesInv'
<1>1. PICK v : v = tx[s]
  OBVIOUS
<1>2. v \in Transaction /\ TxFits(v) /\ Staged(v) /\ v.at = "assess"
      /\ v.kind \in {"payment", "reversal", "apply"} /\ v.bill \in Invoice /\ v.bill \in Bill
  BY <1>1, Working, StageKind, PayablesAssumption DEF Assess, AtStage, TxFits, Staged
<1>3. PICK seen : seen = StatusFor(Due[v.bill], SeenPaid(v, v.bill) + SeenCredited(v, v.bill))
  OBVIOUS
<1>4. PICK w : w = [v EXCEPT !.at = "mark", !.used = @ \cup {Row("bill", v.bill)}, !.verdict = seen]
  OBVIOUS
<1>5. Step(s, w)
  BY <1>1, <1>3, <1>4 DEF Assess
<1>6. seen \in Verdicts
  BY <1>3 DEF StatusFor, Verdicts
<1>7. /\ w \in Transaction /\ w.at = "mark" /\ w.verdict = seen
      /\ w.used = v.used \cup {Row("bill", v.bill)} /\ w.kind = v.kind /\ w.entry = v.entry
      /\ w.payment = v.payment /\ w.credit = v.credit /\ w.amount = v.amount /\ w.copy = v.copy
      /\ w.total = v.total /\ w.todo = v.todo /\ w.bill = v.bill /\ w.alloc = v.alloc
      /\ w.marks = v.marks /\ w.held = v.held /\ w.numbered = v.numbered
  <2>1. v.used \cup {Row("bill", v.bill)} \in SUBSET PayableRows
    BY <1>2 DEF Transaction, PayableRows, Row
  <2>2. w \in Transaction
    BY <1>2, <1>4, <1>6, <2>1 DEF Transaction, AllStages
  <2> QED
    BY <1>2, <1>4, <2>2 DEF Transaction
<1>8. Staged(w) /\ Untouched(w) /\ Guarded(w)
  <2>1. Untouched(v) /\ Guarded(v)
    BY <1>2 DEF TxFits
  <2>2. w.at \in TxStages[w.kind]
    BY <1>2, <1>7 DEF TxStages
  <2>3. NumberRows(w) = NumberRows(v)
    BY <1>7, SameNumbers
  <2> QED
    BY <1>2, <1>7, <2>1, <2>2, <2>3 DEF Staged, Untouched, Guarded
<1>9. AllocFits(w) /\ MarksTell(w) /\ \A b \in Bill : Expected(w, b) = Expected(v, b)
  BY <1>2, <1>7, SameFits
<1>10. VerdictTells(w)
  <2>1. seen = Expected(v, v.bill)
    BY <1>2, <1>3, SeenSettled DEF PayablesInv, Expected
  <2> QED
    BY <1>2, <1>6, <1>7, <1>9, <2>1 DEF VerdictTells
<1>11. AllocMarked(w) /\ DeletedMarked(w) /\ ReversalFits(w) /\ CreditFits(w)
  BY <1>2, <1>7 DEF TxFits, AllocMarked, DeletedMarked, ReversalFits, CreditFits, Assessing
<1>12. PaymentFits(w)
  <2>1. Spent(w) = Spent(v) /\ (Fifo(w) <=> Fifo(v))
    BY <1>7 DEF Spent, Fifo, SumOver
  <2> QED
    BY <1>2, <1>7, <2>1 DEF TxFits, PaymentFits
<1>13. TxFits(w)
  BY <1>8, <1>9, <1>10, <1>11, <1>12 DEF TxFits
<1>14. \A o \in Connection : o # s => w.held \cap tx[o].held = {}
  BY <1>1, <1>7 DEF PayablesInv, HeldApart
<1>15. TakesOwn(s, w)
  BY <1>1, <1>2, <1>7 DEF TakesOwn, Paying
<1> QED
  BY <1>5, <1>13, <1>14, <1>15, StepKeeps

LEMMA MarkKeeps ==
  ASSUME PayablesInv, NEW s \in Connection, Mark(s)
  PROVE  PayablesInv'
<1>1. PICK v : v = tx[s]
  OBVIOUS
<1>2. v \in Transaction /\ TxFits(v) /\ Staged(v) /\ v.at = "mark"
      /\ v.kind \in {"payment", "reversal", "apply"} /\ v.bill \in Invoice /\ v.bill \in Bill
  BY <1>1, Working, StageKind, PayablesAssumption DEF Mark, AtStage, TxFits, Staged
<1>3. PICK marks : marks = [b \in DOMAIN v.marks \cup {v.bill} |->
                              IF b = v.bill THEN v.verdict ELSE v.marks[b]]
  OBVIOUS
<1>4. PICK next, rows, w :
        /\ next = IF v.kind = "payment" THEN "pay" ELSE "finish"
        /\ rows = v.held \cup {Row("bill", v.bill)}
        /\ w = [v EXCEPT !.at = next, !.held = rows, !.marks = marks]
  OBVIOUS
<1>5. Step(s, w) /\ Free(s, Row("bill", v.bill))
  BY <1>1, <1>3, <1>4 DEF Mark
<1>6. /\ w \in Transaction /\ w.at = (IF v.kind = "payment" THEN "pay" ELSE "finish")
      /\ w.held = v.held \cup {Row("bill", v.bill)} /\ w.kind = v.kind /\ w.entry = v.entry
      /\ w.payment = v.payment /\ w.credit = v.credit /\ w.amount = v.amount /\ w.copy = v.copy
      /\ w.total = v.total /\ w.todo = v.todo /\ w.bill = v.bill /\ w.alloc = v.alloc
      /\ w.marks = marks /\ w.used = v.used /\ w.numbered = v.numbered
  <2>1. rows \in SUBSET PayableRows /\ next \in AllStages
    BY <1>2, <1>4 DEF Transaction, PayableRows, Row, AllStages
  <2>2. marks \in MarkTables
    <3>1. DOMAIN v.marks \subseteq Invoice /\ \A b \in DOMAIN v.marks : v.marks[b] \in Verdicts
      BY <1>2, MarksOnInvoices
    <3>2. v.verdict \in Verdicts
      BY <1>2 DEF TxFits, VerdictTells
    <3>3. marks \in [DOMAIN v.marks \cup {v.bill} -> Verdicts]
      BY <1>3, <3>1, <3>2
    <3>4. DOMAIN v.marks \cup {v.bill} \in SUBSET Invoice
      BY <1>2, <3>1
    <3> QED
      BY <3>3, <3>4 DEF MarkTables
  <2>3. w \in Transaction
    BY ZenonT(60), <1>2, <1>4, <2>1, <2>2 DEF Transaction
  <2> QED
    BY <1>2, <1>4, <2>3 DEF Transaction
<1>7. /\ DOMAIN w.marks = DOMAIN v.marks \cup {v.bill}
      /\ \A b \in DOMAIN w.marks : w.marks[b] = IF b = v.bill THEN v.verdict ELSE v.marks[b]
  BY <1>3, <1>6
<1>8. Staged(w) /\ Untouched(w) /\ Guarded(w)
  <2>1. Untouched(v) /\ Guarded(v)
    BY <1>2 DEF TxFits
  <2>2. w.at \in TxStages[w.kind]
    BY <1>2, <1>6 DEF TxStages
  <2>3. NumberRows(w) = NumberRows(v)
    BY <1>6, SameNumbers
  <2> QED
    BY <1>2, <1>6, <2>1, <2>2, <2>3 DEF Staged, Untouched, Guarded
<1>9. \A b \in Bill : Expected(w, b) = Expected(v, b)
  BY <1>2, <1>6 DEF Expected, Deleted
<1>10. AllocFits(w)
  BY <1>2, <1>6 DEF TxFits, AllocFits
<1>11. MarksTell(w)
  <2>1. DOMAIN v.marks \subseteq Bill
    BY <1>2, MarksOnInvoices, PayablesAssumption
  <2> QED
    BY <1>2, <1>6, <1>7, <1>9, <2>1 DEF TxFits, MarksTell, VerdictTells
<1>12. VerdictTells(w) /\ ReversalFits(w)
  BY <1>2, <1>6 DEF TxFits, VerdictTells, ReversalFits
<1>13. AllocMarked(w) /\ DeletedMarked(w)
  BY <1>2, <1>6, <1>7 DEF TxFits, AllocMarked, DeletedMarked, Assessing
<1>14. CreditFits(w)
  BY <1>2, <1>6 DEF TxFits, CreditFits
<1>15. PaymentFits(w)
  <2>1. Spent(w) = Spent(v) /\ (Fifo(w) <=> Fifo(v))
    BY <1>6 DEF Spent, Fifo, SumOver
  <2> QED
    BY <1>2, <1>6, <1>7, <2>1 DEF TxFits, PaymentFits
<1>16. TxFits(w)
  BY <1>8, <1>10, <1>11, <1>12, <1>13, <1>14, <1>15 DEF TxFits
<1>17. \A o \in Connection : o # s => w.held \cap tx[o].held = {}
  BY <1>1, <1>5, <1>6 DEF PayablesInv, HeldApart, Free
<1>18. TakesOwn(s, w)
  BY <1>1, <1>2, <1>6 DEF TakesOwn, Paying
<1> QED
  BY <1>5, <1>16, <1>17, <1>18, StepKeeps

LEMMA ReadPaymentKeeps ==
  ASSUME PayablesInv, NEW s \in Connection, NEW p \in Payment, ReadPayment(s, p)
  PROVE  PayablesInv'
<1>1. PICK w : w = [NoTx EXCEPT !.at = "list", !.kind = "reversal", !.payment = p]
  OBVIOUS
<1>2. /\ w \in Transaction /\ w.at = "list" /\ w.kind = "reversal" /\ w.payment = p
      /\ w.alloc = Zero /\ w.used = {} /\ w.held = {} /\ DOMAIN w.marks = {}
      /\ w.numbered = {} /\ NumberRows(w) = {}
  <2>1. w \in Transaction
    BY <1>1, EmptyFits DEF Transaction, AllStages, TxKinds
  <2> QED
    BY <1>1, <2>1 DEF NoTx, NumberRows
<1>3. Step(s, w) /\ payments[p].amount > 0
  BY <1>1 DEF ReadPayment
<1>4. Untouched(w) /\ AllocFits(w) /\ MarksTell(w) /\ VerdictTells(w) /\ AllocMarked(w)
  BY <1>2, BlankFits
<1>5. /\ Staged(w) /\ Guarded(w) /\ DeletedMarked(w) /\ PaymentFits(w)
      /\ ReversalFits(w) /\ CreditFits(w)
  BY <1>2, <1>3 DEF Staged, Guarded, DeletedMarked, PaymentFits, ReversalFits, CreditFits, TxStages
<1>6. TxFits(w)
  BY <1>4, <1>5 DEF TxFits
<1>7. TakesOwn(s, w)
  BY <1>2 DEF TakesOwn, Paying
<1> QED
  BY <1>2, <1>3, <1>6, <1>7, StepKeeps

LEMMA ListAllocationsKeeps ==
  ASSUME PayablesInv, NEW s \in Connection, ListAllocations(s)
  PROVE  PayablesInv'
<1>1. PICK v : v = tx[s]
  OBVIOUS
<1>2. v \in Transaction /\ TxFits(v) /\ Staged(v) /\ v.at = "list" /\ v.kind = "reversal"
  BY <1>1, Working, StageKind DEF ListAllocations, AtStage, TxFits
<1>3. v.payment \in Payment /\ v.alloc = Zero /\ v.used = {} /\ DOMAIN v.marks = {}
      /\ v.numbered = {}
  BY <1>2 DEF TxFits, Staged, Untouched, Guarded
<1>4. PICK w : w = [v EXCEPT !.at = "delete", !.todo = Reopens(v)]
  OBVIOUS
<1>5. Step(s, w)
  BY <1>1, <1>4 DEF ListAllocations
<1>6. /\ w \in Transaction /\ w.at = "delete" /\ w.kind = "reversal" /\ w.payment = v.payment
      /\ w.todo = Reopens(v) /\ w.alloc = Zero /\ w.used = {} /\ w.held = v.held /\ w.marks = v.marks
      /\ w.numbered = {} /\ NumberRows(w) = {}
  <2>1. Reopens(v) \in SUBSET Bill
    BY PayablesAssumption DEF Reopens
  <2>2. w \in Transaction
    BY <1>2, <1>4, <2>1 DEF Transaction, AllStages
  <2> QED
    BY <1>2, <1>3, <1>4, <2>2 DEF Transaction, NumberRows
<1>7. Untouched(w) /\ AllocFits(w) /\ MarksTell(w) /\ VerdictTells(w) /\ AllocMarked(w)
  BY <1>3, <1>6, BlankFits
<1>8. Staged(w) /\ Guarded(w) /\ PaymentFits(w) /\ CreditFits(w)
  BY <1>3, <1>6 DEF Staged, Guarded, PaymentFits, CreditFits, TxStages
<1>9. DeletedMarked(w) /\ ReversalFits(w)
  BY <1>2, <1>6 DEF DeletedMarked, ReversalFits, Reopens, TxFits
<1>10. TxFits(w)
  BY <1>7, <1>8, <1>9 DEF TxFits
<1>11. \A o \in Connection : o # s => w.held \cap tx[o].held = {}
  BY <1>1, <1>6 DEF PayablesInv, HeldApart
<1>12. TakesOwn(s, w)
  BY <1>6 DEF TakesOwn, Paying
<1> QED
  BY <1>5, <1>10, <1>11, <1>12, StepKeeps

LEMMA DeleteAllocationsKeeps ==
  ASSUME PayablesInv, NEW s \in Connection, DeleteAllocations(s)
  PROVE  PayablesInv'
<1>1. PICK v : v = tx[s]
  OBVIOUS
<1>2. v \in Transaction /\ TxFits(v) /\ Staged(v) /\ v.at = "delete" /\ v.kind = "reversal"
  BY <1>1, Working, StageKind DEF DeleteAllocations, AtStage, TxFits
<1>3. v.payment \in Payment /\ v.alloc = Zero /\ DOMAIN v.marks = {} /\ v.numbered = {}
  BY <1>2 DEF TxFits, Staged, Untouched, Guarded
<1>4. PICK row, rows : /\ row = Row("allocations", v.payment)
                       /\ rows = {Row("bill", b) : b \in {b \in Bill : paid[v.payment][b] > 0}}
  OBVIOUS
<1>5. PICK w : w = [v EXCEPT !.at = "finish", !.held = {row}, !.used = rows]
  OBVIOUS
<1>6. Step(s, w) /\ Free(s, row)
  BY <1>1, <1>4, <1>5 DEF DeleteAllocations
<1>7. /\ w \in Transaction /\ w.at = "finish" /\ w.kind = "reversal" /\ w.payment = v.payment
      /\ w.todo = v.todo /\ w.alloc = Zero /\ w.used = rows /\ w.held = {row} /\ w.marks = v.marks
      /\ w.numbered = {} /\ NumberRows(w) = {}
  <2>1. {row} \in SUBSET PayableRows /\ rows \in SUBSET PayableRows
    BY <1>3, <1>4 DEF PayableRows, Row
  <2>2. w \in Transaction
    BY <1>2, <1>5, <2>1 DEF Transaction, AllStages
  <2> QED
    BY <1>2, <1>3, <1>5, <2>2 DEF Transaction, NumberRows
<1>8. Staged(w) /\ Untouched(w) /\ Guarded(w) /\ PaymentFits(w) /\ CreditFits(w) /\ ReversalFits(w)
  BY <1>2, <1>3, <1>4, <1>7
  DEF Staged, Untouched, Guarded, PaymentFits, CreditFits, ReversalFits, TxStages, TxFits
<1>9. AllocFits(w) /\ MarksTell(w) /\ VerdictTells(w) /\ AllocMarked(w)
  <2>1. \A b \in Bill : w.alloc[b] = 0
    BY <1>7 DEF Zero
  <2> QED
    BY <1>3, <1>7, <2>1, PayablesAssumption DEF AllocFits, MarksTell, VerdictTells, AllocMarked
<1>10. DeletedMarked(w)
  <2> SUFFICES ASSUME NEW b \in Bill, paid[v.payment][b] > 0
               PROVE  (b \in Invoice => b \in v.todo) /\ Row("bill", b) \in rows
    BY <1>7 DEF DeletedMarked
  <2>1. b \in Invoice => b \in v.todo
    BY <1>2, <1>3 DEF TxFits, DeletedMarked, Assessing
  <2> QED
    BY <1>4, <2>1
<1>11. TxFits(w)
  BY <1>8, <1>9, <1>10 DEF TxFits
<1>12. \A o \in Connection : o # s => w.held \cap tx[o].held = {}
  BY <1>6, <1>7 DEF Free
<1>13. TakesOwn(s, w)
  BY <1>7 DEF TakesOwn, Paying
<1> QED
  BY <1>6, <1>11, <1>12, <1>13, StepKeeps

LEMMA ReopenKeeps ==
  ASSUME PayablesInv, NEW s \in Connection, NEW b \in Invoice, Reopen(s, b)
  PROVE  PayablesInv'
<1>1. PICK v : v = tx[s]
  OBVIOUS
<1>2. v \in Transaction /\ TxFits(v) /\ Staged(v) /\ v.at = "finish" /\ b \in v.todo
  BY <1>1, Working DEF Reopen, AtStage, TxFits
<1>3. v.kind = "reversal" /\ v.payment \in Payment /\ v.numbered = {}
  BY <1>2, StageKind DEF TxFits, CreditFits, Staged, Guarded
<1>4. PICK w : w = [v EXCEPT !.at = "assess", !.bill = b, !.todo = @ \ {b}]
  OBVIOUS
<1>5. Step(s, w)
  BY <1>1, <1>4 DEF Reopen
<1>6. /\ w \in Transaction /\ w.at = "assess" /\ w.kind = "reversal" /\ w.payment = v.payment
      /\ w.todo = v.todo \ {b} /\ w.bill = b /\ w.alloc = v.alloc /\ w.used = v.used
      /\ w.held = v.held /\ w.marks = v.marks /\ w.numbered = {} /\ NumberRows(w) = {}
  <2>1. b \in Bill /\ v.todo \ {b} \in SUBSET Bill
    BY <1>2, PayablesAssumption DEF Transaction
  <2>2. w \in Transaction
    BY <1>2, <1>4, <2>1 DEF Transaction, AllStages
  <2> QED
    BY <1>2, <1>3, <1>4, <2>2 DEF Transaction, NumberRows
<1>7. /\ Staged(w) /\ Untouched(w) /\ Guarded(w) /\ VerdictTells(w) /\ PaymentFits(w)
      /\ CreditFits(w) /\ ReversalFits(w)
  BY <1>2, <1>3, <1>6
  DEF Staged, Untouched, Guarded, VerdictTells, PaymentFits, CreditFits, ReversalFits, TxStages, TxFits
<1>8. AllocFits(w) /\ MarksTell(w)
  BY <1>2, <1>3, <1>6, SameFits
<1>9. AllocMarked(w) /\ DeletedMarked(w)
  BY <1>2, <1>3, <1>6 DEF TxFits, AllocMarked, DeletedMarked, Assessing
<1>10. TxFits(w)
  BY <1>7, <1>8, <1>9 DEF TxFits
<1>11. \A o \in Connection : o # s => w.held \cap tx[o].held = {}
  BY <1>1, <1>6 DEF PayablesInv, HeldApart
<1>12. TakesOwn(s, w)
  BY <1>6 DEF TakesOwn, Paying
<1> QED
  BY <1>5, <1>10, <1>11, <1>12, StepKeeps

LEMMA ReadCreditKeeps ==
  ASSUME PayablesInv, NEW s \in Connection, NEW kind \in {"apply", "refund"}, NEW c \in Credit,
         NEW b \in Invoice \cup {0}, kind = "apply" => b \in Invoice,
         NEW use \in Uses, ReadCredit(s, kind, c, b, use)
  PROVE  PayablesInv'
<1>1. PICK first, w :
        /\ first = IF kind = "apply" THEN "apply" ELSE "number"
        /\ w = [NoTx EXCEPT !.at = first, !.kind = kind, !.credit = c, !.bill = b,
                  !.amount = use.amount, !.year = use.year, !.copy = allocated[c]]
  OBVIOUS
<1>2. allocated[c] \in Nat /\ use.amount \in Nat /\ use.amount > 0 /\ use.year \in Year
      /\ CreditAmount[c] \in Nat /\ b \in Bill \cup {0}
  BY PayablesAssumption DEF PayablesInv, TablesTyped
<1>3. /\ w \in Transaction /\ w.at = first /\ w.kind = kind /\ w.credit = c /\ w.bill = b
      /\ w.amount = use.amount /\ w.year = use.year /\ w.copy = allocated[c] /\ w.todo = {}
      /\ w.alloc = Zero /\ w.used = {} /\ w.held = {} /\ DOMAIN w.marks = {}
      /\ w.numbered = {} /\ NumberRows(w) = {}
  <2>1. first \in AllStages /\ kind \in TxKinds
    BY <1>1 DEF AllStages, TxKinds
  <2>2. w \in Transaction
    <3>1. PICK n, y, k : n = use.amount /\ y = use.year /\ k = allocated[c]
      OBVIOUS
    <3>2. n \in Nat /\ y \in Year /\ k \in Nat
      BY <1>2, <3>1
    <3>3. w = [NoTx EXCEPT !.at = first, !.kind = kind, !.credit = c, !.bill = b,
                !.amount = n, !.year = y, !.copy = k]
      BY <1>1, <3>1
    <3> QED
      BY ZenonT(60), <1>2, <2>1, <3>2, <3>3, EmptyFits DEF Transaction
  <2> QED
    BY <1>1, <2>2 DEF NoTx, NumberRows
<1>4. Step(s, w) /\ use.amount <= AtLeastZero(CreditAmount[c] - allocated[c])
  BY <1>1 DEF ReadCredit
<1>5. Untouched(w) /\ AllocFits(w) /\ MarksTell(w) /\ VerdictTells(w) /\ AllocMarked(w)
  BY <1>1, <1>3, BlankFits
<1>6. Staged(w) /\ Guarded(w) /\ DeletedMarked(w) /\ PaymentFits(w) /\ ReversalFits(w)
  <2>1. w.at \in TxStages[w.kind]
    BY <1>1, <1>3 DEF TxStages
  <2>2. Staged(w)
    BY <1>1, <1>2, <1>3, <2>1 DEF Staged
  <2> QED
    BY <1>1, <1>3, <2>2 DEF Guarded, DeletedMarked, PaymentFits, ReversalFits
<1>7. CreditFits(w)
  <2>1. allocated[c] + use.amount <= CreditAmount[c]
    BY <1>2, <1>4 DEF AtLeastZero
  <2> QED
    BY <1>1, <1>3, <2>1 DEF CreditFits
<1>8. TxFits(w)
  BY <1>5, <1>6, <1>7 DEF TxFits
<1>9. TakesOwn(s, w)
  BY <1>3 DEF TakesOwn, Paying
<1> QED
  BY <1>3, <1>4, <1>8, <1>9, StepKeeps

LEMMA ApplyKeeps ==
  ASSUME PayablesInv, NEW s \in Connection, Apply(s)
  PROVE  PayablesInv'
<1>1. PICK v, b : v = tx[s] /\ b = v.bill
  OBVIOUS
<1>2. v \in Transaction /\ TxFits(v) /\ Staged(v) /\ v.at = "apply" /\ v.kind = "apply"
      /\ b \in Invoice /\ b \in Bill /\ v.credit \in Credit /\ v.amount \in Nat /\ v.amount > 0
  BY <1>1, Working, StageKind, PayablesAssumption DEF Apply, AtStage, TxFits, Staged, Transaction
<1>3. v.alloc = Zero /\ v.used = {} /\ DOMAIN v.marks = {} /\ v.numbered = {}
  BY <1>2 DEF TxFits, Untouched, Guarded
<1>4. CASE v.amount > Remaining(v, b)
  BY <1>1, <1>4, RollbackKeeps DEF Apply
<1>5. CASE ~(v.amount > Remaining(v, b))
  <2>1. PICK w : w = [v EXCEPT !.at = "total", !.alloc[b] = v.amount, !.used = {Row("bill", b)}]
    OBVIOUS
  <2>2. Step(s, w)
    BY <1>1, <1>5, <2>1 DEF Apply
  <2>3. /\ w \in Transaction /\ w.at = "total" /\ w.kind = "apply" /\ w.credit = v.credit
        /\ w.bill = b /\ w.amount = v.amount /\ w.copy = v.copy /\ w.todo = v.todo
        /\ w.alloc = [Zero EXCEPT ![b] = v.amount] /\ w.used = {Row("bill", b)}
        /\ w.held = v.held /\ w.marks = v.marks /\ w.numbered = {} /\ NumberRows(w) = {}
    <3>1. /\ [v.alloc EXCEPT ![b] = v.amount] \in [Bill -> Nat]
          /\ {Row("bill", b)} \in SUBSET PayableRows
      BY <1>2 DEF Transaction, PayableRows, Row
    <3>2. w = [v EXCEPT !.at = "total", !.alloc = [v.alloc EXCEPT ![b] = v.amount],
                        !.used = {Row("bill", b)}]
      BY <1>2, <2>1 DEF Transaction
    <3>3. w \in Transaction
      BY <1>2, <3>1, <3>2 DEF Transaction, AllStages
    <3> QED
      BY <1>1, <1>2, <1>3, <3>2, <3>3 DEF Transaction, NumberRows
  <2>4. \A x \in Bill : w.alloc[x] = IF x = b THEN v.amount ELSE 0
    BY <1>2, <2>3 DEF Zero
  <2>5. Settled(b) + v.amount <= Due[b]
    <3>1. Settled(b) \in Nat /\ Due[b] \in Nat
      BY <1>2, BalancesNatural DEF PayablesInv
    <3>2. SeenPaid(v, b) + SeenCredited(v, b) = Settled(b) - Deleted(v, b) + v.alloc[b]
      BY <1>2, SeenSettled DEF PayablesInv
    <3>3. Deleted(v, b) = 0 /\ v.alloc[b] = 0
      BY <1>2, <1>3 DEF Deleted, Zero
    <3>4. SeenPaid(v, b) \in Int /\ SeenCredited(v, b) \in Int
      <4>1. Paid(b) = PaidIn(paid, b) /\ Credited(b) = CreditedIn(credited, b)
        BY DEF Paid, PaidIn, Credited, CreditedIn, SumOver
      <4>2. PaidIn(paid, b) \in Nat /\ CreditedIn(credited, b) \in Nat
        BY <1>2, BalancesNatural DEF PayablesInv
      <4> QED
        BY <1>2, <3>3, <4>1, <4>2 DEF SeenPaid, SeenCredited
    <3>5. Remaining(v, b) = AtLeastZero(Due[b] - Settled(b))
      <4>1. Due[b] - SeenPaid(v, b) - SeenCredited(v, b) = Due[b] - Settled(b)
        BY <3>1, <3>2, <3>3, <3>4
      <4> QED
        BY <4>1 DEF Remaining
    <3> QED
      BY <1>2, <1>5, <3>1, <3>5 DEF AtLeastZero
  <2>6. Staged(w) /\ Untouched(w) /\ Guarded(w) /\ PaymentFits(w) /\ ReversalFits(w)
    BY <1>2, <2>3 DEF Staged, Untouched, Guarded, PaymentFits, ReversalFits, TxStages
  <2>7. AllocFits(w)
    BY <2>3, <2>4, <2>5 DEF AllocFits
  <2>8. MarksTell(w) /\ VerdictTells(w) /\ DeletedMarked(w)
    BY <1>3, <2>3 DEF MarksTell, VerdictTells, DeletedMarked
  <2>9. AllocMarked(w)
    BY <2>3, <2>4, PayablesAssumption DEF AllocMarked, Assessing
  <2>10. CreditFits(w)
    BY <1>2, <2>3 DEF TxFits, CreditFits
  <2>11. TxFits(w)
    BY <2>6, <2>7, <2>8, <2>9, <2>10 DEF TxFits
  <2>12. \A o \in Connection : o # s => w.held \cap tx[o].held = {}
    BY <1>1, <2>3 DEF PayablesInv, HeldApart
  <2>13. TakesOwn(s, w)
    BY <2>3 DEF TakesOwn, Paying
  <2> QED
    BY <2>2, <2>11, <2>12, <2>13, StepKeeps
<1> QED
  BY <1>4, <1>5

LEMMA RefundKeeps ==
  ASSUME PayablesInv, NEW s \in Connection, Refund(s)
  PROVE  PayablesInv'
<1>1. PICK v : v = tx[s]
  OBVIOUS
<1>2. v \in Transaction /\ TxFits(v) /\ Staged(v) /\ v.at = "wait" /\ v.kind = "refund"
      /\ v.credit \in Credit /\ v.amount > 0
  BY <1>1, Working, StageKind DEF Refund, AtStage, TxFits, Staged
<1>3. v.alloc = Zero /\ v.used = {} /\ DOMAIN v.marks = {}
  BY <1>2 DEF TxFits, Untouched
<1>4. PICK w : w = [v EXCEPT !.at = "total", !.held = NumberRows(v)]
  OBVIOUS
<1>5. Step(s, w) /\ NumberFree(s)
  BY <1>1, <1>4 DEF Refund
<1>6. /\ w \in Transaction /\ w.at = "total" /\ w.kind = "refund" /\ w.credit = v.credit
      /\ w.amount = v.amount /\ w.copy = v.copy /\ w.todo = v.todo /\ w.alloc = Zero
      /\ w.used = {} /\ w.held = NumberRows(v) /\ w.marks = v.marks /\ NumberRows(w) = NumberRows(v)
  <2>1. NumberRows(v) \in SUBSET PayableRows
    BY <1>2 DEF PayableRows, Row, NumberRows, Transaction
  <2>2. w \in Transaction
    BY <1>2, <1>4, <2>1 DEF Transaction, AllStages
  <2>3. w.numbered = v.numbered
    BY <1>2, <1>4 DEF Transaction
  <2> QED
    BY <1>2, <1>3, <1>4, <2>2, <2>3, SameNumbers DEF Transaction
<1>7. /\ Staged(w) /\ Untouched(w) /\ Guarded(w) /\ VerdictTells(w) /\ MarksTell(w)
      /\ DeletedMarked(w) /\ PaymentFits(w) /\ ReversalFits(w)
  BY <1>2, <1>3, <1>6 DEF Staged, Untouched, Guarded, VerdictTells, MarksTell, DeletedMarked,
     PaymentFits, ReversalFits, TxStages
<1>8. AllocFits(w) /\ AllocMarked(w)
  <2>1. \A b \in Bill : w.alloc[b] = 0
    BY <1>6 DEF Zero
  <2>2. Invoice \subseteq Bill
    BY PayablesAssumption
  <2>3. AllocFits(w)
    BY <2>1 DEF AllocFits
  <2> QED
    BY <2>1, <2>2, <2>3 DEF AllocMarked
<1>9. CreditFits(w)
  BY <1>2, <1>6 DEF TxFits, CreditFits
<1>10. TxFits(w)
  BY <1>7, <1>8, <1>9 DEF TxFits
<1>11. \A o \in Connection : o # s => w.held \cap tx[o].held = {}
  BY <1>1, <1>5, <1>6 DEF NumberFree, Free
<1>12. TakesOwn(s, w)
  BY <1>6 DEF TakesOwn, Paying
<1> QED
  BY <1>5, <1>10, <1>11, <1>12, StepKeeps

LEMMA TotalCreditKeeps ==
  ASSUME PayablesInv, NEW s \in Connection, TotalCredit(s)
  PROVE  PayablesInv'
<1>1. PICK v, n : v = tx[s] /\ n = Used(v.credit) + v.amount
  OBVIOUS
<1>2. v \in Transaction /\ TxFits(v) /\ Staged(v) /\ v.at = "total" /\ v.kind \in {"apply", "refund"}
      /\ v.credit \in Credit /\ v.amount \in Nat
  BY <1>1, Working, StageKind DEF TotalCredit, AtStage, TxFits, Staged, Transaction
<1>3. n \in Nat
  BY <1>1, <1>2, BalancesNatural DEF PayablesInv
<1>4. PICK w : w = [v EXCEPT !.at = "credit", !.total = n, !.used = @ \cup {Row("credit", v.credit)}]
  OBVIOUS
<1>5. Step(s, w)
  BY <1>1, <1>4 DEF TotalCredit
<1>6. /\ w \in Transaction /\ w.at = "credit" /\ w.kind = v.kind /\ w.credit = v.credit
      /\ w.amount = v.amount /\ w.copy = v.copy /\ w.todo = v.todo /\ w.alloc = v.alloc
      /\ w.bill = v.bill /\ w.total = n /\ w.payment = v.payment
      /\ w.used = v.used \cup {Row("credit", v.credit)} /\ w.held = v.held /\ w.marks = v.marks
      /\ w.numbered = v.numbered /\ NumberRows(w) = NumberRows(v)
  <2>1. v.used \cup {Row("credit", v.credit)} \in SUBSET PayableRows
    BY <1>2 DEF Transaction, PayableRows, Row
  <2>2. w \in Transaction
    BY <1>2, <1>3, <1>4, <2>1 DEF Transaction, AllStages
  <2> QED
    BY <1>2, <1>4, <2>2, SameNumbers DEF Transaction
<1>7. w.at \in TxStages[w.kind]
  BY <1>2, <1>6 DEF TxStages
<1>8. /\ Staged(w) /\ Untouched(w) /\ Guarded(w) /\ VerdictTells(w)
      /\ DeletedMarked(w) /\ PaymentFits(w) /\ ReversalFits(w)
  BY <1>2, <1>6, <1>7 DEF Staged, Untouched, Guarded, VerdictTells, DeletedMarked,
     PaymentFits, ReversalFits, TxFits
<1>9. AllocFits(w) /\ MarksTell(w)
  BY <1>2, <1>6, SameFits
<1>10. AllocMarked(w)
  BY <1>2, <1>6 DEF TxFits, AllocMarked, Assessing
<1>11. CreditFits(w)
  BY <1>1, <1>2, <1>6 DEF TxFits, CreditFits
<1>12. TxFits(w)
  BY <1>8, <1>9, <1>10, <1>11 DEF TxFits
<1>13. \A o \in Connection : o # s => w.held \cap tx[o].held = {}
  BY <1>1, <1>6 DEF PayablesInv, HeldApart
<1>14. TakesOwn(s, w)
  BY <1>2, <1>6 DEF TakesOwn, Paying
<1> QED
  BY <1>5, <1>12, <1>13, <1>14, StepKeeps

LEMMA MarkCreditKeeps ==
  ASSUME PayablesInv, NEW s \in Connection, MarkCredit(s)
  PROVE  PayablesInv'
<1>1. PICK v, next : v = tx[s] /\ next = IF v.kind = "apply" THEN "assess" ELSE "finish"
  OBVIOUS
<1>2. v \in Transaction /\ TxFits(v) /\ Staged(v) /\ v.at = "credit" /\ v.kind \in {"apply", "refund"}
      /\ v.credit \in Credit
  BY <1>1, Working, StageKind DEF MarkCredit, AtStage, TxFits, Staged
<1>3. PICK w : w = [v EXCEPT !.at = next, !.held = @ \cup {Row("credit", v.credit)}]
  OBVIOUS
<1>4. Step(s, w) /\ Free(s, Row("credit", v.credit))
  BY <1>1, <1>3 DEF MarkCredit
<1>5. /\ w \in Transaction /\ w.at = next /\ w.kind = v.kind /\ w.credit = v.credit
      /\ w.amount = v.amount /\ w.copy = v.copy /\ w.todo = v.todo /\ w.alloc = v.alloc
      /\ w.bill = v.bill /\ w.total = v.total /\ w.payment = v.payment /\ w.used = v.used
      /\ w.held = v.held \cup {Row("credit", v.credit)} /\ w.marks = v.marks
      /\ w.numbered = v.numbered /\ NumberRows(w) = NumberRows(v)
  <2>1. v.held \cup {Row("credit", v.credit)} \in SUBSET PayableRows
    BY <1>2 DEF Transaction, PayableRows, Row
  <2>2. next \in AllStages
    BY <1>1 DEF AllStages
  <2>3. w \in Transaction
    BY <1>2, <1>3, <2>1, <2>2 DEF Transaction
  <2> QED
    BY <1>2, <1>3, <2>3, SameNumbers DEF Transaction
<1>6. w.at \in TxStages[w.kind]
  BY <1>1, <1>2, <1>5 DEF TxStages
<1>7. /\ Staged(w) /\ Untouched(w) /\ Guarded(w) /\ VerdictTells(w)
      /\ DeletedMarked(w) /\ PaymentFits(w) /\ ReversalFits(w)
  BY <1>1, <1>2, <1>5, <1>6 DEF Staged, Untouched, Guarded, VerdictTells, DeletedMarked,
     PaymentFits, ReversalFits, TxFits
<1>8. AllocFits(w) /\ MarksTell(w)
  BY <1>2, <1>5, SameFits
<1>9. AllocMarked(w)
  <2>1. CASE v.kind = "apply"
    BY <1>1, <1>2, <1>5, <2>1 DEF TxFits, AllocMarked, Assessing
  <2>2. CASE v.kind = "refund"
    <3>1. \A b \in Bill : w.alloc[b] = 0
      BY <1>2, <1>5, <2>2 DEF TxFits, Untouched, Zero
    <3> QED
      BY <3>1, PayablesAssumption DEF AllocMarked
  <2> QED
    BY <1>2, <2>1, <2>2
<1>10. CreditFits(w)
  BY <1>1, <1>2, <1>5 DEF TxFits, CreditFits
<1>11. TxFits(w)
  BY <1>7, <1>8, <1>9, <1>10 DEF TxFits
<1>12. \A o \in Connection : o # s => w.held \cap tx[o].held = {}
  BY <1>1, <1>4, <1>5 DEF PayablesInv, HeldApart, Free
<1>13. TakesOwn(s, w)
  BY <1>2, <1>5 DEF TakesOwn, Paying
<1> QED
  BY <1>4, <1>11, <1>12, <1>13, StepKeeps

-----------------------------------------------------------------------------
(* Commits.                                                                *)

\* Two transactions use one row only if the commit of one records it.
LEMMA UsedApart ==
  ASSUME PayablesInv, NEW s \in Connection, NEW o \in Connection, o # s,
         tx[s].at \in {"pay", "finish"}, NEW row, row \in tx[o].used, row \notin Crossing(s)
  PROVE  row \notin tx[s].used
<1> SUFFICES ASSUME row \in tx[s].used PROVE FALSE
  OBVIOUS
<1>1. PICK v, w : v = tx[s] /\ w = tx[o]
  OBVIOUS
<1>2. /\ TxFits(v) /\ TxFits(w) /\ Staged(v) /\ Staged(w) /\ v.at \in {"pay", "finish"}
      /\ row \in v.used /\ row \in w.used
  BY <1>1, Working DEF TxFits
<1>3. ~Meet(s, o)
  BY DEF Crossing
<1>4. PICK r \in v.numbered : r \in w.numbered
  BY <1>1, <1>3 DEF Meet
<1>5. v.at \notin {"number", "wait"} /\ w.at \notin {"number", "wait"}
  BY <1>2 DEF TxFits, Untouched
<1>6. Row("numbers", r) \in v.held /\ Row("numbers", r) \in w.held
  BY <1>2, <1>4, <1>5 DEF TxFits, Guarded, NumberRows
<1> QED
  BY <1>1, <1>6 DEF PayablesInv, HeldApart

\* The same for the payment that two of them work on.
LEMMA PaymentsApart ==
  ASSUME PayablesInv, NEW s \in Connection, NEW o \in Connection, o # s,
         tx[s].at \in {"pay", "finish"}, tx[s].kind \in {"payment", "reversal"}
  PROVE  /\ tx[s].kind = "payment" =>
              /\ tx[o].kind = "payment" =>
                   tx[o].at \in {"number", "wait"} \/ tx[o].payment # tx[s].payment
              /\ tx[o].kind = "reversal" => tx[o].payment # tx[s].payment
         /\ tx[s].kind = "reversal" /\ tx[o].kind = "payment" /\ tx[o].at \notin {"number", "wait"} =>
              tx[o].payment # tx[s].payment
<1>1. PICK v, w : v = tx[s] /\ w = tx[o]
  OBVIOUS
<1>2. TxFits(v) /\ TxFits(w) /\ Staged(v) /\ Staged(w)
  BY <1>1, Working DEF TxFits, PayablesInv, HeldApart
<1>3. v.kind = "payment" => v.at \notin {"number", "wait"} /\ payments[v.payment].amount = 0
  BY <1>1, <1>2 DEF TxFits, PaymentFits
<1>4. w.kind = "payment" /\ w.at \notin {"number", "wait"} =>
        payments[w.payment].amount = 0
  BY <1>2 DEF TxFits, PaymentFits
<1>5. /\ v.kind = "reversal" => payments[v.payment].amount > 0
      /\ w.kind = "reversal" => payments[w.payment].amount > 0
  BY <1>2 DEF TxFits, ReversalFits
<1>6. Paying(v) /\ Paying(w) => v.payment # w.payment
  BY <1>1 DEF PayablesInv, OneEach
<1> QED
  BY <1>1, <1>3, <1>4, <1>5, <1>6 DEF Paying

\* What a commit changes.
Changes(v) ==
  /\ \A b \in Bill : Settled(b)' = Settled(b) - Deleted(v, b) + v.alloc[b]
  /\ \A p \in Payment : v.kind \notin {"payment", "reversal"} \/ p # v.payment =>
       paid'[p] = paid[p] /\ payments'[p] = payments[p]
  /\ \A c \in Credit :
       IF v.kind \in {"apply", "refund"} /\ c = v.credit
       THEN Used(c)' = Used(c) + v.amount /\ allocated'[c] = v.total
       ELSE Used(c)' = Used(c) /\ allocated'[c] = allocated[c]
PaymentsWhole ==
  \A p \in Payment :
    SumOver(Bill, LAMBDA b : paid[p][b]) <= (IF payments[p].reversed THEN 0 ELSE payments[p].amount)
BillsWithin ==
  \A b \in Bill : ~Crossed("bill", b) => Settled(b) <= Due[b]
CreditsWithin ==
  \A c \in Credit : ~Crossed("credit", c) /\ ~Crossed("copy", c) => Used(c) <= CreditAmount[c]

LEMMA WithinParts ==
  /\ WithinAmounts <=> BillsWithin /\ CreditsWithin /\ PaymentsWhole
  /\ WithinAmounts' <=> BillsWithin' /\ CreditsWithin' /\ PaymentsWhole'
BY DEF WithinAmounts, BillsWithin, CreditsWithin, PaymentsWhole, Settled

LEMMA CommitOthers ==
  ASSUME PayablesInv, NEW s \in Connection, NEW v, v = tx[s], v.at \in {"pay", "finish"},
         crossed \subseteq crossed', Crossing(s) \subseteq crossed', Changes(v),
         v.kind = "payment" => \A b \in Bill : v.alloc[b] = 0 => paid'[v.payment][b] = paid[v.payment][b],
         v.kind = "reversal" =>
           /\ \A b \in Bill : paid'[v.payment][b] = 0
           /\ payments'[v.payment].amount = payments[v.payment].amount,
         NEW o \in Connection, o # s, NEW w, w = tx[o]
  PROVE  TxFits(w)'
<1>1. w = tx[o]
  OBVIOUS
<1>2. TxFits(v) /\ TxFits(w) /\ Staged(v) /\ Staged(w) /\ v \in Transaction /\ TablesTyped
  BY <1>1, Working DEF TxFits, PayablesInv
<1>3. ASSUME NEW b \in Bill, Row("bill", b) \notin v.used
      PROVE  Settled(b)' = Settled(b) /\ \A p \in Payment : paid'[p][b] = paid[p][b]
  <2>1. v.alloc[b] = 0
    <3>1. ~(v.alloc[b] > 0) /\ v.alloc[b] \in Nat
      BY <1>2, <1>3, SpentSum DEF TxFits, AllocFits
    <3> QED
      BY <3>1
  <2>2. v.kind = "reversal" => paid[v.payment][b] = 0
    <3>1. v.kind = "reversal" => ~(paid[v.payment][b] > 0) /\ paid[v.payment][b] \in Nat
      BY <1>2, <1>3 DEF TxFits, DeletedMarked, Staged, TablesTyped
    <3> QED
      BY <3>1
  <2>3. Deleted(v, b) = 0 /\ Settled(b) \in Nat
    BY <1>2, <2>2, BalancesNatural DEF Deleted
  <2>4. Settled(b)' = Settled(b)
    BY <2>1, <2>3 DEF Changes
  <2>5. \A p \in Payment : paid'[p][b] = paid[p][b]
    <3> TAKE p \in Payment
    <3>1. CASE v.kind \notin {"payment", "reversal"} \/ p # v.payment
      BY <3>1 DEF Changes
    <3>2. CASE v.kind = "payment" /\ p = v.payment
      BY <2>1, <3>2
    <3>3. CASE v.kind = "reversal" /\ p = v.payment
      BY <2>2, <3>3
    <3> QED
      BY <3>1, <3>2, <3>3
  <2> QED
    BY <2>4, <2>5
<1>4. \A row : row \in w.used /\ row \notin crossed' => row \notin v.used
  BY <1>1, UsedApart
<1>5. \A b \in Bill : Row("bill", b) \in w.used /\ Row("bill", b) \notin crossed' =>
        Settled(b)' = Settled(b) /\ \A p \in Payment : paid'[p][b] = paid[p][b]
  BY <1>3, <1>4
<1>6. \A c \in Credit : Row("credit", c) \in w.used /\ Row("credit", c) \notin crossed' =>
        Used(c)' = Used(c)
  <2> SUFFICES ASSUME NEW c \in Credit, Row("credit", c) \in w.used, Row("credit", c) \notin crossed'
               PROVE  Used(c)' = Used(c)
    OBVIOUS
  <2>1. Row("credit", c) \notin v.used
    BY <1>4
  <2>2. ~(v.kind \in {"apply", "refund"} /\ c = v.credit)
    BY <1>2, <2>1, StageKind DEF TxFits, CreditFits
  <2> QED
    BY <2>2 DEF Changes
<1>7. w.kind = "payment" /\ w.at \notin {"number", "wait"} => payments'[w.payment].amount = 0
  <2> SUFFICES ASSUME w.kind = "payment", w.at \notin {"number", "wait"}
               PROVE  payments'[w.payment].amount = 0
    OBVIOUS
  <2>1. v.kind \notin {"payment", "reversal"} \/ w.payment # v.payment
    BY <1>1, PaymentsApart
  <2>2. payments[w.payment].amount = 0 /\ w.payment \in Payment
    BY <1>2 DEF TxFits, PaymentFits, Staged
  <2> QED
    BY <2>1, <2>2 DEF Changes
<1>8. w.kind = "reversal" =>
        /\ payments'[w.payment].amount > 0
        /\ w.at # "list" => \A b \in Bill : paid'[w.payment][b] > 0 => paid[w.payment][b] > 0
  <2> SUFFICES ASSUME w.kind = "reversal"
               PROVE  /\ payments'[w.payment].amount > 0
                      /\ \A b \in Bill : paid'[w.payment][b] > 0 => paid[w.payment][b] > 0
    OBVIOUS
  <2>1. payments[w.payment].amount > 0 /\ w.payment \in Payment
    BY <1>2 DEF TxFits, ReversalFits, Staged
  <2>2. CASE v.kind \notin {"payment", "reversal"} \/ w.payment # v.payment
    BY <2>1, <2>2 DEF Changes
  <2>3. CASE v.kind = "reversal" /\ w.payment = v.payment
    BY <2>1, <2>3
  <2>4. v.kind = "payment" => w.payment # v.payment
    BY <1>1, PaymentsApart
  <2> QED
    BY <2>2, <2>3, <2>4
<1> QED
  BY <1>2, <1>5, <1>6, <1>7, <1>8, FitsThrough

\* A commit that changes the balances as it has told them keeps the invariant.
LEMMA CommitKeeps ==
  ASSUME PayablesInv, NEW s \in Connection, NEW v, v = tx[s], v.at \in {"pay", "finish"},
         crossed \subseteq crossed', Crossing(s) \subseteq crossed', Changes(v),
         v.kind = "payment" => \A b \in Bill : v.alloc[b] = 0 => paid'[v.payment][b] = paid[v.payment][b],
         v.kind = "reversal" =>
           /\ \A b \in Bill : paid'[v.payment][b] = 0
           /\ payments'[v.payment].amount = payments[v.payment].amount
           /\ v.todo = {},
         v.kind \in {"apply", "refund"} /\ allocated[v.credit] # v.copy =>
           Row("copy", v.credit) \in crossed',
         tx' = [tx EXCEPT ![s] = NoTx], invoiceStatus' = Marked(v),
         TablesTyped', NoneYet', PaymentsWhole'
  PROVE  PayablesInv'
<1>1. TxFits(v) /\ Staged(v) /\ v \in Transaction /\ TablesTyped
  BY Working DEF TxFits, PayablesInv
<1>2. /\ BillsWithin /\ CreditsWithin /\ BalancesTold
      /\ \A b \in Bill : Settled(b) \in Nat /\ Due[b] \in Nat
      /\ \A c \in Credit : Used(c) \in Nat /\ CreditAmount[c] \in Nat
  BY <1>1, WithinParts, BalancesNatural DEF PayablesInv
<1>3. \A b \in Bill : v.alloc[b] \in Nat /\ Deleted(v, b) \in Nat
  <2>1. \A b \in Bill : Deleted(v, b) \in Nat
    BY <1>1 DEF Deleted, Staged, TablesTyped
  <2> QED
    BY <1>1, <2>1, SpentSum
<1>4. BillsWithin'
  <2> SUFFICES ASSUME NEW b \in Bill, Row("bill", b) \notin crossed'
               PROVE  Settled(b)' <= Due[b]
    BY DEF BillsWithin, Crossed
  <2>1. PICK n \in Nat, d \in Nat, a \in Nat, due \in Nat :
          n = Settled(b) /\ d = Deleted(v, b) /\ a = v.alloc[b] /\ due = Due[b]
    BY <1>2, <1>3
  <2>2. Settled(b)' = n - d + a
    BY <2>1 DEF Changes
  <2>3. n <= due
    BY <1>2, <2>1 DEF BillsWithin, Crossed
  <2>4. a > 0 => n + a <= due
    BY <1>1, <2>1 DEF TxFits, AllocFits, Crossed
  <2> QED
    BY <2>1, <2>2, <2>3, <2>4
<1>5. CreditsWithin'
  <2> SUFFICES ASSUME NEW c \in Credit, Row("credit", c) \notin crossed', Row("copy", c) \notin crossed'
               PROVE  Used(c)' <= CreditAmount[c]
    BY DEF CreditsWithin, Crossed
  <2>1. Used(c) <= CreditAmount[c] /\ allocated[c] = Used(c)
    BY <1>2 DEF CreditsWithin, BalancesTold, Crossed
  <2>2. CASE v.kind \in {"apply", "refund"} /\ c = v.credit
    <3>1. v.copy + v.amount <= CreditAmount[c] /\ allocated[c] = v.copy
      BY <1>1, <2>2 DEF TxFits, CreditFits
    <3>2. Used(c)' = Used(c) + v.amount
      BY <2>2 DEF Changes
    <3> QED
      BY <2>1, <3>1, <3>2
  <2>3. CASE ~(v.kind \in {"apply", "refund"} /\ c = v.credit)
    BY <2>1, <2>3 DEF Changes
  <2> QED
    BY <2>2, <2>3
<1>6. BalancesTold'
  <2>1. ASSUME NEW b \in Invoice, Row("bill", b) \notin crossed'
        PROVE  invoiceStatus'[b] = StatusFor(Due[b], Settled(b)')
    <3>1. b \in Bill /\ Row("bill", b) \notin crossed
      BY <2>1, PayablesAssumption
    <3>2. CASE b \in DOMAIN v.marks
      <4>1. v.marks[b] = Expected(v, b)
        BY <1>1, <3>1, <3>2 DEF TxFits, MarksTell, Crossed
      <4>2. Settled(b)' = Settled(b) - Deleted(v, b) + v.alloc[b]
        BY <3>1 DEF Changes
      <4> QED
        BY <2>1, <3>2, <4>1, <4>2 DEF Expected, Marked
    <3>3. CASE b \notin DOMAIN v.marks
      <4>1. ~Assessing(v, b)
        BY DEF Assessing
      <4>2. v.alloc[b] = 0
        <5>1. ~(v.alloc[b] > 0)
          BY <1>1, <2>1, <3>3, <4>1 DEF TxFits, AllocMarked
        <5> QED
          BY <1>3, <3>1, <5>1
      <4>3. Deleted(v, b) = 0
        <5>1. v.kind = "reversal" => ~(paid[v.payment][b] > 0) /\ paid[v.payment][b] \in Nat
          <6>1. v.kind = "reversal" => v.at # "list" /\ v.todo = {} /\ v.payment \in Payment
            BY <1>1 DEF Staged
          <6>2. v.kind = "reversal" => ~(paid[v.payment][b] > 0)
            BY <1>1, <2>1, <3>1, <3>3, <4>1, <6>1 DEF TxFits, DeletedMarked
          <6>3. v.kind = "reversal" => paid[v.payment][b] \in Nat
            BY <1>1, <3>1, <6>1 DEF TablesTyped
          <6> QED
            BY <6>2, <6>3
        <5> QED
          BY <5>1 DEF Deleted
      <4>4. Settled(b)' = Settled(b)
        BY <1>2, <3>1, <4>2, <4>3 DEF Changes
      <4> QED
        BY <1>2, <2>1, <3>1, <3>3, <4>4 DEF Marked, BalancesTold, Crossed, Settled
    <3> QED
      BY <3>2, <3>3
  <2>2. ASSUME NEW c \in Credit, Row("credit", c) \notin crossed'
        PROVE  allocated'[c] = Used(c)'
    <3>1. allocated[c] = Used(c)
      BY <1>2, <2>2 DEF BalancesTold, Crossed
    <3>2. CASE v.kind \in {"apply", "refund"} /\ c = v.credit
      <4>1. v.total = Used(c) + v.amount
        BY <1>1, <2>2, <3>2, StageKind DEF TxFits, CreditFits, Crossed
      <4> QED
        BY <3>2, <4>1 DEF Changes
    <3>3. CASE ~(v.kind \in {"apply", "refund"} /\ c = v.credit)
      BY <3>1, <3>3 DEF Changes
    <3> QED
      BY <3>2, <3>3
  <2> QED
    BY <2>1, <2>2 DEF BalancesTold, Crossed, Settled
<1>7. tx \in [Connection -> Transaction] /\ tx' \in [Connection -> Transaction]
      /\ tx'[s] = NoTx /\ \A o \in Connection : o # s => tx'[o] = tx[o]
  BY EmptyFits DEF PayablesInv
<1>8. HeldApart' /\ OneEach'
  <2>1. PICK w : w = NoTx
    OBVIOUS
  <2>2. TakesOwn(s, w)
    BY <2>1 DEF TakesOwn, Paying, NoTx
  <2>3. OneEach'
    BY <2>1, <2>2, OneEachKept DEF PayablesInv
  <2> QED
    BY <1>7, <2>3 DEF PayablesInv, HeldApart, NoTx
<1>9. \A o \in Connection : TxFits(tx[o])'
  <2> TAKE o \in Connection
  <2>1. CASE o = s
    <3>1. PICK w : w = NoTx
      OBVIOUS
    <3>2. TxFits(w)'
      BY <3>1, EmptyFits
    <3> QED
      BY <1>7, <2>1, <3>1, <3>2
  <2>2. CASE o # s
    <3>1. PICK w : w = tx[o]
      OBVIOUS
    <3>2. TxFits(w)'
      BY <2>2, <3>1, CommitOthers
    <3> QED
      BY <1>7, <2>2, <3>1, <3>2
  <2> QED
    BY <2>1, <2>2
<1> QED
  BY <1>4, <1>5, <1>6, <1>7, <1>8, <1>9, WithinParts DEF PayablesInv

LEMMA PaidChange ==
  ASSUME NEW t \in [Payment -> [Bill -> Nat]], NEW u \in [Payment -> [Bill -> Nat]],
         NEW p \in Payment, \A x \in Payment : x # p => u[x] = t[x], NEW b \in Bill
  PROVE  PaidIn(u, b) = PaidIn(t, b) - t[p][b] + u[p][b]
<1>1. PICK f, g : f = [x \in Payment |-> t[x][b]] /\ g = [x \in Payment |-> u[x][b]]
  OBVIOUS
<1>2. \A x \in Payment : f[x] \in Int
  BY <1>1
<1>3. \A x \in Payment : x # p => g[x] = f[x]
  BY <1>1
<1>4. f[p] = t[p][b] /\ g[p] = u[p][b] /\ g[p] \in Int /\ IsFiniteSet(Payment)
  BY <1>1, PayablesAssumption
<1>5. SumFunctionOnSet(g, Payment) = SumFunctionOnSet(f, Payment) - f[p] + g[p]
  BY <1>2, <1>3, <1>4, SumChange
<1>6. PaidIn(u, b) = SumFunctionOnSet(g, Payment) /\ PaidIn(t, b) = SumFunctionOnSet(f, Payment)
  BY <1>1 DEF PaidIn, SumOver
<1> QED
  BY <1>4, <1>5, <1>6

LEMMA CreditedChange ==
  ASSUME NEW t \in [Credit -> [Bill -> Nat]], NEW u \in [Credit -> [Bill -> Nat]],
         NEW c \in Credit, \A x \in Credit : x # c => u[x] = t[x], NEW b \in Bill
  PROVE  CreditedIn(u, b) = CreditedIn(t, b) - t[c][b] + u[c][b]
<1>1. PICK f, g : f = [x \in Credit |-> t[x][b]] /\ g = [x \in Credit |-> u[x][b]]
  OBVIOUS
<1>2. \A x \in Credit : f[x] \in Int
  BY <1>1
<1>3. \A x \in Credit : x # c => g[x] = f[x]
  BY <1>1
<1>4. f[c] = t[c][b] /\ g[c] = u[c][b] /\ g[c] \in Int /\ IsFiniteSet(Credit)
  BY <1>1, PayablesAssumption
<1>5. SumFunctionOnSet(g, Credit) = SumFunctionOnSet(f, Credit) - f[c] + g[c]
  BY <1>2, <1>3, <1>4, SumChange
<1>6. CreditedIn(u, b) = SumFunctionOnSet(g, Credit) /\ CreditedIn(t, b) = SumFunctionOnSet(f, Credit)
  BY <1>1 DEF CreditedIn, SumOver
<1> QED
  BY <1>4, <1>5, <1>6

\* A payment that commits has paid nothing before, and is not reversed.
LEMMA CommitPaymentKeeps ==
  ASSUME PayablesInv, NEW s \in Connection, CommitPayment(s)
  PROVE  PayablesInv'
<1>1. PICK v, p, n : v = tx[s] /\ p = v.payment /\ n = v.entry.amount
  OBVIOUS
<1>2. /\ v \in Transaction /\ TxFits(v) /\ Staged(v) /\ v.at = "pay" /\ v.kind = "payment"
      /\ p \in Payment /\ n \in Nat \ {0} /\ v.alloc \in [Bill -> Nat]
  <2>1. v \in Transaction /\ TxFits(v) /\ Staged(v) /\ v.at = "pay" /\ v.kind = "payment"
    BY <1>1, Working, StageKind DEF CommitPayment, AtStage, TxFits
  <2>2. p \in Payment /\ v.entry \in Entries
    BY <1>1, <2>1 DEF Staged
  <2>3. n \in Nat \ {0}
    BY <1>1, <2>2, PayablesAssumption
  <2> QED
    BY <2>1, <2>2, <2>3 DEF Transaction
<1>3. CASE Spent(v) > n
  BY <1>1, <1>3, RollbackKeeps DEF CommitPayment
<1>4. CASE ~(Spent(v) > n)
  <2>1. /\ payments' = [payments EXCEPT ![p].amount = n]
        /\ paid' = [paid EXCEPT ![p] = v.alloc] /\ invoiceStatus' = Marked(v)
        /\ crossed' = crossed \cup Crossing(s) /\ tx' = [tx EXCEPT ![s] = NoTx]
        /\ sequences' = sequences \cup v.numbered /\ UNCHANGED <<credited, refunded, allocated>>
    BY <1>1, <1>4 DEF CommitPayment
  <2>2. TablesTyped /\ NoneYet /\ PaymentsWhole
    BY WithinParts DEF PayablesInv
  <2>3. payments[p].amount = 0 /\ paid[p] = Zero /\ ~payments[p].reversed
    BY <1>1, <1>2, <2>2 DEF TxFits, PaymentFits, NoneYet
  <2>4. /\ payments' \in [Payment -> [amount : Nat, reversed : BOOLEAN]]
        /\ payments'[p].amount = n /\ payments'[p].reversed = FALSE
        /\ paid' \in [Payment -> [Bill -> Nat]] /\ paid'[p] = v.alloc
        /\ \A q \in Payment : q # p => payments'[q] = payments[q] /\ paid'[q] = paid[q]
    BY <1>2, <2>1, <2>2, <2>3 DEF TablesTyped
  <2>5. TablesTyped'
    <3>1. invoiceStatus' \in [Invoice -> Verdicts]
      BY <1>2, <2>1, <2>2, MarksOnInvoices DEF Marked, TablesTyped
    <3>2. sequences' \subseteq SequenceRow
      BY <1>2, <2>1, <2>2 DEF TablesTyped, Transaction
    <3> QED
      BY <2>1, <2>2, <2>4, <3>1, <3>2 DEF TablesTyped
  <2>6. NoneYet'
    BY <1>2, <2>2, <2>4 DEF NoneYet
  <2>7. PaymentsWhole'
    <3> SUFFICES ASSUME NEW q \in Payment
                 PROVE  SumOver(Bill, LAMBDA b : paid'[q][b])
                          <= (IF payments'[q].reversed THEN 0 ELSE payments'[q].amount)
      BY DEF PaymentsWhole, SumOver
    <3>1. CASE q = p
      <4>1. SumOver(Bill, LAMBDA b : paid'[q][b]) = Spent(v)
        BY <2>4, <3>1 DEF SumOver, Spent
      <4>2. Spent(v) \in Nat
        BY <1>2, SpentSum
      <4> QED
        BY <1>2, <1>4, <2>4, <3>1, <4>1, <4>2
    <3>2. CASE q # p
      <4>1. SumOver(Bill, LAMBDA b : paid'[q][b]) = SumOver(Bill, LAMBDA b : paid[q][b])
        BY <2>4, <3>2 DEF SumOver
      <4> QED
        BY <2>2, <2>4, <3>2, <4>1 DEF PaymentsWhole
    <3> QED
      BY <3>1, <3>2
  <2>8. Changes(v)
    <3>1. ASSUME NEW b \in Bill
          PROVE  Settled(b)' = Settled(b) - Deleted(v, b) + v.alloc[b]
      <4>1. PaidIn(paid', b) = PaidIn(paid, b) - paid[p][b] + v.alloc[b]
        <5>1. paid \in [Payment -> [Bill -> Nat]]
          BY <2>2 DEF TablesTyped
        <5>2. PaidIn(paid', b) = PaidIn(paid, b) - paid[p][b] + paid'[p][b]
          BY <1>2, <2>4, <5>1, PaidChange
        <5> QED
          BY <2>4, <5>2
      <4>2. paid[p][b] = 0 /\ Deleted(v, b) = 0
        BY <1>2, <2>3 DEF Zero, Deleted
      <4>3. CreditedIn(credited', b) = CreditedIn(credited, b)
        BY <2>1
      <4>4. /\ PaidIn(paid, b) \in Nat /\ CreditedIn(credited, b) \in Nat /\ v.alloc[b] \in Nat
            /\ Settled(b) = PaidIn(paid, b) + CreditedIn(credited, b)
            /\ Settled(b)' = PaidIn(paid', b) + CreditedIn(credited', b)
        BY <1>2, <2>2, BalancesNatural, BalancesTaken
      <4> QED
        BY <4>1, <4>2, <4>3, <4>4
    <3>2. \A c \in Credit : Used(c)' = Used(c) /\ allocated'[c] = allocated[c]
      BY <2>1 DEF Used, SumOver
    <3> QED
      BY <1>1, <1>2, <2>4, <3>1, <3>2 DEF Changes
  <2>9. \A b \in Bill : v.alloc[b] = 0 => paid'[v.payment][b] = paid[v.payment][b]
    BY <1>1, <2>3, <2>4 DEF Zero
  <2>10. v = tx[s] /\ v.at \in {"pay", "finish"} /\ v.kind = "payment"
    BY <1>1, <1>2
  <2>11. /\ crossed \subseteq crossed' /\ Crossing(s) \subseteq crossed'
         /\ tx' = [tx EXCEPT ![s] = NoTx] /\ invoiceStatus' = Marked(v)
    BY <2>1
  <2>12. v.kind # "reversal" /\ v.kind \notin {"apply", "refund"}
    BY <2>10
  <2> QED
    BY <2>5, <2>6, <2>7, <2>8, <2>9, <2>10, <2>11, <2>12, CommitKeeps
<1> QED
  BY <1>3, <1>4

LEMMA CommitReversalKeeps ==
  ASSUME PayablesInv, NEW s \in Connection, CommitReversal(s)
  PROVE  PayablesInv'
<1>1. PICK v, p : v = tx[s] /\ p = v.payment
  OBVIOUS
<1>2. /\ v \in Transaction /\ TxFits(v) /\ Staged(v) /\ v.at = "finish" /\ v.kind = "reversal"
      /\ v.todo = {} /\ p \in Payment /\ v.alloc = Zero
  BY <1>1, Working DEF CommitReversal, AtStage, TxFits, Staged, Untouched
<1>3. /\ payments' = [payments EXCEPT ![p].reversed = TRUE]
      /\ paid' = [paid EXCEPT ![p] = Zero] /\ invoiceStatus' = Marked(v)
      /\ crossed' = crossed \cup Crossing(s) /\ tx' = [tx EXCEPT ![s] = NoTx]
      /\ UNCHANGED <<credited, refunded, allocated, sequences>>
  BY <1>1 DEF CommitReversal
<1>4. TablesTyped /\ NoneYet /\ PaymentsWhole /\ Zero \in [Bill -> Nat] /\ payments[p].amount > 0
  BY <1>1, <1>2, WithinParts DEF PayablesInv, Zero, TxFits, ReversalFits
<1>5. /\ payments' \in [Payment -> [amount : Nat, reversed : BOOLEAN]]
      /\ payments'[p].amount = payments[p].amount /\ payments'[p].reversed = TRUE
      /\ paid' \in [Payment -> [Bill -> Nat]] /\ paid'[p] = Zero
      /\ \A q \in Payment : q # p => payments'[q] = payments[q] /\ paid'[q] = paid[q]
  BY <1>2, <1>3, <1>4 DEF TablesTyped
<1>6. TablesTyped'
  <2>1. invoiceStatus' \in [Invoice -> Verdicts]
    BY <1>2, <1>3, <1>4, MarksOnInvoices DEF Marked, TablesTyped
  <2> QED
    BY <1>3, <1>4, <1>5, <2>1 DEF TablesTyped
<1>7. NoneYet'
  <2> SUFFICES ASSUME NEW q \in Payment, payments'[q].amount = 0
               PROVE  paid'[q] = Zero /\ ~payments'[q].reversed
    BY DEF NoneYet
  <2>1. q # p
    BY <1>4, <1>5
  <2> QED
    BY <1>4, <1>5, <2>1 DEF NoneYet
<1>8. PaymentsWhole'
  <2> SUFFICES ASSUME NEW q \in Payment
               PROVE  SumOver(Bill, LAMBDA b : paid'[q][b])
                        <= (IF payments'[q].reversed THEN 0 ELSE payments'[q].amount)
    BY DEF PaymentsWhole, SumOver
  <2>1. CASE q = p
    <3>1. SumOver(Bill, LAMBDA b : paid'[q][b]) = Spent(v)
      BY <1>2, <1>5, <2>1 DEF SumOver, Spent
    <3>2. Spent(v) = 0
      BY <1>2, SpentSum
    <3> QED
      BY <1>5, <2>1, <3>1, <3>2
  <2>2. CASE q # p
    <3>1. SumOver(Bill, LAMBDA b : paid'[q][b]) = SumOver(Bill, LAMBDA b : paid[q][b])
      BY <1>5, <2>2 DEF SumOver
    <3> QED
      BY <1>4, <1>5, <2>2, <3>1 DEF PaymentsWhole
  <2> QED
    BY <2>1, <2>2
<1>9. Changes(v)
  <2>1. ASSUME NEW b \in Bill
        PROVE  Settled(b)' = Settled(b) - Deleted(v, b) + v.alloc[b]
    <3>1. PaidIn(paid', b) = PaidIn(paid, b) - paid[p][b] + Zero[b]
      <4>1. paid \in [Payment -> [Bill -> Nat]]
        BY <1>4 DEF TablesTyped
      <4>2. PaidIn(paid', b) = PaidIn(paid, b) - paid[p][b] + paid'[p][b]
        BY ZenonT(60), <1>2, <1>5, <4>1, PaidChange
      <4> QED
        BY <1>5, <4>2
    <3>2. Zero[b] = 0 /\ v.alloc[b] = 0 /\ Deleted(v, b) = paid[p][b] /\ paid[p][b] \in Nat
      BY <1>1, <1>2, <1>4 DEF Zero, Deleted, TablesTyped
    <3>3. CreditedIn(credited', b) = CreditedIn(credited, b)
      BY <1>3
    <3>4. /\ PaidIn(paid, b) \in Nat /\ CreditedIn(credited, b) \in Nat
          /\ Settled(b) = PaidIn(paid, b) + CreditedIn(credited, b)
          /\ Settled(b)' = PaidIn(paid', b) + CreditedIn(credited', b)
      BY <1>4, BalancesNatural, BalancesTaken
    <3> QED
      BY <3>1, <3>2, <3>3, <3>4
  <2>2. \A c \in Credit : Used(c)' = Used(c) /\ allocated'[c] = allocated[c]
    BY <1>3 DEF Used, SumOver
  <2> QED
    BY <1>1, <1>2, <1>5, <2>1, <2>2 DEF Changes
<1>10. \A b \in Bill : paid'[v.payment][b] = 0
  BY <1>1, <1>5 DEF Zero
<1>11. /\ v = tx[s] /\ v.at \in {"pay", "finish"} /\ v.kind = "reversal" /\ v.todo = {}
       /\ payments'[v.payment].amount = payments[v.payment].amount
  BY <1>1, <1>2, <1>5
<1>12. /\ crossed \subseteq crossed' /\ Crossing(s) \subseteq crossed'
       /\ tx' = [tx EXCEPT ![s] = NoTx] /\ invoiceStatus' = Marked(v)
  BY <1>3
<1>13. v.kind # "payment" /\ v.kind \notin {"apply", "refund"}
  BY <1>11
<1> QED
  BY <1>6, <1>7, <1>8, <1>9, <1>10, <1>11, <1>12, <1>13, CommitKeeps

LEMMA CommitCreditKeeps ==
  ASSUME PayablesInv, NEW s \in Connection, CommitCredit(s)
  PROVE  PayablesInv'
<1>1. PICK v, c, more, back :
        /\ v = tx[s] /\ c = v.credit /\ more = [b \in Bill |-> credited[c][b] + v.alloc[b]]
        /\ back = (IF v.kind = "refund" THEN v.amount ELSE 0)
  OBVIOUS
<1>2. /\ v \in Transaction /\ TxFits(v) /\ Staged(v) /\ v.at = "finish"
      /\ v.kind \in {"apply", "refund"} /\ c \in Credit /\ v.amount \in Nat /\ v.total \in Nat
      /\ v.alloc \in [Bill -> Nat]
  BY <1>1, Working DEF CommitCredit, AtStage, TxFits, Staged, Transaction
<1>3. /\ credited' = [credited EXCEPT ![c] = more]
      /\ refunded' = [refunded EXCEPT ![c] = refunded[c] + back]
      /\ allocated' = [allocated EXCEPT ![c] = v.total] /\ invoiceStatus' = Marked(v)
      /\ crossed' = crossed \cup Crossing(s)
                    \cup (IF allocated[c] = v.copy THEN {} ELSE {Row("copy", c)})
      /\ tx' = [tx EXCEPT ![s] = NoTx] /\ sequences' = sequences \cup v.numbered
      /\ UNCHANGED <<payments, paid>>
  <2>1. TablesTyped
    BY DEF PayablesInv
  <2> QED
    BY <1>1, <1>2, <2>1 DEF CommitCredit, TablesTyped
<1>4. TablesTyped /\ NoneYet /\ PaymentsWhole /\ back \in Nat
  BY <1>1, <1>2, WithinParts DEF PayablesInv
<1>5. more \in [Bill -> Nat]
  BY <1>1, <1>2, <1>4 DEF TablesTyped
<1>6. /\ credited' \in [Credit -> [Bill -> Nat]] /\ credited'[c] = more
      /\ refunded' \in [Credit -> Nat] /\ refunded'[c] = refunded[c] + back
      /\ allocated' \in [Credit -> Nat] /\ allocated'[c] = v.total
      /\ \A x \in Credit : x # c =>
           credited'[x] = credited[x] /\ refunded'[x] = refunded[x] /\ allocated'[x] = allocated[x]
  BY <1>2, <1>3, <1>4, <1>5 DEF TablesTyped
<1>7. TablesTyped'
  <2>1. invoiceStatus' \in [Invoice -> Verdicts]
    BY <1>2, <1>3, <1>4, MarksOnInvoices DEF Marked, TablesTyped
  <2>2. sequences' \subseteq SequenceRow
    BY <1>2, <1>3, <1>4 DEF TablesTyped, Transaction
  <2> QED
    BY <1>3, <1>4, <1>6, <2>1, <2>2 DEF TablesTyped
<1>8. NoneYet' /\ PaymentsWhole'
  BY <1>3, <1>4 DEF NoneYet, PaymentsWhole, SumOver
<1>9. ASSUME NEW b \in Bill
      PROVE  Settled(b)' = Settled(b) - Deleted(v, b) + v.alloc[b]
  <2>1. CreditedIn(credited', b) = CreditedIn(credited, b) - credited[c][b] + more[b]
    <3>1. credited \in [Credit -> [Bill -> Nat]]
      BY <1>4 DEF TablesTyped
    <3>2. CreditedIn(credited', b) = CreditedIn(credited, b) - credited[c][b] + credited'[c][b]
      BY <1>2, <1>6, <3>1, CreditedChange
    <3> QED
      BY <1>6, <3>2
  <2>2. more[b] = credited[c][b] + v.alloc[b] /\ credited[c][b] \in Nat /\ v.alloc[b] \in Nat
        /\ Deleted(v, b) = 0
    BY <1>1, <1>2, <1>4 DEF Deleted, TablesTyped
  <2>3. PaidIn(paid', b) = PaidIn(paid, b)
    BY <1>3
  <2>4. /\ PaidIn(paid, b) \in Nat /\ CreditedIn(credited, b) \in Nat
        /\ Settled(b) = PaidIn(paid, b) + CreditedIn(credited, b)
        /\ Settled(b)' = PaidIn(paid', b) + CreditedIn(credited', b)
    BY <1>4, BalancesNatural, BalancesTaken
  <2> QED
    BY <2>1, <2>2, <2>3, <2>4
<1>10. Used(c)' = Used(c) + v.amount
  <2>1. PICK f : f = [b \in Bill |-> credited[c][b]]
    OBVIOUS
  <2>2. \A b \in Bill : f[b] \in Nat /\ more[b] = f[b] + v.alloc[b]
    BY <1>1, <1>2, <1>4, <2>1 DEF TablesTyped
  <2>3. SumFunctionOnSet(f, Bill) \in Nat /\ IsFiniteSet(Bill)
    BY <2>2, SumNatural, PayablesAssumption
  <2>4. /\ Used(c) = refunded[c] + SumFunctionOnSet(f, Bill) /\ refunded[c] \in Nat
        /\ Used(c)' = refunded[c] + back + SumFunctionOnSet(more, Bill)
    <3>1. [b \in Bill |-> more[b]] = more
      BY <1>5
    <3>2. Used(c) = refunded[c] + SumFunctionOnSet(f, Bill) /\ refunded[c] \in Nat
      BY <1>2, <1>4, <2>1 DEF Used, SumOver, TablesTyped
    <3>3. Used(c)' = refunded'[c] + SumFunctionOnSet([b \in Bill |-> more[b]], Bill)
      BY <1>6 DEF Used, SumOver
    <3> QED
      BY <1>6, <3>1, <3>2, <3>3
  <2>5. CASE v.kind = "apply"
    <3>1. v.bill \in Bill /\ v.alloc = [Zero EXCEPT ![v.bill] = v.amount]
      BY <1>2, <2>5, PayablesAssumption DEF Staged, TxFits, CreditFits
    <3>2. v.alloc[v.bill] = v.amount /\ \A b \in Bill : b # v.bill => v.alloc[b] = 0
      BY <3>1 DEF Zero
    <3>3. \A b \in Bill : f[b] \in Int
      BY <2>2
    <3>4. more[v.bill] = f[v.bill] + v.amount /\ more[v.bill] \in Int
      BY <1>5, <2>2, <3>1, <3>2
    <3>5. \A b \in Bill : b # v.bill => more[b] = f[b]
      BY <2>2, <3>2
    <3>6. SumFunctionOnSet(more, Bill) = SumFunctionOnSet(f, Bill) - f[v.bill] + more[v.bill]
      BY <2>3, <3>1, <3>3, <3>4, <3>5, SumChange
    <3>7. f[v.bill] \in Nat
      BY <2>2, <3>1
    <3>8. SumFunctionOnSet(more, Bill) = SumFunctionOnSet(f, Bill) + v.amount
      BY <1>2, <2>3, <3>4, <3>6, <3>7
    <3> QED
      BY <1>1, <1>2, <2>3, <2>4, <2>5, <3>8
  <2>6. CASE v.kind = "refund"
    <3>1. \A b \in Bill : v.alloc[b] = 0
      BY <1>2, <2>6 DEF TxFits, Untouched, Zero
    <3>2. \A b \in Bill : more[b] = f[b]
      BY <2>2, <3>1
    <3>3. more = f
      BY <1>5, <2>1, <3>2
    <3> QED
      BY <1>1, <1>2, <2>3, <2>4, <2>6, <3>3
  <2> QED
    BY <1>2, <2>5, <2>6
<1>11. \A x \in Credit : x # c => Used(x)' = Used(x)
  BY <1>6 DEF Used, SumOver
<1>12. Changes(v)
  BY <1>1, <1>2, <1>3, <1>6, <1>9, <1>10, <1>11 DEF Changes
<1>13. allocated[v.credit] # v.copy => Row("copy", v.credit) \in crossed'
  BY <1>1, <1>3
<1>14. crossed \subseteq crossed' /\ Crossing(s) \subseteq crossed'
  BY <1>3
<1>15. /\ v = tx[s] /\ v.at \in {"pay", "finish"}
       /\ tx' = [tx EXCEPT ![s] = NoTx] /\ invoiceStatus' = Marked(v)
  BY <1>1, <1>2, <1>3
<1>16. v.kind # "payment" /\ v.kind # "reversal"
  BY <1>2
<1> QED
  BY <1>7, <1>8, <1>12, <1>13, <1>14, <1>15, <1>16, CommitKeeps

-----------------------------------------------------------------------------
(* The theorems of Payables.                                               *)

LEMMA PayablesInitial == PayablesInit => PayablesInv
<1> SUFFICES ASSUME PayablesInit PROVE PayablesInv
  OBVIOUS
<1>1. Zero \in [Bill -> Nat] /\ \A b \in Bill : Zero[b] = 0
  BY DEF Zero
<1>2. TablesTyped /\ NoneYet
  BY <1>1, StartedAssumption DEF PayablesInit, TablesTyped, NoneYet, NoPayment, Verdicts
<1>3. tx \in [Connection -> Transaction] /\ \A s \in Connection : tx[s] = NoTx
  BY EmptyFits DEF PayablesInit
<1>4. \A s \in Connection : TxFits(tx[s])
  BY <1>3, EmptyFits
<1>5. HeldApart
  <2>1. NoTx.held = {}
    BY DEF NoTx
  <2> QED
    BY <1>3, <2>1 DEF HeldApart
<1>6. \A b \in Bill : Paid(b) = 0 /\ Credited(b) = 0
  <2> TAKE b \in Bill
  <2>1. PICK f, g : f = [p \in Payment |-> paid[p][b]] /\ g = [c \in Credit |-> credited[c][b]]
    OBVIOUS
  <2>2. (\A p \in Payment : f[p] = 0) /\ (\A c \in Credit : g[c] = 0)
    BY <1>1, <2>1 DEF PayablesInit
  <2>3. SumFunctionOnSet(f, Payment) = 0 /\ SumFunctionOnSet(g, Credit) = 0
    BY <2>2, SumZero, PayablesAssumption
  <2> QED
    BY <2>1, <2>3 DEF Paid, Credited, SumOver
<1>7. /\ \A p \in Payment : SumOver(Bill, LAMBDA b : paid[p][b]) = 0
      /\ \A c \in Credit : Used(c) = 0
  <2>1. SumFunctionOnSet(Zero, Bill) = 0
    BY <1>1, SumZero, PayablesAssumption
  <2>2. [b \in Bill |-> Zero[b]] = Zero
    BY <1>1
  <2>3. \A p \in Payment : SumOver(Bill, LAMBDA b : paid[p][b]) = 0
    BY <2>1, <2>2 DEF PayablesInit, SumOver
  <2>4. \A c \in Credit : Used(c) = 0
    BY <2>1, <2>2 DEF PayablesInit, Used, SumOver
  <2> QED
    BY <2>3, <2>4
<1>8. WithinAmounts
  <2>1. \A b \in Bill : Settled(b) <= Due[b]
    BY <1>6, PayablesAssumption DEF Settled
  <2>2. \A c \in Credit : Used(c) <= CreditAmount[c]
    BY <1>7, PayablesAssumption
  <2>3. PaymentsWhole
    BY <1>7 DEF PaymentsWhole, PayablesInit, NoPayment, SumOver
  <2> QED
    BY <2>1, <2>2, <2>3, WithinParts DEF BillsWithin, CreditsWithin
<1>9. BalancesTold
  <2>1. \A b \in Invoice : invoiceStatus[b] = StatusFor(Due[b], Paid(b) + Credited(b))
    <3> TAKE b \in Invoice
    <3>1. b \in Bill /\ Due[b] \in Nat /\ Due[b] > 0 /\ Paid(b) = 0 /\ Credited(b) = 0 /\ invoiceStatus[b] = "unpaid"
      BY <1>6, PayablesAssumption DEF PayablesInit
    <3> QED
      BY <3>1 DEF StatusFor
  <2>2. \A c \in Credit : allocated[c] = Used(c)
    BY <1>7 DEF PayablesInit
  <2> QED
    BY <2>1, <2>2 DEF BalancesTold
<1>10. OneEach
  BY <1>3 DEF OneEach, Paying, NoTx
<1> QED
  BY <1>2, <1>3, <1>4, <1>5, <1>8, <1>9, <1>10 DEF PayablesInv

LEMMA StutterKeeps ==
  ASSUME PayablesInv, UNCHANGED payablesVars
  PROVE  PayablesInv'
<1>1. UNCHANGED <<tables, crossed>> /\ tx' = tx
  BY DEF payablesVars, tables
<1>2. (TablesTyped /\ NoneYet /\ WithinAmounts /\ BalancesTold)'
  BY <1>1, QuietTables DEF PayablesInv
<1>3. HeldApart' /\ OneEach' /\ tx' \in [Connection -> Transaction]
  BY <1>1 DEF PayablesInv, HeldApart, OneEach, Paying
<1>4. \A s \in Connection : TxFits(tx[s])'
  <2> TAKE s \in Connection
  <2>1. PICK w : w = tx[s]
    OBVIOUS
  <2>2. TxFits(w)'
    BY <1>1, <2>1, QuietFits DEF PayablesInv
  <2> QED
    BY <1>1, <2>1, <2>2
<1> QED
  BY <1>2, <1>3, <1>4 DEF PayablesInv

LEMMA PayablesStep == PayablesInv /\ [PayablesNext]_payablesVars => PayablesInv'
<1> SUFFICES ASSUME PayablesInv, [PayablesNext]_payablesVars PROVE PayablesInv'
  OBVIOUS
<1>1. CASE UNCHANGED payablesVars
  BY <1>1, StutterKeeps
<1>2. CASE PayablesNext
  <2>1. PICK s \in Connection :
          \/ OfPayment(s) \/ OfReversal(s) \/ OfCredit(s)
          \/ ChooseSequence(s) \/ Assess(s) \/ Mark(s) \/ Abort(s)
    BY <1>2 DEF PayablesNext
  <2>2. CASE OfPayment(s)
    BY <2>2, BeginKeeps, CreatePaymentKeeps, AllocateKeeps, CommitPaymentKeeps DEF OfPayment
  <2>3. CASE OfReversal(s)
    BY <2>3, ReadPaymentKeeps, ListAllocationsKeeps, DeleteAllocationsKeeps, CommitReversalKeeps,
       ReopenKeeps DEF OfReversal
  <2>4. CASE OfCredit(s)
    <3>1. CASE \E c \in Credit, use \in Uses :
                 \/ \E b \in Invoice : ReadCredit(s, "apply", c, b, use)
                 \/ ReadCredit(s, "refund", c, 0, use)
      <4>1. PICK c \in Credit, use \in Uses :
              \/ \E b \in Invoice : ReadCredit(s, "apply", c, b, use)
              \/ ReadCredit(s, "refund", c, 0, use)
        BY <3>1
      <4>2. CASE \E b \in Invoice : ReadCredit(s, "apply", c, b, use)
        <5>1. PICK b \in Invoice : ReadCredit(s, "apply", c, b, use)
          BY <4>2
        <5>2. PICK kind \in {"apply", "refund"} : kind = "apply" /\ ReadCredit(s, kind, c, b, use)
          BY <5>1
        <5>3. b \in Invoice \cup {0} /\ (kind = "apply" => b \in Invoice)
          BY <5>1
        <5> QED
          BY <5>2, <5>3, ReadCreditKeeps
      <4>3. CASE ReadCredit(s, "refund", c, 0, use)
        <5>1. PICK kind \in {"apply", "refund"}, b \in Invoice \cup {0} :
                kind = "refund" /\ ReadCredit(s, kind, c, b, use)
          BY <4>3
        <5> QED
          BY <5>1, ReadCreditKeeps
      <4> QED
        BY <4>1, <4>2, <4>3
    <3>2. CASE Apply(s) \/ Refund(s) \/ TotalCredit(s) \/ MarkCredit(s) \/ CommitCredit(s)
      BY <3>2, ApplyKeeps, RefundKeeps, TotalCreditKeeps, MarkCreditKeeps, CommitCreditKeeps
    <3> QED
      BY <2>4, <3>1, <3>2 DEF OfCredit
  <2>5. CASE ChooseSequence(s) \/ Assess(s) \/ Mark(s)
    BY <2>5, ChooseSequenceKeeps, AssessKeeps, MarkKeeps
  <2>6. CASE Abort(s)
    BY <2>6, RollbackKeeps DEF Abort
  <2> QED
    BY <2>1, <2>2, <2>3, <2>4, <2>5, <2>6
<1> QED
  BY <1>1, <1>2

\* What transactions have read, marked and hold is as the invariant says, at
\* every moment of any payments, reversals, applications and refunds, whatever
\* sequence rows they take their numbers from: what keeps two of them apart is
\* a row that both lock, and nothing else
\* (supplier_ap_services.py 116-469).
THEOREM PayablesInductive == PayablesSpec => []PayablesInv
BY PayablesInitial, PayablesStep, PTL DEF PayablesSpec

\* For any bills, payments and credits, of any amounts and any years: payments
\* keep within their amounts, and so do bills and credits on whose balance no
\* two transactions met but such as lock the same sequence row.  Payments dated
\* in different years, the first ones of a year and those numbered by the
\* fallback lock none in common, and are excepted (models.py 2071-2098).
THEOREM AmountsKept == PayablesSpec => []WithinAmounts
<1>1. PayablesInv => WithinAmounts
  BY DEF PayablesInv
<1> QED
  BY <1>1, PayablesInductive, PTL

\* The status of an invoice and the amount a credit has left tell what the
\* allocations, applications and refunds add up to (models.py 1985-1997,
\* 2238-2257), but for one on which two transactions met that
\* lock no sequence row in common.
THEOREM BalancesAreTold == PayablesSpec => []BalancesTold
<1>1. PayablesInv => BalancesTold
  BY DEF PayablesInv
<1> QED
  BY <1>1, PayablesInductive, PTL

=============================================================================
