------------------------- MODULE OfflineSalesProofs -------------------------
(***************************************************************************)
(* For any number of devices, pages, workers and sales: a sale is recorded *)
(* at most once, and never lost between its outbox and the server.         *)
(***************************************************************************)
EXTENDS OfflineSales, FiniteSetTheorems, WellFoundedInduction, TLAPS

-----------------------------------------------------------------------------
(* The inductive invariant.                                                *)

\* The places of a worker within a sale's transaction, before and after the
\* insertion of the Sale row.
Before == {"number", "insert"}
Booked == {"line", "second"}

\* What a request tells by itself: the sale it works on is one of the batch, and
\* the lines done are those that have left the stock, all of them on a terminal.
LinesDone(r) ==
  /\ r.line - 1 \in 0..Len(Basket(r)) /\ r.moved \subseteq 1..(r.line - 1)
  /\ OnTerminal(r) => r.moved = 1..(r.line - 1)
  /\ r.at = "second" => r.line <= Len(Basket(r))
Sound(r) ==
  /\ r.at \in Before \cup Booked => r.todo # {}
  /\ r.at \notin Booked => r.line = 1 /\ r.moved = {}
  /\ r.at \in Booked => LinesDone(r)
RequestsSound == \A w \in Worker : Sound(work[w])

\* Whoever has inserted a sale holds its key and its number, which no committed
\* sale has; and a row is held by one transaction.
Reserved(r) == UniqueRows(r) \subseteq r.held /\ Current(r) \notin Keys /\ r.number \notin Numbers
KeysReserved == \A w \in Worker : work[w].at \in Booked => Reserved(work[w])
HeldApart == \A v, w \in Worker : v # w => work[v].held \cap work[w].held = {}

\* Only what is recorded, or torn, is acknowledged.
AcksTrue ==
  /\ \A w \in Worker : work[w].acked \subseteq Keys \cup torn
  /\ \A p \in Page : pages[p].acked \subseteq Keys \cup torn

IInv ==
  /\ TypeOK /\ IsFiniteSet(sales)
  /\ RequestsSound /\ KeysReserved /\ HeldApart /\ AcksTrue
  /\ RecordedOnce /\ NothingLost

-----------------------------------------------------------------------------
(* Lemmas on the operators.                                                *)

\* A set of keys that is not empty has a first one, which Current picks: that
\* is the well-foundedness of the naturals.
LEMMA MinIn ==
  ASSUME NEW S, S \subseteq Nat, S # {}
  PROVE  Min(S) \in S
<1> DEFINE R == {ss \in Nat \X Nat : ss[1] < ss[2]}
<1>1. IsWellFoundedOn(R, Nat)
  BY NatLessThanWellFounded DEF OpToRel
<1> HIDE DEF R
<1>2. PICK m \in S : \A y \in S : ~(<<y, m>> \in R)
  BY <1>1, WFMin
<1>3. ASSUME NEW y \in S PROVE m =< y
  <2>1. y \in Nat /\ m \in Nat
    OBVIOUS
  <2>2. <<y, m>> \in R <=> y < m
    BY <2>1 DEF R
  <2> QED
    BY <1>2, <2>1, <2>2
<1> QED
  BY <1>3 DEF Min

\* The sale a request works on is a sale of its batch, with its basket.
LEMMA CurrentTyped ==
  ASSUME NEW r \in Request, r.todo # {}
  PROVE  /\ Current(r) \in Sale /\ Current(r) \in r.todo
         /\ Basket(r) \in Seq(Product)
<1>1. Current(r) \in r.todo
  BY MinIn, OfflineAssumption DEF Request, Current
<1> QED
  BY <1>1, OfflineAssumption DEF Request, Basket

\* An idle worker, and one that goes on to the next sale of its batch.
LEMMA FreeSound ==
  /\ Free \in Request /\ Sound(Free)
  /\ Free.at = "idle" /\ Free.acked = {} /\ Free.held = {} /\ Free.line = 1 /\ Free.moved = {}
  BY DEF Free, Request, Place, Sound, Before, Booked

LEMMA PassedSound ==
  ASSUME NEW r \in Request, NEW A \in SUBSET Sale
  PROVE  /\ Passed(r, A) \in Request /\ Sound(Passed(r, A))
         /\ Passed(r, A).at = "look" /\ Passed(r, A).held = {} /\ Passed(r, A).acked = A
<1> HIDE DEF Free
<1>1. /\ Passed(r, A).at = "look" /\ Passed(r, A).held = {} /\ Passed(r, A).acked = A
      /\ Passed(r, A).line = 1 /\ Passed(r, A).moved = {}
  BY FreeSound DEF Passed, Request
<1>2. Passed(r, A) \in Request
  BY FreeSound DEF Passed, Request, Place
<1> QED
  BY <1>1, <1>2 DEF Sound, Before, Booked

\* A step that only replaces one worker's request keeps the invariant if the new
\* request is as it should be.
LEMMA RequestReplaced ==
  ASSUME IInv, NEW w \in Worker, NEW r \in Request, Becomes(w, r),
         Sound(r), r.at \in Booked => Reserved(r),
         \A v \in Worker \ {w} : work[v].held \cap r.held = {},
         r.acked \subseteq Keys \cup torn,
         UNCHANGED <<outbox, pages, sales, issued, made, torn>>,
         faults' \in 0..MaxFaults
  PROVE  IInv'
<1> USE DEF IInv
<1>1. work \in [Worker -> Request] /\ work' = [work EXCEPT ![w] = r]
  BY DEF TypeOK, Becomes
<1>2. work'[w] = r /\ \A v \in Worker \ {w} : work'[v] = work[v]
  BY <1>1
<1>3. Keys' = Keys /\ Numbers' = Numbers
  BY DEF Keys, Numbers
<1>4. TypeOK'
  BY <1>1 DEF TypeOK
<1>5. RequestsSound'
  BY <1>2 DEF RequestsSound, Sound, LinesDone, Basket, OnTerminal, Current
<1>6. KeysReserved'
  BY <1>2, <1>3 DEF KeysReserved, Reserved, UniqueRows, Current
<1>7. HeldApart'
  BY <1>2 DEF HeldApart
<1>8. AcksTrue'
  BY <1>2, <1>3 DEF AcksTrue
<1>9. RecordedOnce' /\ NothingLost' /\ IsFiniteSet(sales)'
  BY <1>3 DEF RecordedOnce, NothingLost
<1> QED
  BY <1>4, <1>5, <1>6, <1>7, <1>8, <1>9

\* A sale that fails, or that is acknowledged, releases its transaction.
LEMMA SalePassed ==
  ASSUME IInv, NEW w \in Worker, NEW A \in SUBSET Sale, A \subseteq Keys \cup torn,
         Becomes(w, Passed(work[w], A)),
         UNCHANGED <<outbox, pages, sales, issued, made, torn, faults>>
  PROVE  IInv'
<1> DEFINE r == Passed(work[w], A)
<1>1. work[w] \in Request /\ faults' \in 0..MaxFaults
  BY DEF IInv, TypeOK
<1>2. r \in Request /\ Sound(r) /\ r.at = "look" /\ r.held = {} /\ r.acked = A
  BY <1>1, PassedSound
<1> QED
  BY <1>1, <1>2, RequestReplaced DEF Booked

LEMMA FailKeeps ==
  ASSUME IInv, NEW w \in Worker, Fail(w)
  PROVE  IInv'
<1>1. work[w].acked \in SUBSET Sale /\ work[w].acked \subseteq Keys \cup torn
  BY DEF IInv, TypeOK, Request, AcksTrue
<1> QED
  BY <1>1, SalePassed DEF Fail, Failed, Continue

\* The row locks of a request that asks only for rows that are free.
LEMMA StillApart ==
  ASSUME IInv, NEW w \in Worker, NEW R, \A row \in R : Available(w, row)
  PROVE  \A v \in Worker \ {w} : work[v].held \cap (work[w].held \cup R) = {}
  BY DEF IInv, HeldApart, Available

-----------------------------------------------------------------------------
(* The steps of a worker.                                                  *)

LEMMA LookUpKeeps ==
  ASSUME IInv, NEW w \in Worker, LookUp(w)
  PROVE  IInv'
<1> DEFINE r == work[w]
           n == [r EXCEPT !.at = "number"]
<1>1. r \in Request /\ r.at = "look" /\ r.todo # {} /\ faults \in 0..MaxFaults
  BY DEF IInv, TypeOK, LookUp, At
<1>2. r.acked \in SUBSET Sale /\ r.acked \subseteq Keys \cup torn
  BY <1>1 DEF IInv, AcksTrue, Request
<1>3. CASE Current(r) \in Keys
  <2>1. r.acked \cup {Current(r)} \in SUBSET Sale
    BY <1>1, <1>2, CurrentTyped
  <2>2. Becomes(w, Passed(r, r.acked \cup {Current(r)}))
        /\ UNCHANGED <<outbox, pages, sales, issued, made, torn, faults>>
    BY <1>3 DEF LookUp, Continue, Acknowledged
  <2> QED
    BY <1>2, <1>3, <2>1, <2>2, SalePassed
<1>4. CASE Current(r) \notin Keys
  <2>1. Becomes(w, n) /\ UNCHANGED <<outbox, pages, sales, issued, made, torn, faults>>
    BY <1>4 DEF LookUp, Continue
  <2>2. n \in Request /\ n.at = "number" /\ n.held = r.held /\ n.acked = r.acked
    BY <1>1 DEF Request, Place
  <2>3. r.line = 1 /\ r.moved = {}
    BY <1>1 DEF IInv, RequestsSound, Sound, Booked
  <2>4. n.line = 1 /\ n.moved = {} /\ n.todo # {}
    BY <1>1, <2>3 DEF Request
  <2>5. Sound(n)
    BY <2>2, <2>4 DEF Sound, Booked
  <2>6. \A v \in Worker \ {w} : work[v].held \cap n.held = {}
    BY <2>2 DEF IInv, HeldApart
  <2> QED
    BY <1>1, <1>2, <2>1, <2>2, <2>5, <2>6, RequestReplaced DEF Booked
<1> QED
  BY <1>3, <1>4

LEMMA NumberKeeps ==
  ASSUME IInv, NEW w \in Worker, Number(w)
  PROVE  IInv'
<1> DEFINE r == work[w]
           t == [r EXCEPT !.at = "insert", !.number = issued + 1, !.held = {Sequence}]
           o == [r EXCEPT !.at = "insert", !.number = Earlier + Cardinality(sales) + 1]
<1>1. r \in Request /\ r.at = "number" /\ faults \in 0..MaxFaults /\ issued \in Nat
  BY DEF IInv, TypeOK, Number, At
<1>2. r.acked \subseteq Keys \cup torn
  BY DEF IInv, AcksTrue
<1>3. r.todo # {} /\ r.line = 1 /\ r.moved = {}
  BY <1>1 DEF IInv, RequestsSound, Sound, Before, Booked
<1>4. Cardinality(sales) \in Nat
  BY FS_CardinalityType DEF IInv
<1>5. CASE OnTerminal(r)
  <2>1. Becomes(w, t) /\ UNCHANGED <<outbox, pages, sales, issued, made, torn, faults>>
        /\ Available(w, Sequence)
    BY <1>5 DEF Number, Continue
  <2>2. t \in Request
    <3>1. {Sequence} \in SUBSET Rows
      BY DEF Sequence, Rows
    <3>2. issued + 1 \in Nat
      BY <1>1
    <3> QED
      BY <1>1, <3>1, <3>2 DEF Request, Place
  <2>3. t.at = "insert" /\ t.held = {Sequence} /\ t.acked = r.acked
        /\ t.todo # {} /\ t.line = 1 /\ t.moved = {}
    BY <1>1, <1>3 DEF Request
  <2>4. Sound(t)
    BY <2>3 DEF Sound, Booked
  <2>5. \A v \in Worker \ {w} : work[v].held \cap t.held = {}
    BY <2>1, <2>3 DEF Available
  <2> QED
    BY <1>1, <1>2, <2>1, <2>2, <2>3, <2>4, <2>5, RequestReplaced DEF Booked
<1>6. CASE ~OnTerminal(r)
  <2>1. Becomes(w, o) /\ UNCHANGED <<outbox, pages, sales, issued, made, torn, faults>>
    BY <1>6 DEF Number, Continue
  <2>2. o \in Request
    <3>1. Earlier + Cardinality(sales) + 1 \in Nat
      BY <1>4, OfflineAssumption
    <3> QED
      BY <1>1, <3>1 DEF Request, Place
  <2>3. o.at = "insert" /\ o.held = r.held /\ o.acked = r.acked
        /\ o.todo # {} /\ o.line = 1 /\ o.moved = {}
    BY <1>1, <1>3 DEF Request
  <2>4. Sound(o)
    BY <2>3 DEF Sound, Booked
  <2>5. \A v \in Worker \ {w} : work[v].held \cap o.held = {}
    BY <2>3 DEF IInv, HeldApart
  <2> QED
    BY <1>1, <1>2, <2>1, <2>2, <2>3, <2>4, <2>5, RequestReplaced DEF Booked
<1> QED
  BY <1>5, <1>6

LEMMA InsertKeeps ==
  ASSUME IInv, NEW w \in Worker, Insert(w)
  PROVE  IInv'
<1> DEFINE r == work[w]
           n == [r EXCEPT !.at = "line", !.held = @ \cup UniqueRows(r)]
<1>1. r \in Request /\ r.at = "insert" /\ faults \in 0..MaxFaults
  BY DEF IInv, TypeOK, Insert, At
<1>2. r.acked \subseteq Keys \cup torn
  BY DEF IInv, AcksTrue
<1>3. r.todo # {} /\ r.line = 1 /\ r.moved = {}
  BY <1>1 DEF IInv, RequestsSound, Sound, Before, Booked
<1>4. CASE Taken(r)
  BY <1>4, FailKeeps DEF Insert
<1>5. CASE ~Taken(r)
  <2>1. Becomes(w, n) /\ UNCHANGED <<outbox, pages, sales, issued, made, torn, faults>>
        /\ \A row \in UniqueRows(r) : Available(w, row)
    BY <1>5 DEF Insert, Continue
  <2>2. UniqueRows(r) \subseteq Rows
    <3>1. Current(r) \in Nat /\ r.number \in Nat
      BY <1>1, <1>3, CurrentTyped, OfflineAssumption DEF Request
    <3> QED
      BY <3>1 DEF UniqueRows, Rows
  <2>3. n \in Request
    BY <1>1, <2>2 DEF Request, Place
  <2>4. n.at = "line" /\ n.held = r.held \cup UniqueRows(r) /\ n.acked = r.acked
        /\ n.todo = r.todo /\ n.line = 1 /\ n.moved = {} /\ n.number = r.number
    BY <1>1, <1>3 DEF Request
  <2>5. Sound(n)
    <3>1. Basket(n) \in Seq(Product)
      BY <1>3, <2>3, <2>4, CurrentTyped
    <3>2. Len(Basket(n)) \in Nat
      BY <3>1
    <3>3. n.line - 1 = 0 /\ 1..(n.line - 1) = {}
      BY <2>4
    <3>4. LinesDone(n)
      <4>1. n.line - 1 \in 0..Len(Basket(n))
        BY <3>2, <3>3
      <4>2. n.moved = 1..(n.line - 1) /\ n.at # "second"
        BY <2>4, <3>3
      <4> QED
        BY <4>1, <4>2 DEF LinesDone
    <3> QED
      BY <1>3, <2>4, <3>4 DEF Sound, Before, Booked
  <2>6. Reserved(n)
    BY <1>5, <2>4 DEF Reserved, UniqueRows, Current, Taken
  <2>7. \A v \in Worker \ {w} : work[v].held \cap n.held = {}
    BY <2>1, <2>4, StillApart
  <2> QED
    BY <1>1, <1>2, <2>1, <2>3, <2>4, <2>5, <2>6, <2>7, RequestReplaced
<1> QED
  BY <1>4, <1>5

\* What is known of a request that works on its lines.
LEMMA LineFacts ==
  ASSUME IInv, NEW w \in Worker, work[w].at \in Booked
  PROVE  /\ work[w] \in Request /\ work[w].todo # {} /\ LinesDone(work[w])
         /\ Reserved(work[w]) /\ work[w].acked \subseteq Keys \cup torn
         /\ Basket(work[w]) \in Seq(Product) /\ Current(work[w]) \in Sale
         /\ faults \in 0..MaxFaults
<1>1. work[w] \in Request /\ faults \in 0..MaxFaults
  BY DEF IInv, TypeOK
<1>2. work[w].todo # {} /\ LinesDone(work[w]) /\ Reserved(work[w])
  BY DEF IInv, RequestsSound, KeysReserved, Sound
<1> QED
  BY <1>1, <1>2, CurrentTyped DEF IInv, AcksTrue

LEMMA RowTyped ==
  ASSUME NEW r \in Request, r.todo # {}, r.line \in DOMAIN Basket(r), NEW i
  PROVE  RowOf(r, i) \in Rows
<1>1. Basket(r)[r.line] \in Product
  BY CurrentTyped
<1> QED
  BY <1>1 DEF RowOf, Rows

LEMMA LockFirstKeeps ==
  ASSUME IInv, NEW w \in Worker, LockFirst(w)
  PROVE  IInv'
<1> DEFINE r == work[w]
           n == [r EXCEPT !.at = "second", !.held = @ \cup {RowOf(r, 1)}]
<1>1. r.at \in Booked /\ r.line \in DOMAIN Basket(r) /\ Available(w, RowOf(r, 1))
      /\ Becomes(w, n) /\ UNCHANGED <<outbox, pages, sales, issued, made, torn, faults>>
  BY DEF LockFirst, At, Continue, Booked
<1>2. /\ r \in Request /\ r.todo # {} /\ LinesDone(r) /\ Reserved(r)
      /\ r.acked \subseteq Keys \cup torn /\ Basket(r) \in Seq(Product) /\ faults \in 0..MaxFaults
  BY <1>1, LineFacts
<1>3. n \in Request
  BY <1>1, <1>2, RowTyped DEF Request, Place
<1>4. n.at = "second" /\ n.held = r.held \cup {RowOf(r, 1)} /\ n.acked = r.acked
      /\ n.todo = r.todo /\ n.line = r.line /\ n.moved = r.moved /\ n.number = r.number
  BY <1>2 DEF Request
<1>5. Sound(n)
  <2>1. Basket(n) = Basket(r) /\ OnTerminal(n) = OnTerminal(r)
    BY <1>4 DEF Basket, OnTerminal, Current
  <2>2. r.line <= Len(Basket(r))
    BY <1>1, <1>2
  <2>3. LinesDone(n)
    BY <1>2, <1>4, <2>1, <2>2 DEF LinesDone
  <2> QED
    BY <1>2, <1>4, <2>3 DEF Sound, Before, Booked
<1>6. Reserved(n)
  BY <1>2, <1>4 DEF Reserved, UniqueRows, Current
<1>7. \A v \in Worker \ {w} : work[v].held \cap n.held = {}
  <2>1. \A row \in {RowOf(r, 1)} : Available(w, row)
    BY <1>1
  <2>2. \A v \in Worker \ {w} : work[v].held \cap (r.held \cup {RowOf(r, 1)}) = {}
    BY ZenonT(60), <2>1, StillApart
  <2> QED
    BY <1>4, <2>2
<1> QED
  BY <1>1, <1>2, <1>3, <1>4, <1>5, <1>6, <1>7, RequestReplaced

LEMMA DeductKeeps ==
  ASSUME IInv, NEW w \in Worker, Deduct(w)
  PROVE  IInv'
<1> DEFINE r == work[w]
           n == [r EXCEPT !.at = "line", !.held = @ \cup {RowOf(r, 2)},
                          !.moved = @ \cup {r.line}, !.line = @ + 1]
<1>1. r.at \in Booked /\ r.at = "second" /\ Available(w, RowOf(r, 2))
      /\ Becomes(w, n) /\ UNCHANGED <<outbox, pages, sales, issued, made, torn, faults>>
  BY DEF Deduct, At, Continue, Booked
<1>2. /\ r \in Request /\ r.todo # {} /\ LinesDone(r) /\ Reserved(r)
      /\ r.acked \subseteq Keys \cup torn /\ Basket(r) \in Seq(Product) /\ faults \in 0..MaxFaults
  BY <1>1, LineFacts
<1>3. r.line \in Nat \ {0} /\ r.line <= Len(Basket(r)) /\ r.line \in DOMAIN Basket(r)
  BY <1>1, <1>2 DEF LinesDone, Request
<1>4. n \in Request
  <2>1. RowOf(r, 2) \in Rows
    BY <1>2, <1>3, RowTyped
  <2>2. r.line + 1 \in Nat \ {0} /\ r.moved \cup {r.line} \in SUBSET Nat
    BY <1>2, <1>3 DEF Request
  <2> QED
    BY <1>2, <2>1, <2>2 DEF Request, Place
<1>5. n.at = "line" /\ n.held = r.held \cup {RowOf(r, 2)} /\ n.acked = r.acked
      /\ n.todo = r.todo /\ n.line = r.line + 1 /\ n.moved = r.moved \cup {r.line}
      /\ n.number = r.number
  BY <1>2 DEF Request
<1>6. Sound(n)
  <2>1. Basket(n) = Basket(r) /\ OnTerminal(n) = OnTerminal(r)
    BY <1>5 DEF Basket, OnTerminal, Current
  <2>2. n.line - 1 = r.line /\ n.line - 1 \in 0..Len(Basket(n))
    BY <1>2, <1>3, <1>5, <2>1
  <2>3. 1..(r.line - 1) \cup {r.line} = 1..r.line
    BY <1>3
  <2>4. LinesDone(n)
    BY <1>2, <1>5, <2>1, <2>2, <2>3 DEF LinesDone
  <2> QED
    BY <1>2, <1>5, <2>4 DEF Sound, Before, Booked
<1>7. Reserved(n)
  BY <1>2, <1>5 DEF Reserved, UniqueRows, Current
<1>8. \A v \in Worker \ {w} : work[v].held \cap n.held = {}
  <2>1. \A row \in {RowOf(r, 2)} : Available(w, row)
    BY <1>1
  <2>2. \A v \in Worker \ {w} : work[v].held \cap (r.held \cup {RowOf(r, 2)}) = {}
    BY ZenonT(60), <2>1, StillApart
  <2> QED
    BY <1>5, <2>2
<1> QED
  BY <1>1, <1>2, <1>4, <1>5, <1>6, <1>7, <1>8, RequestReplaced

\* The victim of a deadlock: the office goes on to the next line without the stock.
LEMMA VictimKeeps ==
  ASSUME IInv, NEW w \in Worker, DeadlockVictim(w)
  PROVE  IInv'
<1> DEFINE r == work[w]
           n == [r EXCEPT !.at = "line", !.line = @ + 1]
<1>1. CASE ~(At(w, "second") /\ ~OnTerminal(r))
  BY <1>1, FailKeeps DEF DeadlockVictim
<1>2. CASE At(w, "second") /\ ~OnTerminal(r)
  <2>1. r.at \in Booked /\ r.at = "second" /\ ~OnTerminal(r)
        /\ Becomes(w, n) /\ UNCHANGED <<outbox, pages, sales, issued, made, torn, faults>>
    BY <1>2 DEF DeadlockVictim, At, Continue, Booked
  <2>2. /\ r \in Request /\ r.todo # {} /\ LinesDone(r) /\ Reserved(r)
        /\ r.acked \subseteq Keys \cup torn /\ Basket(r) \in Seq(Product) /\ faults \in 0..MaxFaults
    BY <2>1, LineFacts
  <2>3. r.line \in Nat \ {0} /\ r.line <= Len(Basket(r))
    BY <2>1, <2>2 DEF LinesDone, Request
  <2>4. n \in Request
    <3>1. r.line + 1 \in Nat \ {0}
      BY <2>3
    <3> QED
      BY <2>2, <3>1 DEF Request, Place
  <2>5. n.at = "line" /\ n.held = r.held /\ n.acked = r.acked /\ n.todo = r.todo
        /\ n.line = r.line + 1 /\ n.moved = r.moved /\ n.number = r.number
    BY <2>2 DEF Request
  <2>6. Sound(n)
    <3>1. Basket(n) = Basket(r) /\ OnTerminal(n) = OnTerminal(r)
      BY <2>5 DEF Basket, OnTerminal, Current
    <3>2. n.line - 1 = r.line /\ n.line - 1 \in 0..Len(Basket(n))
      BY <2>2, <2>3, <2>5, <3>1
    <3>3. 1..(r.line - 1) \subseteq 1..r.line
      BY <2>3
    <3>4. LinesDone(n)
      BY <2>1, <2>2, <2>5, <3>1, <3>2, <3>3 DEF LinesDone
    <3> QED
      BY <2>2, <2>5, <3>4 DEF Sound, Before, Booked
  <2>7. Reserved(n)
    BY <2>2, <2>5 DEF Reserved, UniqueRows, Current
  <2>8. \A v \in Worker \ {w} : work[v].held \cap n.held = {}
    BY <2>5 DEF IInv, HeldApart
  <2> QED
    BY <2>1, <2>2, <2>4, <2>5, <2>6, <2>7, <2>8, RequestReplaced
<1> QED
  BY <1>1, <1>2

LEMMA DieKeeps ==
  ASSUME IInv, NEW w \in Worker, Die(w)
  PROVE  IInv'
<1>1. Becomes(w, Free) /\ UNCHANGED <<outbox, pages, sales, issued, made, torn>>
  BY DEF Die
<1>2. faults' \in 0..MaxFaults
  BY OfflineAssumption DEF Die, Fault, IInv, TypeOK
<1> QED
  BY <1>1, <1>2, FreeSound, RequestReplaced DEF Booked

\* The row of a sale that is committed: its key and its number are new, and on a
\* terminal all its lines have left the stock.
LEMMA RowNew ==
  ASSUME IInv, NEW w \in Worker, Complete(w)
  PROVE  /\ Row(work[w]) \in [key : Sale, number : Nat, moved : SUBSET Nat]
         /\ Row(work[w]).key \notin Keys /\ Row(work[w]).number \notin Numbers
         /\ OnTerminal(work[w]) => Row(work[w]).moved = DOMAIN Lines[Row(work[w]).key]
<1> DEFINE r == work[w]
<1>1. r.at \in Booked /\ r.line \notin DOMAIN Basket(r)
  BY DEF Complete, At, Booked
<1>2. /\ r \in Request /\ LinesDone(r) /\ Reserved(r)
      /\ Basket(r) \in Seq(Product) /\ Current(r) \in Sale
  BY <1>1, LineFacts
<1>3. r.line - 1 = Len(Basket(r))
  <2>1. r.line \in Nat \ {0} /\ r.line - 1 \in 0..Len(Basket(r)) /\ ~(r.line \in 1..Len(Basket(r)))
    BY <1>1, <1>2 DEF LinesDone, Request
  <2>2. Len(Basket(r)) \in Nat
    BY <1>2
  <2> QED
    BY <2>1, <2>2
<1>4. OnTerminal(r) => r.moved = DOMAIN Basket(r)
  BY <1>2, <1>3 DEF LinesDone
<1> QED
  BY <1>2, <1>4 DEF Row, Reserved, Basket, Request

LEMMA CommitKeeps ==
  ASSUME IInv, NEW w \in Worker, Commit(w)
  PROVE  IInv'
<1> DEFINE r == work[w]
           n == Acknowledged(r)
<1>1. /\ Complete(w) /\ sales' = sales \cup {Row(r)} /\ issued' = IF OnTerminal(r) THEN r.number ELSE issued
      /\ Becomes(w, n) /\ UNCHANGED <<outbox, pages, made, torn, faults>>
  BY DEF Commit
<1>2. r.at \in Booked
  BY <1>1 DEF Complete, At, Booked
<1>3. /\ r \in Request /\ Reserved(r) /\ r.acked \subseteq Keys \cup torn /\ Current(r) \in Sale
  BY <1>2, LineFacts
<1>4. Row(r).key = Current(r) /\ Row(r).number = r.number
  BY DEF Row
<1>5. Keys' = Keys \cup {Current(r)} /\ Numbers' = Numbers \cup {r.number}
  BY <1>1, <1>4 DEF Keys, Numbers
<1>6. n \in Request /\ Sound(n) /\ n.at = "look" /\ n.held = {} /\ n.acked = r.acked \cup {Current(r)}
  <2>1. r.acked \cup {Current(r)} \in SUBSET Sale
    BY <1>3 DEF Request
  <2> QED
    BY <1>3, <2>1, PassedSound DEF Acknowledged
<1>7. work'[w] = n /\ \A v \in Worker \ {w} : work'[v] = work[v]
  BY <1>1 DEF Becomes, IInv, TypeOK
<1>8. TypeOK' /\ IsFiniteSet(sales')
  <2>1. issued' \in Nat
    BY <1>1, <1>3 DEF IInv, TypeOK, Request
  <2>2. sales' \subseteq [key : Sale, number : Nat, moved : SUBSET Nat]
    BY <1>1, RowNew DEF IInv, TypeOK
  <2>3. work' \in [Worker -> Request]
    BY <1>1, <1>6 DEF Becomes, IInv, TypeOK
  <2>4. IsFiniteSet(sales')
    BY <1>1, FS_AddElement DEF IInv
  <2> QED
    BY <1>1, <2>1, <2>2, <2>3, <2>4 DEF IInv, TypeOK
<1>9. RequestsSound'
  BY <1>6, <1>7 DEF IInv, RequestsSound, Sound, LinesDone, Basket, OnTerminal, Current
<1>10. KeysReserved'
  <2>1. ASSUME NEW v \in Worker, v # w, work[v].at \in Booked
        PROVE  Current(work[v]) # Current(r) /\ work[v].number # r.number
    <3>1. UniqueRows(work[v]) \subseteq work[v].held /\ UniqueRows(r) \subseteq r.held
      BY <1>3, <2>1 DEF IInv, KeysReserved, Reserved
    <3>2. UniqueRows(work[v]) \cap UniqueRows(r) = {}
      BY <2>1, <3>1 DEF IInv, HeldApart
    <3> QED
      BY <3>2 DEF UniqueRows
  <2>2. ASSUME NEW v \in Worker, work'[v].at \in Booked
        PROVE  Reserved(work[v])' /\ v # w
    <3>1. v # w /\ work'[v] = work[v]
      BY <1>6, <1>7, <2>2 DEF Booked
    <3> QED
      BY <1>5, <2>1, <2>2, <3>1 DEF IInv, KeysReserved, Reserved, UniqueRows, Current
  <2> QED
    BY <2>2 DEF KeysReserved
<1>11. HeldApart'
  BY <1>6, <1>7 DEF IInv, HeldApart
<1>12. AcksTrue'
  BY <1>1, <1>3, <1>5, <1>6, <1>7 DEF IInv, AcksTrue
<1>13. RecordedOnce'
  <2>1. \A q \in sales : q.key \in Keys /\ q.number \in Numbers
    BY DEF Keys, Numbers
  <2>2. \A q, s \in sales' : q.key = s.key \/ q.number = s.number => q = s
    BY <1>1, <2>1, RowNew DEF IInv, RecordedOnce
  <2>3. \A q \in sales' : Home[q.key] \in Terminal => q.moved = DOMAIN Lines[q.key]
    BY <1>1, <1>4, RowNew DEF IInv, RecordedOnce, OnTerminal
  <2> QED
    BY <2>2, <2>3 DEF RecordedOnce
<1>14. NothingLost'
  BY <1>1, <1>5 DEF IInv, NothingLost
<1> QED
  BY <1>8, <1>9, <1>10, <1>11, <1>12, <1>13, <1>14 DEF IInv

LEMMA CommitFailsKeeps ==
  ASSUME IInv, NEW w \in Worker, CommitFails(w)
  PROVE  IInv'
<1> DEFINE r == work[w]
           n == Acknowledged(r)
<1>1. /\ Complete(w) /\ torn' = torn \cup {Current(r)} /\ faults' \in 0..MaxFaults
      /\ Becomes(w, n) /\ UNCHANGED <<outbox, pages, sales, issued, made>>
  BY OfflineAssumption DEF CommitFails, Fault, IInv, TypeOK
<1>2. r.at \in Booked
  BY <1>1 DEF Complete, At, Booked
<1>3. r \in Request /\ r.acked \subseteq Keys \cup torn /\ Current(r) \in Sale
  BY <1>2, LineFacts
<1>4. Keys' = Keys /\ Numbers' = Numbers
  BY <1>1 DEF Keys, Numbers
<1>5. n \in Request /\ Sound(n) /\ n.at = "look" /\ n.held = {} /\ n.acked = r.acked \cup {Current(r)}
  <2>1. r.acked \cup {Current(r)} \in SUBSET Sale
    BY <1>3 DEF Request
  <2> QED
    BY <1>3, <2>1, PassedSound DEF Acknowledged
<1>6. work'[w] = n /\ \A v \in Worker \ {w} : work'[v] = work[v]
  BY <1>1 DEF Becomes, IInv, TypeOK
<1>7. TypeOK' /\ IsFiniteSet(sales')
  BY <1>1, <1>3, <1>5 DEF Becomes, IInv, TypeOK
<1>8. RequestsSound'
  BY <1>5, <1>6 DEF IInv, RequestsSound, Sound, LinesDone, Basket, OnTerminal, Current
<1>9. KeysReserved'
  BY <1>4, <1>5, <1>6 DEF IInv, KeysReserved, Reserved, UniqueRows, Current, Booked
<1>10. HeldApart'
  BY <1>5, <1>6 DEF IInv, HeldApart
<1>11. AcksTrue'
  BY <1>1, <1>3, <1>4, <1>5, <1>6 DEF IInv, AcksTrue
<1>12. RecordedOnce' /\ NothingLost'
  BY <1>1, <1>4 DEF IInv, RecordedOnce, NothingLost
<1> QED
  BY <1>7, <1>8, <1>9, <1>10, <1>11, <1>12 DEF IInv

-----------------------------------------------------------------------------
(* The steps of a page, and those between a page and a worker.             *)

\* A step that leaves the server's rows alone, and neither loses a sale nor
\* acknowledges more, keeps the invariant.
LEMMA ServerUntouched ==
  ASSUME IInv, TypeOK', UNCHANGED <<sales, torn>>,
         \A w \in Worker : \/ work'[w] = work[w]
                         \/ /\ Sound(work'[w]) /\ work'[w].at \notin Booked
                            /\ work'[w].held = {} /\ work'[w].acked = {},
         \A p \in Page : pages'[p].acked \subseteq Keys \cup torn,
         NothingLost'
  PROVE  IInv'
<1>1. Keys' = Keys /\ Numbers' = Numbers
  BY DEF Keys, Numbers
<1>2. RequestsSound'
  BY DEF IInv, RequestsSound, Sound, LinesDone, Basket, OnTerminal, Current
<1>3. KeysReserved'
  BY <1>1 DEF IInv, KeysReserved, Reserved, UniqueRows, Current
<1>4. HeldApart'
  BY DEF IInv, HeldApart
<1>5. AcksTrue'
  BY <1>1 DEF IInv, AcksTrue
<1> QED
  BY <1>2, <1>3, <1>4, <1>5 DEF IInv, RecordedOnce

LEMMA MakeSaleKeeps ==
  ASSUME IInv, NEW k \in Sale, MakeSale(k)
  PROVE  IInv'
<1>1. /\ outbox' = [outbox EXCEPT ![Home[k]] = @ \cup {k}] /\ made' = made \cup {k}
      /\ UNCHANGED <<pages, work, sales, issued, torn, faults>>
  BY DEF MakeSale
<1>2. outbox \in [Device -> SUBSET Sale] /\ made \subseteq Sale /\ Home \in [Sale -> Device]
  BY OfflineAssumption DEF IInv, TypeOK
<1>3. TypeOK'
  BY <1>1, <1>2 DEF IInv, TypeOK
<1>4. NothingLost'
  BY <1>1, <1>2 DEF IInv, NothingLost, Keys
<1> QED
  BY <1>1, <1>3, <1>4, ServerUntouched DEF IInv, AcksTrue

LEMMA SendKeeps ==
  ASSUME IInv, NEW p \in Page, NEW w \in Worker, Send(p, w)
  PROVE  IInv'
<1> DEFINE n == [Free EXCEPT !.at = "look", !.client = p, !.todo = outbox[DeviceOf[p]]]
           q == [Quiet EXCEPT !.at = "wait", !.server = w]
<1> HIDE DEF Free
<1>1. /\ pages' = [pages EXCEPT ![p] = q] /\ Becomes(w, n)
      /\ UNCHANGED <<outbox, sales, issued, made, torn, faults>>
  BY DEF Send
<1>2. q \in Waiting /\ q.acked = {}
  BY DEF Quiet, Waiting
<1>3. outbox[DeviceOf[p]] \in SUBSET Sale
  BY OfflineAssumption DEF IInv, TypeOK
<1>4. n \in Request
  BY <1>3, FreeSound DEF Request, Place
<1>5. n.at = "look" /\ n.held = {} /\ n.acked = {} /\ n.line = 1 /\ n.moved = {}
  BY FreeSound DEF Request
<1>6. Sound(n) /\ n.at \notin Booked
  BY <1>5 DEF Sound, Before, Booked
<1> HIDE DEF n, q
<1>7. TypeOK'
  BY <1>1, <1>2, <1>4 DEF IInv, TypeOK, Becomes
<1>8. \A v \in Worker : \/ work'[v] = work[v]
                       \/ /\ Sound(work'[v]) /\ work'[v].at \notin Booked
                          /\ work'[v].held = {} /\ work'[v].acked = {}
  BY <1>1, <1>5, <1>6 DEF IInv, TypeOK, Becomes
<1>9. \A o \in Page : pages'[o].acked \subseteq Keys \cup torn
  BY <1>1, <1>2 DEF IInv, TypeOK, AcksTrue
<1>10. NothingLost'
  BY <1>1 DEF IInv, NothingLost, Keys
<1> QED
  BY <1>1, <1>7, <1>8, <1>9, <1>10, ServerUntouched

LEMMA AnswerKeeps ==
  ASSUME IInv, NEW w \in Worker, Answer(w)
  PROVE  IInv'
<1> DEFINE p == work[w].client
           q == [Quiet EXCEPT !.at = "answer", !.acked = work[w].acked]
<1>1. /\ pages' = [pages EXCEPT ![p] = q] \/ pages' = pages
      /\ Becomes(w, Free) /\ UNCHANGED <<outbox, sales, issued, made, torn, faults>>
  BY DEF Answer
<1>2. work[w].acked \in SUBSET Sale /\ work[w].acked \subseteq Keys \cup torn
  BY DEF IInv, TypeOK, Request, AcksTrue
<1>3. q \in Waiting /\ q.acked = work[w].acked
  BY <1>2 DEF Quiet, Waiting
<1> HIDE DEF q
<1>4. TypeOK'
  BY <1>1, <1>3, FreeSound DEF IInv, TypeOK, Becomes
<1>5. \A v \in Worker : \/ work'[v] = work[v]
                       \/ /\ Sound(work'[v]) /\ work'[v].at \notin Booked
                          /\ work'[v].held = {} /\ work'[v].acked = {}
  BY <1>1, FreeSound DEF IInv, TypeOK, Becomes, Booked
<1>6. \A o \in Page : pages'[o].acked \subseteq Keys \cup torn
  BY <1>1, <1>2, <1>3 DEF IInv, TypeOK, AcksTrue
<1>7. NothingLost'
  BY <1>1 DEF IInv, NothingLost, Keys
<1> QED
  BY <1>1, <1>4, <1>5, <1>6, <1>7, ServerUntouched

\* A page that gives up its request has nothing acknowledged.
LEMMA QuietKeeps ==
  ASSUME IInv, NEW p \in Page, pages' = [pages EXCEPT ![p] = Quiet],
         UNCHANGED <<outbox, work, sales, issued, made, torn>>, faults' \in 0..MaxFaults
  PROVE  IInv'
<1>1. Quiet \in Waiting /\ Quiet.acked = {}
  BY DEF Quiet, Waiting
<1>2. TypeOK'
  BY <1>1 DEF IInv, TypeOK
<1>3. \A o \in Page : pages'[o].acked \subseteq Keys \cup torn
  BY <1>1 DEF IInv, TypeOK, AcksTrue
<1>4. NothingLost'
  BY DEF IInv, NothingLost, Keys
<1> QED
  BY <1>2, <1>3, <1>4, ServerUntouched

\* What leaves the outbox was acknowledged, so it is recorded or torn.
LEMMA ForgetKeeps ==
  ASSUME IInv, NEW p \in Page, Forget(p)
  PROVE  IInv'
<1> DEFINE d == DeviceOf[p]
<1>1. UNCHANGED <<work, sales, issued, made, torn, faults>> /\ pages[p].acked \subseteq Keys \cup torn
      /\ faults \in 0..MaxFaults /\ d \in Device
  BY OfflineAssumption DEF Forget, IInv, AcksTrue, TypeOK
<1>2. CASE pages[p].acked = {}
  BY <1>1, <1>2, QuietKeeps DEF Forget
<1>3. CASE pages[p].acked # {}
  <2>1. PICK S \in SUBSET pages[p].acked :
          /\ outbox' = [outbox EXCEPT ![d] = @ \ S]
          /\ pages' = [pages EXCEPT ![p].acked = @ \ S]
    BY <1>3 DEF Forget
  <2>2. pages[p] \in Waiting /\ [pages[p] EXCEPT !.acked = @ \ S] \in Waiting
        /\ [pages[p] EXCEPT !.acked = @ \ S].acked = pages[p].acked \ S
    BY DEF IInv, TypeOK, Waiting
  <2>3. TypeOK'
    BY <1>1, <2>1, <2>2 DEF IInv, TypeOK
  <2>4. \A o \in Page : pages'[o].acked \subseteq Keys \cup torn
    BY <1>1, <2>1, <2>2 DEF IInv, TypeOK, AcksTrue
  <2>5. NothingLost'
    <3>1. \A k \in made : k \in (outbox[Home[k]] \ S) \cup Keys \cup torn
      BY <1>1, <2>1 DEF IInv, NothingLost
    <3>2. \A k \in made : outbox[Home[k]] \ S \subseteq outbox'[Home[k]]
      BY <1>1, <2>1, OfflineAssumption DEF IInv, TypeOK
    <3> QED
      BY <1>1, <3>1, <3>2 DEF NothingLost, Keys
  <2> QED
    BY <1>1, <2>3, <2>4, <2>5, ServerUntouched
<1> QED
  BY <1>2, <1>3

-----------------------------------------------------------------------------
(* The theorems.                                                           *)

LEMMA InitHolds == Init => IInv
<1> SUFFICES ASSUME Init PROVE IInv
  OBVIOUS
<1>1. Quiet \in Waiting /\ Quiet.acked = {}
  BY DEF Quiet, Waiting
<1>2. TypeOK
  BY <1>1, FreeSound, OfflineAssumption DEF Init, TypeOK
<1>3. Keys = {} /\ IsFiniteSet(sales)
  BY FS_EmptySet DEF Init, Keys
<1>4. \A w \in Worker : work[w] = Free
  BY DEF Init
<1>5. RequestsSound /\ KeysReserved /\ HeldApart
  BY <1>4, FreeSound DEF RequestsSound, KeysReserved, HeldApart, Booked
<1>6. AcksTrue
  BY <1>1, <1>4, FreeSound DEF Init, AcksTrue
<1>7. RecordedOnce /\ NothingLost
  BY DEF Init, RecordedOnce, NothingLost
<1> QED
  BY <1>2, <1>3, <1>5, <1>6, <1>7 DEF IInv

LEMMA StepHolds == IInv /\ [Next]_vars => IInv'
<1> SUFFICES ASSUME IInv, [Next]_vars PROVE IInv'
  OBVIOUS
<1>1. ASSUME NEW k \in Sale, MakeSale(k) PROVE IInv'
  BY <1>1, MakeSaleKeeps
<1>2. ASSUME NEW p \in Page, PageStep(p) \/ Break(p) PROVE IInv'
  <2>1. CASE \E w \in Worker : Send(p, w)
    BY <2>1, SendKeeps
  <2>2. CASE Forget(p)
    BY <2>2, ForgetKeeps
  <2>3. CASE NoAnswer(p)
    BY <2>3, QuietKeeps DEF NoAnswer, IInv, TypeOK
  <2>4. CASE Break(p)
    <3>1. faults' \in 0..MaxFaults
      BY <2>4, OfflineAssumption DEF Break, Fault, IInv, TypeOK
    <3> QED
      BY <2>4, <3>1, QuietKeeps DEF Break
  <2> QED
    BY <1>2, <2>1, <2>2, <2>3, <2>4 DEF PageStep
<1>3. ASSUME NEW w \in Worker, Step(w) PROVE IInv'
  <2>1. CASE Pay(w)
    BY <2>1, FailKeeps DEF Pay
  <2> QED
    BY <1>3, <2>1, LookUpKeeps, NumberKeeps, InsertKeeps, LockFirstKeeps, DeductKeeps,
       CommitKeeps, AnswerKeeps DEF Step
<1>4. ASSUME NEW w \in Worker, CommitFails(w) \/ Die(w) \/ DeadlockVictim(w) PROVE IInv'
  BY <1>4, CommitFailsKeeps, DieKeeps, VictimKeeps
<1>5. CASE UNCHANGED vars
  <2>1. TypeOK'
    BY <1>5 DEF IInv, TypeOK, vars
  <2>2. NothingLost'
    BY <1>5 DEF IInv, NothingLost, Keys, vars
  <2> QED
    BY <1>5, <2>1, <2>2, ServerUntouched DEF vars, IInv, AcksTrue
<1> QED
  BY <1>1, <1>2, <1>3, <1>4, <1>5 DEF Next

\* The inductive invariant holds of every reachable state: of every sale by a
\* terminal or an office, sent by any page to any worker.
\* (process_sync, sync_offline_sales_view and the pages that call them.)
THEOREM InvariantHolds == Spec => []IInv
<1>1. Init => IInv
  BY InitHolds
<1>2. IInv /\ [Next]_vars => IInv'
  BY StepHolds
<1> QED
  BY <1>1, <1>2, PTL DEF Spec

\* State and requests have their types.
\* (The stores of IndexedDB, and a request's variables on the server.)
THEOREM TypeCorrect == Spec => []TypeOK
<1>1. IInv => TypeOK
  BY DEF IInv
<1> QED
  BY <1>1, InvariantHolds, PTL

\* One row records a sale however often it is sent, no two share a number, and a
\* terminal's sale is whole.
\* (The unique constraints of Sale, behind a look-up that holds nothing.)
THEOREM RecordedAtMostOnce == Spec => []RecordedOnce
<1>1. IInv => RecordedOnce
  BY DEF IInv
<1> QED
  BY <1>1, InvariantHolds, PTL

\* A sale that was made is pending, recorded, or torn by a commit that failed
\* after the sale had been acknowledged.
\* (applySyncResponse and sync, which delete what the answer names.)
THEOREM NoSaleLost == Spec => []NothingLost
<1>1. IInv => NothingLost
  BY DEF IInv
<1> QED
  BY <1>1, InvariantHolds, PTL

=============================================================================
