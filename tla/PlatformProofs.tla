--------------------------- MODULE PlatformProofs ---------------------------
(***************************************************************************)
(* The services of core/ that every other part of the system calls.        *)
(* Document numbers: the documents that a row numbers have different       *)
(* numbers without a gap, for any scopes and transactions.                 *)
(* Background jobs: a job that no admin forced is run by one worker at a   *)
(* time, from a copy that is current, and never again when it is done.     *)
(* Domain events: an event that no admin forced is in the batch of one     *)
(* dispatcher at a time and is given up after its attempts, and every      *)
(* event that counts as dispatched has reached all its subscribers.        *)
(* Approvals: a request is signed step by step, and a purchase order       *)
(* agrees with the engine wherever no view went past it.                   *)
(* The four share no state: each has its invariant and its theorems.       *)
(***************************************************************************)
EXTENDS DocumentNumbering, JobQueue, EventBus, PurchaseApproval,
        SequenceTheorems, FiniteSetTheorems, TLAPS

-----------------------------------------------------------------------------
(***************************************************************************)
(* Document numbers (module DocumentNumbering).                            *)
(***************************************************************************)

-----------------------------------------------------------------------------
(* Rows.                                                                   *)

\* What the end of a transaction leaves of the rows.
LEMMA RowsAfterRows ==
  ASSUME NumberingTypeOK, NEW t \in Tx, NEW committed \in BOOLEAN
  PROVE  /\ RowsAfter(t, committed) \in Seq(Row)
         /\ Len(RowsAfter(t, committed)) = Len(rows)
         /\ DOMAIN RowsAfter(t, committed) = DOMAIN rows
         /\ \A k \in DOMAIN rows :
              LET r == RowsAfter(t, committed)[k]
              IN /\ r.scope = rows[k].scope
                 /\ r.number = IF row[t] = k /\ committed THEN number[t] ELSE rows[k].number
                 /\ r.holder = IF rows[k].holder = t THEN Nobody ELSE rows[k].holder
<1> DEFINE r == RowsAfter(t, committed)
<1>1. Len(rows) \in Nat /\ DOMAIN rows = 1..Len(rows)
  BY LenProperties DEF NumberingTypeOK
<1>2. r = [k \in 1..Len(rows) |->
            [rows[k] EXCEPT
              !.number = IF row[t] = k /\ committed THEN number[t] ELSE rows[k].number,
              !.creator = IF rows[k].creator = t THEN Nobody ELSE rows[k].creator,
              !.gone = rows[k].gone \/ (rows[k].creator = t /\ ~committed),
              !.holder = IF rows[k].holder = t THEN Nobody ELSE rows[k].holder]]
  BY <1>1 DEF RowsAfter, Released
<1>3. ASSUME NEW k \in 1..Len(rows)
      PROVE  /\ r[k] \in Row
             /\ r[k].scope = rows[k].scope
             /\ r[k].number = IF row[t] = k /\ committed THEN number[t] ELSE rows[k].number
             /\ r[k].holder = IF rows[k].holder = t THEN Nobody ELSE rows[k].holder
  <2> DEFINE n == IF row[t] = k /\ committed THEN number[t] ELSE rows[k].number
             c == IF rows[k].creator = t THEN Nobody ELSE rows[k].creator
             g == rows[k].gone \/ (rows[k].creator = t /\ ~committed)
             h == IF rows[k].holder = t THEN Nobody ELSE rows[k].holder
  <2>1. rows[k] \in Row /\ number[t] \in Nat
    BY <1>1, <1>3 DEF NumberingTypeOK
  <2>2. n \in Nat /\ c \in Tx \cup {Nobody} /\ h \in Tx \cup {Nobody}
    BY <2>1 DEF Row
  <2>3. g \in BOOLEAN
    OBVIOUS
  <2>4. r[k] = [rows[k] EXCEPT !.number = n, !.creator = c, !.gone = g, !.holder = h]
    BY <1>2, <1>3, Zenon
  <2> HIDE DEF n, c, g, h
  <2> DEFINE e == [rows[k] EXCEPT !.number = n, !.creator = c, !.gone = g, !.holder = h]
  <2>5. e \in Row /\ e.scope = rows[k].scope /\ e.number = n /\ e.holder = h
    BY <2>1, <2>2, <2>3 DEF Row
  <2>6. r[k] = e
    BY <2>4
  <2> HIDE DEF e
  <2> QED
    BY <2>5, <2>6 DEF n, h
<1> HIDE DEF r
<1>4. r \in [1..Len(rows) -> Row]
  BY <1>2, <1>3
<1>5. r \in Seq(Row) /\ Len(r) = Len(rows) /\ DOMAIN r = 1..Len(rows)
  BY <1>1, <1>4, SeqDef, LenProperties
<1> QED
  BY <1>1, <1>3, <1>5 DEF r

\* What creating a row leaves of them.
LEMMA AppendedRows ==
  ASSUME NumberingTypeOK, NEW r \in Row
  PROVE  /\ Append(rows, r) \in Seq(Row)
         /\ DOMAIN rows = 1..Len(rows) /\ Len(rows) \in Nat
         /\ DOMAIN Append(rows, r) = 1..(Len(rows) + 1)
         /\ Len(Append(rows, r)) = Len(rows) + 1
         /\ Append(rows, r)[Len(rows) + 1] = r
         /\ \A k \in DOMAIN rows : Append(rows, r)[k] = rows[k]
BY LenProperties DEF NumberingTypeOK

\* Locking a row changes nothing else of it, and nothing of the others.
LEMMA LockedRows ==
  ASSUME NumberingTypeOK, NEW t \in Tx, NEW k \in DOMAIN rows
  PROVE  LET r == [rows EXCEPT ![k].holder = t]
         IN /\ r \in Seq(Row) /\ Len(r) = Len(rows) /\ DOMAIN r = DOMAIN rows
            /\ \A j \in DOMAIN rows :
                 /\ r[j].scope = rows[j].scope /\ r[j].number = rows[j].number
                 /\ r[j].holder = IF j = k THEN t ELSE rows[j].holder
<1>1. Len(rows) \in Nat /\ DOMAIN rows = 1..Len(rows) /\ \A j \in 1..Len(rows) : rows[j] \in Row
  BY LenProperties DEF NumberingTypeOK
<1> DEFINE e == [rows[k] EXCEPT !.holder = t]
           r == [rows EXCEPT ![k] = e]
<1>2. /\ e \in Row /\ e.scope = rows[k].scope /\ e.number = rows[k].number
      /\ e.holder = t
  BY <1>1 DEF Row
<1> HIDE DEF e
<1>3. /\ r \in Seq(Row) /\ Len(r) = Len(rows)
      /\ \A j \in 1..Len(rows) : r[j] = IF j = k THEN e ELSE rows[j]
  BY <1>1, <1>2, ExceptSeq DEF NumberingTypeOK
<1>4. DOMAIN r = DOMAIN rows
  OBVIOUS
<1>5. [rows EXCEPT ![k].holder = t] = r
  BY DEF e
<1> QED
  BY <1>1, <1>2, <1>3, <1>4, <1>5

-----------------------------------------------------------------------------
(* The invariant.                                                          *)

\* The invariant holds of the rows the system starts with.
THEOREM NumberingInitial == NumberingInit => NumberingInv
<1> SUFFICES ASSUME NumberingInit PROVE NumberingInv
  OBVIOUS
<1> USE NumberingAssumption DEF NumberingInit
<1>1. /\ Len(rows) = Len(ExistingScopes) /\ Len(ExistingScopes) \in Nat
      /\ DOMAIN ExistingScopes = 1..Len(ExistingScopes) /\ DOMAIN rows = DOMAIN ExistingScopes
      /\ rows \in Seq(Row) /\ \A k \in DOMAIN rows : rows[k].number = Issued[k]
  <2>1. Len(ExistingScopes) \in Nat /\ DOMAIN ExistingScopes = 1..Len(ExistingScopes)
        /\ \A k \in DOMAIN ExistingScopes : ExistingScopes[k] \in Scope
    BY LenProperties
  <2>2. rows \in [1..Len(ExistingScopes) -> Row] /\ \A k \in DOMAIN rows : rows[k].number = Issued[k]
    BY <2>1 DEF Row
  <2>3. rows \in Seq(Row)
    BY <2>1, <2>2, SeqDef
  <2> QED
    BY <2>1, <2>2, <2>3, LenProperties
<1>2. NumberingTypeOK
  BY <1>1 DEF NumberingTypeOK, Pc
<1>3. RowsKnown /\ HolderIsNext /\ PrintedOnce /\ CollidedElsewhere
  BY DEF RowsKnown, HolderIsNext, Holding, PrintedOnce, CollidedElsewhere
<1>4. DocsWithinCounter
  BY DEF DocsWithinCounter
<1>5. RowsKept
  BY <1>1 DEF RowsKept
<1>6. NumbersWithoutGap
  <2> SUFFICES ASSUME NEW k \in DOMAIN ExistingScopes
               PROVE  {number[t] : t \in {u \in docs : row[u] = k}}
                        = (Issued[k] + 1)..rows[k].number
    BY DEF NumbersWithoutGap
  <2>1. {number[t] : t \in {u \in docs : row[u] = k}} = {}
    OBVIOUS
  <2>2. rows[k].number = Issued[k] /\ Issued[k] \in Nat
    BY <1>1
  <2> QED
    BY <2>1, <2>2
<1> QED
  BY <1>2, <1>3, <1>4, <1>5, <1>6 DEF NumberingInv

\* The numbers of a row's documents stay what they are as long as no document
\* is committed and the row's counter stays.
LEMMA SameDocs ==
  ASSUME NumberingInv, docs' = docs, RowsKept', NEW t \in Tx, t \notin docs,
         \A u \in Tx \ {t} : row'[u] = row[u] /\ number'[u] = number[u],
         \A k \in DOMAIN ExistingScopes : rows'[k].number = rows[k].number
  PROVE  NumbersWithoutGap'
<1> SUFFICES ASSUME NEW k \in DOMAIN ExistingScopes
             PROVE  {number'[u] : u \in {v \in docs' : row'[v] = k}}
                      = (Issued[k] + 1)..rows'[k].number
  BY DEF NumbersWithoutGap
<1>1. docs \subseteq Tx \ {t}
  BY DEF NumberingInv, NumberingTypeOK
<1>2. {v \in docs' : row'[v] = k} = {v \in docs : row[v] = k}
  BY <1>1
<1>3. {number'[u] : u \in {v \in docs : row[v] = k}}
        = {number[u] : u \in {v \in docs : row[v] = k}}
  BY <1>1
<1> QED
  BY <1>2, <1>3 DEF NumberingInv, NumbersWithoutGap

\* A step in which t, whose document is not committed, leaves the rows as they
\* are and takes no row.
LEMMA RowsUntouched ==
  ASSUME NumberingInv, NEW t \in Tx, NumberingTypeOK',
         UNCHANGED <<rows, scope, row, docs>>,
         pc'[t] \in Pc \ {"committed", "collided"},
         \A u \in Tx \ {t} : pc'[u] = pc[u] /\ number'[u] = number[u],
         pc'[t] # "commit" => pc[t] \in {"idle", "select", "create", "fallback"},
         pc'[t] = "commit" =>
           /\ pc[t] = "insert" /\ number'[t] = number[t]
           /\ \A u \in Tx \ {t} : SamePrinted(t, u) => pc[u] # "commit" /\ u \notin docs
  PROVE  NumberingInv'
<1> USE DEF NumberingInv
<1>1. RowsKnown'
  BY DEF RowsKnown
<1>2. HolderIsNext'
  BY DEF HolderIsNext, Holding, RowsKnown
<1>3. DocsWithinCounter'
  BY DEF DocsWithinCounter
<1>4. PrintedOnce'
  BY DEF PrintedOnce, SamePrinted, DocsWithinCounter
<1>5. CollidedElsewhere'
  BY DEF CollidedElsewhere, SamePrinted, DocsWithinCounter
<1>6. RowsKept'
  BY DEF RowsKept
<1>7. NumbersWithoutGap'
  BY <1>6, SameDocs DEF DocsWithinCounter, RowsKept
<1> QED
  BY <1>1, <1>2, <1>3, <1>4, <1>5, <1>6, <1>7

\* The end of t's transaction.
LEMMA Ended ==
  ASSUME NumberingInv, NEW t \in Tx, NEW committed \in BOOLEAN,
         pc[t] \in Running, committed => pc[t] = "commit",
         rows' = RowsAfter(t, committed), UNCHANGED <<scope, row, number>>,
         docs' = docs \cup (IF committed THEN {t} ELSE {}),
         pc' = [pc EXCEPT ![t] = IF committed THEN "committed" ELSE pc'[t]],
         committed \/ pc'[t] \in {"rolled_back", "collided"},
         pc'[t] = "collided" => pc[t] = "insert" /\ \E u \in docs : SamePrinted(t, u)
  PROVE  NumberingInv'
<1> USE DEF NumberingInv
<1>1. /\ Len(rows) \in Nat /\ DOMAIN rows = 1..Len(rows)
      /\ \A k \in DOMAIN rows : rows[k].number \in Nat
  <2>1. Len(rows) \in Nat /\ DOMAIN rows = 1..Len(rows)
        /\ \A k \in 1..Len(rows) : rows[k] \in Row
    BY LenProperties DEF NumberingTypeOK
  <2> QED
    BY <2>1 DEF Row
<1>2. /\ rows' \in Seq(Row) /\ Len(rows') = Len(rows) /\ DOMAIN rows' = DOMAIN rows
      /\ \A k \in DOMAIN rows :
           /\ rows'[k].scope = rows[k].scope
           /\ rows'[k].number = IF row[t] = k /\ committed THEN number[t] ELSE rows[k].number
           /\ rows'[k].holder = IF rows[k].holder = t THEN Nobody ELSE rows[k].holder
  BY RowsAfterRows
<1>3. /\ \A u \in Tx \ {t} : pc'[u] = pc[u]
      /\ pc'[t] \in {"committed", "rolled_back", "collided"}
      /\ (pc'[t] = "committed") = committed
  BY DEF NumberingTypeOK
<1>4. t \notin docs
  BY DEF DocsWithinCounter, Running
<1>5. committed /\ row[t] # 0 =>
        /\ row[t] \in DOMAIN rows /\ number[t] = rows[row[t]].number + 1
        /\ \A u \in Tx \ {t} : row[u] = row[t] => ~Holding(u)
  BY DEF RowsKnown, HolderIsNext, Holding
<1>6. NumberingTypeOK'
  BY <1>2, <1>3 DEF NumberingTypeOK, Pc
<1>7. RowsKnown'
  BY <1>2, <1>3 DEF RowsKnown
<1>8. HolderIsNext'
  BY <1>2, <1>3, <1>5 DEF HolderIsNext, Holding, RowsKnown
<1>9. DocsWithinCounter'
  <2>1. docs' = {u \in Tx : pc'[u] = "committed"}
    BY <1>3, <1>4 DEF DocsWithinCounter
  <2>2. ASSUME NEW u \in docs', row'[u] # 0
        PROVE  number'[u] <= rows'[row'[u]].number
    <3>1. row[u] \in DOMAIN rows
      BY <2>1, <2>2 DEF RowsKnown
    <3>2. number[u] \in Nat
      BY <2>1 DEF NumberingTypeOK
    <3>3. CASE u = t
      BY <1>2, <1>4, <3>1, <3>2, <3>3
    <3>4. CASE u # t
      <4>1. number[u] <= rows[row[u]].number
        BY <2>2, <3>4 DEF DocsWithinCounter
      <4> QED
        BY <1>1, <1>2, <1>5, <3>1, <3>2, <4>1
    <3> QED
      BY <3>3, <3>4
  <2> QED
    BY <2>1, <2>2 DEF DocsWithinCounter
<1>10. PrintedOnce'
  BY <1>3 DEF PrintedOnce, SamePrinted
<1>11. CollidedElsewhere'
  <2> SUFFICES ASSUME NEW u \in Tx, pc'[u] = "collided", row[u] # 0
               PROVE  \E v \in docs' : SamePrinted(u, v)' /\ row[v] # row[u]
    BY DEF CollidedElsewhere
  <2>1. CASE u # t
    BY <1>3, <2>1 DEF CollidedElsewhere, SamePrinted
  <2>2. CASE u = t
    <3>1. PICK v \in docs : SamePrinted(t, v)
      BY <2>2
    <3>2. Holding(t) /\ v \in Tx /\ row[t] \in DOMAIN rows
      BY <2>2 DEF Holding, DocsWithinCounter, RowsKnown
    <3>3. row[v] = row[t] => number[v] <= rows[row[t]].number
      BY <2>2 DEF DocsWithinCounter
    <3>4. number[t] = rows[row[t]].number + 1 /\ number[t] = number[v]
      BY <3>1, <3>2 DEF HolderIsNext, SamePrinted
    <3>5. row[v] # row[t]
      BY <1>1, <3>2, <3>3, <3>4
    <3> QED
      BY <2>2, <3>1, <3>5 DEF SamePrinted
  <2> QED
    BY <2>1, <2>2
<1>12. RowsKept'
  <2>1. ASSUME NEW k \in DOMAIN ExistingScopes
        PROVE  k \in DOMAIN rows /\ Issued[k] \in Nat
    BY <1>1, NumberingAssumption, LenProperties DEF RowsKept
  <2>2. \A k \in DOMAIN ExistingScopes : Issued[k] <= rows'[k].number
    BY <1>1, <1>2, <1>5, <2>1 DEF RowsKept
  <2> QED
    BY <1>2, <2>2 DEF RowsKept
<1>13. NumbersWithoutGap'
  <2>1. CASE committed
    <3> SUFFICES ASSUME NEW k \in DOMAIN ExistingScopes
                 PROVE  {number[u] : u \in {v \in docs' : row[v] = k}}
                          = (Issued[k] + 1)..rows'[k].number
      BY DEF NumbersWithoutGap
    <3>1. k \in DOMAIN rows /\ Issued[k] \in Nat /\ k # 0
      BY <1>1, NumberingAssumption, LenProperties DEF RowsKept
    <3>2. {number[u] : u \in {v \in docs : row[v] = k}}
            = (Issued[k] + 1)..rows[k].number
      BY DEF NumbersWithoutGap
    <3>3. CASE row[t] = k
      <4>1. rows'[k].number = number[t] /\ number[t] = rows[k].number + 1
        BY <1>2, <1>5, <2>1, <3>1, <3>3
      <4>2. {number[u] : u \in {v \in docs' : row[v] = k}}
              = {number[u] : u \in {v \in docs : row[v] = k}} \cup {number[t]}
        BY <2>1, <3>3
      <4>3. Issued[k] <= rows[k].number /\ rows[k].number \in Nat
        BY <1>1, <3>1 DEF RowsKept
      <4>4. (Issued[k] + 1)..(rows[k].number + 1)
              = (Issued[k] + 1)..rows[k].number \cup {rows[k].number + 1}
        BY <3>1, <4>3
      <4> QED
        BY <3>2, <4>1, <4>2, <4>4
    <3>4. CASE row[t] # k
      <4>1. rows'[k].number = rows[k].number
        BY <1>2, <3>1, <3>4
      <4>2. {v \in docs' : row[v] = k} = {v \in docs : row[v] = k}
        BY <2>1, <3>4
      <4> QED
        BY <3>2, <4>1, <4>2
    <3> QED
      BY <3>3, <3>4
  <2>2. CASE ~committed
    <3>1. \A k \in DOMAIN ExistingScopes : k \in DOMAIN rows
      BY <1>1, NumberingAssumption, LenProperties DEF RowsKept
    <3>2. \A k \in DOMAIN ExistingScopes : rows'[k].number = rows[k].number
      BY <1>2, <2>2, <3>1
    <3> QED
      BY <1>4, <1>12, <2>2, <3>2, SameDocs
  <2> QED
    BY <2>1, <2>2
<1> QED
  BY <1>6, <1>7, <1>8, <1>9, <1>10, <1>11, <1>12, <1>13

-----------------------------------------------------------------------------
(* One lemma per action that takes a row.                                  *)

LEMMA LockRowStep ==
  ASSUME NumberingInv, NEW t \in Tx, LockRow(t)
  PROVE  NumberingInv'
<1> USE DEF NumberingInv
<1>1. PICK k \in Visible(scope[t]) :
        /\ rows[k].holder = Nobody
        /\ rows' = [rows EXCEPT ![k].holder = t]
        /\ row' = [row EXCEPT ![t] = k]
        /\ number' = [number EXCEPT ![t] = rows[k].number + 1]
  BY DEF LockRow, Unlocked, NextNumber
<1>2. /\ pc[t] = "select" /\ pc' = [pc EXCEPT ![t] = "insert"]
      /\ UNCHANGED <<scope, docs>>
  BY DEF LockRow
<1>3. k \in DOMAIN rows /\ rows[k].scope = scope[t]
  BY DEF Visible
<1>4. /\ Len(rows) \in Nat /\ DOMAIN rows = 1..Len(rows)
      /\ rows[k].number \in Nat
  <2>1. Len(rows) \in Nat /\ DOMAIN rows = 1..Len(rows) /\ rows[k] \in Row
    BY <1>3, LenProperties DEF NumberingTypeOK
  <2> QED
    BY <2>1 DEF Row
<1>5. /\ rows' \in Seq(Row) /\ Len(rows') = Len(rows) /\ DOMAIN rows' = DOMAIN rows
      /\ \A j \in DOMAIN rows :
           /\ rows'[j].scope = rows[j].scope /\ rows'[j].number = rows[j].number
           /\ rows'[j].holder = IF j = k THEN t ELSE rows[j].holder
  BY <1>1, <1>3, LockedRows
<1>6. /\ row'[t] = k /\ number'[t] = rows[k].number + 1 /\ pc'[t] = "insert"
      /\ \A u \in Tx \ {t} : row'[u] = row[u] /\ number'[u] = number[u] /\ pc'[u] = pc[u]
      /\ t \notin docs
  BY <1>1, <1>2 DEF NumberingTypeOK, DocsWithinCounter
<1>7. NumberingTypeOK'
  <2>1. k \in Nat /\ rows[k].number + 1 \in Nat
    BY <1>3, <1>4
  <2> QED
    BY <1>1, <1>2, <1>5, <2>1 DEF NumberingTypeOK, Pc
<1>8. RowsKnown'
  BY <1>2, <1>3, <1>5, <1>6 DEF RowsKnown
<1>9. HolderIsNext'
  <2> SUFFICES ASSUME NEW u \in Tx, Holding(u)'
               PROVE  rows'[row'[u]].holder = u /\ number'[u] = rows'[row'[u]].number + 1
    BY DEF HolderIsNext
  <2>1. CASE u = t
    BY <1>3, <1>5, <1>6, <2>1
  <2>2. CASE u # t
    <3>1. Holding(u) /\ row[u] \in DOMAIN rows
      BY <1>6, <2>2 DEF Holding, RowsKnown
    <3>2. rows[row[u]].holder = u /\ number[u] = rows[row[u]].number + 1
      BY <3>1 DEF HolderIsNext
    <3>3. row[u] # k
      BY <1>1, <3>2, NumberingAssumption
    <3> QED
      BY <1>5, <1>6, <2>2, <3>1, <3>2, <3>3
  <2> QED
    BY <2>1, <2>2
<1>10. DocsWithinCounter'
  BY <1>2, <1>5, <1>6 DEF DocsWithinCounter, RowsKnown
<1>11. PrintedOnce'
  BY <1>2, <1>6 DEF PrintedOnce, SamePrinted
<1>12. CollidedElsewhere'
  BY <1>2, <1>6 DEF CollidedElsewhere, SamePrinted, DocsWithinCounter
<1>13. \A j \in DOMAIN ExistingScopes : rows'[j].number = rows[j].number
  BY <1>4, <1>5, NumberingAssumption, LenProperties DEF RowsKept
<1>14. RowsKept'
  BY <1>5, <1>13 DEF RowsKept
<1>15. NumbersWithoutGap'
  BY <1>2, <1>6, <1>13, <1>14, SameDocs
<1> QED
  BY <1>7, <1>8, <1>9, <1>10, <1>11, <1>12, <1>14, <1>15

LEMMA CreateRowStep ==
  ASSUME NumberingInv, NEW t \in Tx, CreateRow(t)
  PROVE  NumberingInv'
<1> USE DEF NumberingInv
<1> DEFINE r == [scope |-> scope[t], number |-> 0, creator |-> t,
                 gone |-> FALSE, holder |-> t]
           n == Len(rows) + 1
<1>1. r \in Row /\ r.scope = scope[t] /\ r.number = 0 /\ r.holder = t
  BY DEF NumberingTypeOK, Row
<1> HIDE DEF r
<1>2. /\ rows' = Append(rows, r) /\ row' = [row EXCEPT ![t] = n]
      /\ number' = [number EXCEPT ![t] = 1]
      /\ pc[t] = "create" /\ pc' = [pc EXCEPT ![t] = "insert"]
      /\ UNCHANGED <<scope, docs>>
  BY DEF CreateRow, NextNumber, r
<1>3. /\ rows' \in Seq(Row) /\ DOMAIN rows = 1..Len(rows) /\ Len(rows) \in Nat
      /\ DOMAIN rows' = 1..n /\ Len(rows') = n /\ rows'[n] = r
      /\ \A k \in DOMAIN rows : rows'[k] = rows[k]
  BY <1>1, <1>2, AppendedRows
<1>4. n \in DOMAIN rows' /\ n \notin DOMAIN rows /\ n \in Nat \ {0}
      /\ DOMAIN rows \subseteq DOMAIN rows'
  BY <1>3
<1>5. /\ row'[t] = n /\ number'[t] = 1 /\ pc'[t] = "insert"
      /\ \A u \in Tx \ {t} : row'[u] = row[u] /\ number'[u] = number[u] /\ pc'[u] = pc[u]
      /\ t \notin docs
  BY <1>2 DEF NumberingTypeOK, DocsWithinCounter
<1>6. NumberingTypeOK'
  BY <1>2, <1>3, <1>4 DEF NumberingTypeOK, Pc
<1>7. RowsKnown'
  BY <1>1, <1>2, <1>3, <1>4, <1>5 DEF RowsKnown
<1>8. HolderIsNext'
  BY <1>1, <1>3, <1>4, <1>5 DEF HolderIsNext, Holding, RowsKnown
<1>9. DocsWithinCounter'
  BY <1>2, <1>3, <1>5 DEF DocsWithinCounter, RowsKnown
<1>10. PrintedOnce'
  BY <1>2, <1>5 DEF PrintedOnce, SamePrinted
<1>11. CollidedElsewhere'
  BY <1>2, <1>5 DEF CollidedElsewhere, SamePrinted, DocsWithinCounter
<1>12. \A k \in DOMAIN ExistingScopes : rows'[k].number = rows[k].number
  BY <1>3, NumberingAssumption, LenProperties DEF RowsKept
<1>13. RowsKept'
  BY <1>3, <1>12 DEF RowsKept
<1>14. NumbersWithoutGap'
  BY <1>2, <1>5, <1>12, <1>13, SameDocs
<1> QED
  BY <1>6, <1>7, <1>8, <1>9, <1>10, <1>11, <1>13, <1>14

\* Every step keeps the invariant.
THEOREM NumberingInductive == NumberingInv /\ [NumberingNext]_numberingVars => NumberingInv'
<1> SUFFICES ASSUME NumberingInv, [NumberingNext]_numberingVars PROVE NumberingInv'
  OBVIOUS
<1>1. CASE UNCHANGED numberingVars
  BY <1>1 DEF numberingVars, NumberingInv, NumberingTypeOK, RowsKnown, HolderIsNext, Holding, DocsWithinCounter,
       PrintedOnce, CollidedElsewhere, SamePrinted, RowsKept, NumbersWithoutGap
<1>2. ASSUME NEW t \in Tx, Begin(t) PROVE NumberingInv'
  BY <1>2, RowsUntouched DEF Begin, NumberingInv, NumberingTypeOK, Pc
<1>3. ASSUME NEW t \in Tx, FindNoRow(t) PROVE NumberingInv'
  BY <1>3, RowsUntouched DEF FindNoRow, NumberingInv, NumberingTypeOK, Pc
<1>4. ASSUME NEW t \in Tx, CreationFails(t) PROVE NumberingInv'
  BY <1>4, RowsUntouched DEF CreationFails, NumberingInv, NumberingTypeOK, Pc
<1>5. ASSUME NEW t \in Tx, Fallback(t) PROVE NumberingInv'
  <2>1. PICK n \in {0} \cup {number[u] : u \in docs} : number' = [number EXCEPT ![t] = n + 1]
    BY <1>5 DEF Fallback
  <2>2. n + 1 \in Nat
    BY DEF NumberingInv, NumberingTypeOK
  <2> QED
    BY <1>5, <2>1, <2>2, RowsUntouched DEF Fallback, NumberingInv, NumberingTypeOK, Pc
<1>6. ASSUME NEW t \in Tx, InsertDocument(t) PROVE NumberingInv'
  BY <1>6, RowsUntouched DEF InsertDocument, NumberingInv, NumberingTypeOK, Pc
<1>7. ASSUME NEW t \in Tx, Collide(t) PROVE NumberingInv'
  BY <1>7, Ended DEF Collide, NumberingInv, NumberingTypeOK, Running
<1>8. ASSUME NEW t \in Tx, CommitDocument(t) PROVE NumberingInv'
  BY <1>8, Ended DEF CommitDocument, NumberingInv, NumberingTypeOK, Running
<1>9. ASSUME NEW t \in Tx, RollBackDocument(t) PROVE NumberingInv'
  BY <1>9, Ended DEF RollBackDocument, NumberingInv, NumberingTypeOK
<1> QED
  BY <1>1, <1>2, <1>3, <1>4, <1>5, <1>6, <1>7, <1>8, <1>9, LockRowStep, CreateRowStep
  DEF NumberingNext, Step, TakeNumber

\* The invariant the theorems below rest on holds throughout.
THEOREM NumberingInvariantHolds == NumberingSpec => []NumberingInv
BY NumberingInitial, NumberingInductive, PTL DEF NumberingSpec

-----------------------------------------------------------------------------
(* The theorems.                                                           *)

\* The state keeps its types.
THEOREM NumberingTypeCorrect == NumberingSpec => []NumberingTypeOK
<1>1. NumberingInv => NumberingTypeOK
  BY DEF NumberingInv
<1> QED
  BY <1>1, NumberingInvariantHolds, PTL

\* Whatever the scopes, the patterns and the fallback, a document never has or
\* fails for the number of another document that its row numbered
\* (next_document_number, service.py).
THEOREM RowNumbersDiffer == NumberingSpec => []NoCollisionInRow
<1>1. NumberingInv => NoCollisionInRow
  <2> SUFFICES ASSUME NumberingInv, NEW u \in docs, NEW t \in Tx, t # u,
                      pc[t] \in {"insert", "commit", "committed", "collided"},
                      row[t] # 0, row[t] = row[u]
               PROVE  number[t] # number[u]
    BY DEF NoCollisionInRow
  <2> USE DEF NumberingInv
  <2>1. /\ u \in Tx /\ pc[u] = "committed"
        /\ row[t] \in DOMAIN rows /\ scope[t] = scope[u]
        /\ number[u] <= rows[row[t]].number /\ rows[row[t]].number \in Nat
    <3>1. u \in Tx /\ pc[u] = "committed" /\ number[u] <= rows[row[t]].number
      BY DEF DocsWithinCounter
    <3>2. row[t] \in DOMAIN rows /\ scope[t] = scope[u]
      BY <3>1 DEF RowsKnown
    <3>3. rows[row[t]] \in Row
      BY <3>2, LenProperties DEF NumberingTypeOK
    <3> QED
      BY <3>1, <3>2, <3>3 DEF Row
  <2>2. CASE pc[t] \in {"insert", "commit"}
    <3>1. number[t] = rows[row[t]].number + 1 /\ number[u] \in Nat
      BY <2>1, <2>2 DEF HolderIsNext, Holding, NumberingTypeOK
    <3> QED
      BY <2>1, <3>1
  <2>3. CASE pc[t] = "committed"
    BY <2>1, <2>3 DEF PrintedOnce, SamePrinted
  <2>4. CASE pc[t] = "collided"
    <3>1. PICK v \in docs : SamePrinted(t, v) /\ row[v] # row[t]
      BY <2>4 DEF CollidedElsewhere
    <3>2. v \in Tx /\ pc[v] = "committed" /\ v # u
      BY <3>1 DEF DocsWithinCounter
    <3>3. ~SamePrinted(u, v)
      BY <2>1, <3>2 DEF PrintedOnce
    <3> QED
      BY <2>1, <3>1, <3>3 DEF SamePrinted
  <2> QED
    BY <2>2, <2>3, <2>4
<1> QED
  BY <1>1, NumberingInvariantHolds, PTL

\* The documents of a row that existed are numbered without a gap after the
\* numbers issued before, however many transactions roll back.
THEOREM RowNumbersWithoutGap == NumberingSpec => []NumbersWithoutGap
<1>1. NumberingInv => NumbersWithoutGap
  BY DEF NumberingInv
<1> QED
  BY <1>1, NumberingInvariantHolds, PTL

-----------------------------------------------------------------------------
(***************************************************************************)
(* Background jobs (module JobQueue).                                      *)
(***************************************************************************)

-----------------------------------------------------------------------------
(* Rows.                                                                   *)

LEMMA JobRows ==
  ASSUME JobTypeOK
  PROVE  /\ Len(jobs) \in Nat /\ DOMAIN jobs = 1..Len(jobs)
         /\ \A i \in DOMAIN jobs : jobs[i] \in Job
BY LenProperties DEF JobTypeOK

\* An UPDATE of one row leaves the others alone.
LEMMA UpdatedJob ==
  ASSUME JobTypeOK, NEW i \in DOMAIN jobs, NEW e \in Job
  PROVE  /\ [jobs EXCEPT ![i] = e] \in Seq(Job)
         /\ DOMAIN [jobs EXCEPT ![i] = e] = DOMAIN jobs
         /\ [jobs EXCEPT ![i] = e][i] = e
         /\ \A k \in DOMAIN jobs \ {i} : [jobs EXCEPT ![i] = e][k] = jobs[k]
BY JobRows, ExceptSeq DEF JobTypeOK

\* The row a worker has claimed.
LEMMA ClaimedRow ==
  ASSUME JobInv, NEW w \in Worker, NEW i \in Nat, Claim(w, i), i \in DOMAIN jobs
  PROVE  /\ jobs[i].status = "pending" /\ jobs[i].attempts \in Nat
         /\ jobs' \in Seq(Job) /\ DOMAIN jobs' = DOMAIN jobs
         /\ jobs'[i].status = "running" /\ jobs'[i].attempts = jobs[i].attempts + 1
         /\ \A k \in DOMAIN jobs \ {i} : jobs'[k] = jobs[k]
<1>1. JobTypeOK /\ jobs[i] \in Job /\ jobs[i].status = "pending"
  BY JobRows DEF JobInv, Claim, ClaimableJob
<1> DEFINE a == jobs[i].attempts + 1
           e == [jobs[i] EXCEPT !.status = "running", !.attempts = a]
<1>2. jobs[i].attempts \in Nat /\ a \in Nat
  BY <1>1 DEF Job
<1>3. jobs' = [jobs EXCEPT ![i] = e]
  BY Zenon DEF Claim, NextJobAttempt
<1> HIDE DEF a
<1>4. e \in Job /\ e.status = "running" /\ e.attempts = a
  BY <1>1, <1>2 DEF Job, JobStatus
<1> HIDE DEF e
<1> QED
  BY <1>1, <1>2, <1>3, <1>4, UpdatedJob DEF a

\* The row a worker has saved.
LEMMA SavedRow ==
  ASSUME JobInv, NEW w \in Worker, NEW status \in JobStatus, Save(w, status)
  PROVE  LET i == worker[w].job
         IN /\ i \in DOMAIN jobs
            /\ jobs' \in Seq(Job) /\ DOMAIN jobs' = DOMAIN jobs
            /\ jobs'[i].status = status /\ jobs'[i].attempts = worker[w].attempts
            /\ \A k \in DOMAIN jobs \ {i} : jobs'[k] = jobs[k]
<1> DEFINE i == worker[w].job
           d == status # "pending"
           e == [jobs[i] EXCEPT !.status = status, !.attempts = worker[w].attempts, !.due = d]
<1>1. JobTypeOK /\ i \in DOMAIN jobs /\ worker[w].attempts \in Nat
  BY DEF JobInv, JobTypeOK, Save
<1>2. jobs[i] \in Job /\ d \in BOOLEAN
  BY <1>1, JobRows
<1>3. jobs' = [jobs EXCEPT ![i] = e]
  BY Zenon DEF Save
<1> HIDE DEF i, d
<1>4. e \in Job /\ e.status = status /\ e.attempts = worker[w].attempts
  BY <1>1, <1>2 DEF Job
<1> HIDE DEF e
<1> QED
  BY <1>1, <1>3, <1>4, UpdatedJob DEF i

\* The row whose backoff is over.
LEMMA DueRow ==
  ASSUME JobInv, NEW i \in DOMAIN jobs, BecomeDue(i)
  PROVE  /\ jobs' \in Seq(Job) /\ DOMAIN jobs' = DOMAIN jobs
         /\ \A k \in DOMAIN jobs :
              jobs'[k].status = jobs[k].status /\ jobs'[k].attempts = jobs[k].attempts
<1> DEFINE e == [jobs[i] EXCEPT !.due = TRUE]
<1>1. JobTypeOK /\ jobs[i] \in Job
  BY JobRows DEF JobInv
<1>2. e \in Job /\ e.status = jobs[i].status /\ e.attempts = jobs[i].attempts
  BY <1>1 DEF Job
<1>3. jobs' = [jobs EXCEPT ![i] = e]
  BY Zenon DEF BecomeDue
<1> HIDE DEF e
<1> QED
  BY <1>1, <1>2, <1>3, UpdatedJob

\* The row an admin has retried.
LEMMA RetriedRow ==
  ASSUME JobInv, NEW i \in DOMAIN jobs, RetryJob(i)
  PROVE  /\ jobs' \in Seq(Job) /\ DOMAIN jobs' = DOMAIN jobs
         /\ jobs'[i].status = "pending" /\ jobs'[i].attempts = 0
         /\ \A k \in DOMAIN jobs \ {i} : jobs'[k] = jobs[k]
<1> DEFINE e == [jobs[i] EXCEPT !.status = "pending", !.attempts = 0, !.due = TRUE]
<1>1. JobTypeOK /\ jobs[i] \in Job
  BY JobRows DEF JobInv
<1>2. e \in Job /\ e.status = "pending" /\ e.attempts = 0
  BY <1>1 DEF Job, JobStatus
<1>3. jobs' = [jobs EXCEPT ![i] = e]
  BY Zenon DEF RetryJob
<1> HIDE DEF e
<1> QED
  BY <1>1, <1>2, <1>3, UpdatedJob

-----------------------------------------------------------------------------
(* The invariant.                                                          *)

\* The invariant holds of the rows the system starts with.
THEOREM JobInitial == JobInit => JobInv
<1> SUFFICES ASSUME JobInit PROVE JobInv
  OBVIOUS
<1> USE JobQueueAssumption DEF JobInit
<1>1. jobs \in Seq(Job) /\ DOMAIN jobs = {}
  OBVIOUS
<1>2. JobTypeOK
  BY <1>1 DEF JobTypeOK, Nothing, Idle
<1>3. OneWorkerPerJob /\ JobCopyIsCurrent /\ AttemptsWithinMax
  BY <1>1 DEF OneWorkerPerJob, JobCopyIsCurrent, AttemptsWithinMax
<1>4. JobAttemptsLeft
  BY <1>1 DEF JobAttemptsLeft, Idle
<1> QED
  BY <1>2, <1>3, <1>4 DEF JobInv

\* Enqueuing adds a row nobody runs, or none.
LEMMA EnqueueStep ==
  ASSUME JobInv, NEW c \in Caller, Enqueue(c)
  PROVE  JobInv'
<1> USE DEF JobInv
<1>1. CASE \E key \in JobKey, priority \in Priority : CheckKey(c, key, priority)
  <2>1. PICK key \in JobKey, priority \in Priority : CheckKey(c, key, priority)
    BY <1>1
  <2>2. UNCHANGED <<jobs, worker, jobsShown, jobRetries, jobsForced>>
    BY <2>1 DEF CheckKey, jobAdmin
  <2>3. JobTypeOK'
    BY <2>1, <2>2 DEF JobTypeOK, CheckKey
  <2> QED
    BY <2>2, <2>3 DEF OneWorkerPerJob, JobCopyIsCurrent, AttemptsWithinMax, JobAttemptsLeft, RunBy
<1>2. CASE Insert(c)
  <2> DEFINE e == [key |-> caller[c].key, priority |-> caller[c].priority,
                   status |-> "pending", attempts |-> 0, due |-> TRUE]
             n == Len(jobs) + 1
  <2>1. /\ jobs' = Append(jobs, e) /\ caller' = [caller EXCEPT ![c] = Nothing]
        /\ UNCHANGED <<worker, jobsShown, jobRetries, jobsForced>>
    BY <1>2 DEF Insert, jobAdmin
  <2>2. e \in Job /\ e.status = "pending" /\ e.attempts = 0
    <3>1. caller[c] \in [key : JobKey, priority : Priority]
      BY <1>2 DEF Insert, JobTypeOK
    <3> QED
      BY <3>1 DEF Job, JobStatus
  <2> HIDE DEF e
  <2>3. /\ jobs' \in Seq(Job) /\ DOMAIN jobs' = 1..n /\ jobs'[n] = e
        /\ DOMAIN jobs = 1..Len(jobs) /\ Len(jobs) \in Nat
        /\ \A i \in DOMAIN jobs : jobs'[i] = jobs[i]
    BY <2>1, <2>2, JobRows, LenProperties DEF JobTypeOK
  <2>4. DOMAIN jobs' = DOMAIN jobs \cup {n} /\ n \notin DOMAIN jobs
    BY <2>3
  <2>5. JobTypeOK'
    BY <2>1, <2>3, <2>4 DEF JobTypeOK
  <2>6. \A w \in Worker : worker'[w] = worker[w] /\ (worker[w] # Idle => worker[w].job \in DOMAIN jobs)
    BY <2>1 DEF JobTypeOK
  <2>7. OneWorkerPerJob'
    <3> SUFFICES ASSUME NEW i \in DOMAIN jobs' \ jobsForced', NEW v \in Worker, NEW w \in Worker,
                        worker'[v] # Idle, worker'[v].job = i, worker'[w] # Idle, worker'[w].job = i
                 PROVE  v = w
      BY DEF OneWorkerPerJob, RunBy
    <3> QED
      BY <2>1, <2>6 DEF OneWorkerPerJob, RunBy
  <2>8. JobCopyIsCurrent'
    <3> SUFFICES ASSUME NEW w \in Worker, NEW i \in DOMAIN jobs' \ jobsForced',
                        worker'[w] # Idle, worker'[w].job = i
                 PROVE  jobs'[i].status = "running" /\ jobs'[i].attempts = worker'[w].attempts
      BY DEF JobCopyIsCurrent, RunBy
    <3> QED
      BY <2>1, <2>3, <2>6 DEF JobCopyIsCurrent, RunBy
  <2>9. AttemptsWithinMax' /\ JobAttemptsLeft'
    BY <2>1, <2>2, <2>3, <2>4, JobQueueAssumption DEF AttemptsWithinMax, JobAttemptsLeft
  <2> QED
    BY <2>5, <2>7, <2>8, <2>9
<1> QED
  BY <1>1, <1>2 DEF Enqueue

\* A job that is claimed was pending, so nobody ran it.
LEMMA JobClaimStep ==
  ASSUME JobInv, NEW w \in Worker, NEW i \in DOMAIN jobs, Claim(w, i)
  PROVE  JobInv'
<1> USE DEF JobInv
<1>1. i \in Nat /\ i # 0
  BY JobRows
<1>2. /\ jobs[i].status = "pending" /\ jobs[i].attempts \in Nat
      /\ jobs' \in Seq(Job) /\ DOMAIN jobs' = DOMAIN jobs
      /\ jobs'[i].status = "running" /\ jobs'[i].attempts = jobs[i].attempts + 1
      /\ \A k \in DOMAIN jobs \ {i} : jobs'[k] = jobs[k]
  BY <1>1, ClaimedRow
<1>3. /\ worker'[w] # Idle /\ worker'[w].job = i /\ worker'[w].attempts = jobs[i].attempts + 1
      /\ worker' \in [Worker -> [job : Nat, attempts : Nat]]
      /\ \A v \in Worker \ {w} : worker'[v] = worker[v]
      /\ UNCHANGED <<caller, jobsShown, jobRetries, jobsForced>>
  <2> DEFINE copy == [job |-> i, attempts |-> jobs[i].attempts + 1]
  <2>1. worker' = [worker EXCEPT ![w] = copy] /\ UNCHANGED <<caller, jobsShown, jobRetries, jobsForced>>
    BY DEF Claim, NextJobAttempt, jobAdmin
  <2>2. /\ copy \in [job : Nat, attempts : Nat] /\ copy # Idle
        /\ copy.job = i /\ copy.attempts = jobs[i].attempts + 1
    BY <1>1, <1>2 DEF Idle
  <2> HIDE DEF copy
  <2> QED
    BY <2>1, <2>2 DEF JobTypeOK
<1>4. JobTypeOK'
  BY <1>2, <1>3 DEF JobTypeOK
<1>5. \A v \in Worker : worker[v] # Idle /\ worker[v].job = i => i \in jobsForced
  BY <1>2 DEF JobCopyIsCurrent, RunBy
<1>6. OneWorkerPerJob'
  <2> SUFFICES ASSUME NEW k \in DOMAIN jobs' \ jobsForced', NEW u \in Worker, NEW v \in Worker,
                      worker'[u] # Idle, worker'[u].job = k, worker'[v] # Idle, worker'[v].job = k
               PROVE  u = v
    BY DEF OneWorkerPerJob, RunBy
  <2> QED
    BY <1>2, <1>3, <1>5 DEF OneWorkerPerJob, RunBy
<1>7. JobCopyIsCurrent'
  <2> SUFFICES ASSUME NEW v \in Worker, NEW k \in DOMAIN jobs' \ jobsForced',
                      worker'[v] # Idle, worker'[v].job = k
               PROVE  jobs'[k].status = "running" /\ jobs'[k].attempts = worker'[v].attempts
    BY DEF JobCopyIsCurrent, RunBy
  <2> QED
    BY SMTT(30), <1>2, <1>3, <1>5 DEF JobCopyIsCurrent, RunBy
<1>8. jobs[i].attempts + 1 <= MaxJobAttempts
  BY <1>2, JobQueueAssumption DEF JobAttemptsLeft
<1>9. AttemptsWithinMax'
  BY <1>2, <1>8 DEF AttemptsWithinMax
<1>10. JobAttemptsLeft'
  <2>1. \A v \in Worker : worker'[v].attempts <= MaxJobAttempts
    BY <1>3, <1>8 DEF JobAttemptsLeft
  <2>2. \A k \in DOMAIN jobs : jobs'[k].status = "pending" => jobs'[k].attempts < MaxJobAttempts
    BY <1>2 DEF JobAttemptsLeft
  <2> QED
    BY <1>2, <2>1, <2>2 DEF JobAttemptsLeft
<1> QED
  BY <1>4, <1>6, <1>7, <1>9, <1>10

\* Only the row's worker saves it, and then runs it no more.
LEMMA SaveStep ==
  ASSUME JobInv, NEW w \in Worker, NEW status \in JobStatus, Save(w, status),
         status = "pending" => worker[w].attempts < MaxJobAttempts
  PROVE  JobInv'
<1> USE DEF JobInv
<1> DEFINE i == worker[w].job
<1>1. /\ i \in DOMAIN jobs /\ jobs' \in Seq(Job) /\ DOMAIN jobs' = DOMAIN jobs
      /\ jobs'[i].status = status /\ jobs'[i].attempts = worker[w].attempts
      /\ \A k \in DOMAIN jobs \ {i} : jobs'[k] = jobs[k]
  BY SavedRow
<1>2. /\ worker[w] # Idle /\ worker'[w] = Idle
      /\ \A v \in Worker \ {w} : worker'[v] = worker[v]
      /\ worker' \in [Worker -> [job : Nat, attempts : Nat]]
      /\ UNCHANGED <<caller, jobRetries, jobsForced>>
      /\ jobsShown' \in {jobsShown, jobsShown \cup {i}}
  BY DEF Save, JobTypeOK, Idle
<1> HIDE DEF i
<1>3. JobTypeOK'
  BY <1>1, <1>2 DEF JobTypeOK
<1>4. i \notin jobsForced => \A v \in Worker \ {w} : worker[v] = Idle \/ worker[v].job # i
  BY <1>1, <1>2 DEF OneWorkerPerJob, RunBy, i
<1>5. OneWorkerPerJob'
  <2> SUFFICES ASSUME NEW k \in DOMAIN jobs' \ jobsForced', NEW u \in Worker, NEW v \in Worker,
                      worker'[u] # Idle, worker'[u].job = k, worker'[v] # Idle, worker'[v].job = k
               PROVE  u = v
    BY DEF OneWorkerPerJob, RunBy
  <2> QED
    BY <1>1, <1>2 DEF OneWorkerPerJob, RunBy
<1>6. JobCopyIsCurrent'
  <2> SUFFICES ASSUME NEW v \in Worker, NEW k \in DOMAIN jobs' \ jobsForced',
                      worker'[v] # Idle, worker'[v].job = k
               PROVE  jobs'[k].status = "running" /\ jobs'[k].attempts = worker'[v].attempts
    BY DEF JobCopyIsCurrent, RunBy
  <2> QED
    BY <1>1, <1>2, <1>4 DEF JobCopyIsCurrent, RunBy
<1>7. worker[w].attempts <= MaxJobAttempts
  BY DEF JobAttemptsLeft
<1>8. AttemptsWithinMax'
  BY <1>1, <1>7 DEF AttemptsWithinMax
<1>9. JobAttemptsLeft'
  <2>1. \A v \in Worker : worker'[v].attempts <= MaxJobAttempts
    BY <1>2, JobQueueAssumption DEF JobAttemptsLeft, Idle
  <2>2. \A k \in DOMAIN jobs : jobs'[k].status = "pending" => jobs'[k].attempts < MaxJobAttempts
    BY <1>1 DEF JobAttemptsLeft
  <2> QED
    BY <1>1, <2>1, <2>2 DEF JobAttemptsLeft
<1> QED
  BY <1>3, <1>5, <1>6, <1>8, <1>9

LEMMA WorkerDiesStep ==
  ASSUME JobInv, NEW w \in Worker, WorkerDies(w)
  PROVE  JobInv'
<1> USE DEF JobInv
<1>1. /\ worker'[w] = Idle /\ \A v \in Worker \ {w} : worker'[v] = worker[v]
      /\ worker' \in [Worker -> [job : Nat, attempts : Nat]]
      /\ UNCHANGED <<jobs, caller, jobsShown, jobRetries, jobsForced>>
  BY DEF WorkerDies, jobAdmin, JobTypeOK, Idle
<1>2. JobTypeOK'
  BY <1>1 DEF JobTypeOK
<1>3. OneWorkerPerJob'
  BY <1>1 DEF OneWorkerPerJob, RunBy
<1>4. JobCopyIsCurrent'
  BY <1>1 DEF JobCopyIsCurrent, RunBy
<1>5. AttemptsWithinMax' /\ JobAttemptsLeft'
  BY <1>1, JobQueueAssumption DEF AttemptsWithinMax, JobAttemptsLeft, Idle
<1> QED
  BY <1>2, <1>3, <1>4, <1>5

LEMMA DueStep ==
  ASSUME JobInv, NEW i \in DOMAIN jobs, BecomeDue(i)
  PROVE  JobInv'
<1> USE DEF JobInv
<1>1. /\ jobs' \in Seq(Job) /\ DOMAIN jobs' = DOMAIN jobs
      /\ \A k \in DOMAIN jobs :
           jobs'[k].status = jobs[k].status /\ jobs'[k].attempts = jobs[k].attempts
      /\ UNCHANGED <<caller, worker, jobsShown, jobRetries, jobsForced>>
  BY DueRow DEF BecomeDue, jobAdmin
<1>2. JobTypeOK'
  BY <1>1 DEF JobTypeOK
<1>3. OneWorkerPerJob'
  BY <1>1 DEF OneWorkerPerJob, RunBy
<1>4. JobCopyIsCurrent'
  BY <1>1 DEF JobCopyIsCurrent, RunBy
<1>5. AttemptsWithinMax' /\ JobAttemptsLeft'
  BY <1>1 DEF AttemptsWithinMax, JobAttemptsLeft
<1> QED
  BY <1>2, <1>3, <1>4, <1>5

\* A job that had failed is run by nobody; one that had not is forced now.
LEMMA RetryJobStep ==
  ASSUME JobInv, NEW i \in DOMAIN jobs, RetryJob(i)
  PROVE  JobInv'
<1> USE DEF JobInv
<1>1. /\ jobs' \in Seq(Job) /\ DOMAIN jobs' = DOMAIN jobs
      /\ jobs'[i].status = "pending" /\ jobs'[i].attempts = 0
      /\ \A k \in DOMAIN jobs \ {i} : jobs'[k] = jobs[k]
  BY RetriedRow
<1>2. /\ i \in jobsShown /\ jobRetries' = jobRetries + 1
      /\ jobsForced \subseteq jobsForced' /\ jobsForced' \subseteq jobsForced \cup {i}
      /\ i \notin jobsForced' => jobs[i].status = "failed"
      /\ UNCHANGED <<caller, worker, jobsShown>>
  BY DEF RetryJob
<1>3. JobTypeOK'
  BY <1>1, <1>2 DEF JobTypeOK
<1>4. i \notin jobsForced' => \A v \in Worker : worker[v] = Idle \/ worker[v].job # i
  BY <1>2 DEF JobCopyIsCurrent, RunBy
<1>5. OneWorkerPerJob'
  <2> SUFFICES ASSUME NEW k \in DOMAIN jobs' \ jobsForced', NEW u \in Worker, NEW v \in Worker,
                      worker'[u] # Idle, worker'[u].job = k, worker'[v] # Idle, worker'[v].job = k
               PROVE  u = v
    BY DEF OneWorkerPerJob, RunBy
  <2> QED
    BY <1>1, <1>2 DEF OneWorkerPerJob, RunBy
<1>6. JobCopyIsCurrent'
  <2> SUFFICES ASSUME NEW v \in Worker, NEW k \in DOMAIN jobs' \ jobsForced',
                      worker'[v] # Idle, worker'[v].job = k
               PROVE  jobs'[k].status = "running" /\ jobs'[k].attempts = worker'[v].attempts
    BY DEF JobCopyIsCurrent, RunBy
  <2> QED
    BY <1>1, <1>2, <1>4 DEF JobCopyIsCurrent, RunBy
<1>7. AttemptsWithinMax' /\ JobAttemptsLeft'
  BY <1>1, <1>2, JobQueueAssumption DEF AttemptsWithinMax, JobAttemptsLeft
<1> QED
  BY <1>3, <1>5, <1>6, <1>7

\* The two ways a task ends.
LEMMA FinishStep ==
  ASSUME JobInv, NEW w \in Worker, Finish(w)
  PROVE  \E status \in JobStatus :
           Save(w, status) /\ (status = "pending" => worker[w].attempts < MaxJobAttempts)
<1>1. CASE Succeed(w)
  BY <1>1 DEF Succeed, JobStatus
<1>2. CASE Fail(w)
  BY <1>2 DEF Fail, MayTryAgain, JobStatus
<1> QED
  BY <1>1, <1>2 DEF Finish

\* Every step keeps the invariant.
THEOREM JobInductive == JobInv /\ [JobNext]_jobVars => JobInv'
<1> SUFFICES ASSUME JobInv, [JobNext]_jobVars PROVE JobInv'
  OBVIOUS
<1>1. CASE UNCHANGED jobVars
  BY <1>1 DEF jobVars, jobAdmin, JobInv, JobTypeOK, OneWorkerPerJob, JobCopyIsCurrent, RunBy,
       AttemptsWithinMax, JobAttemptsLeft
<1>2. ASSUME NEW w \in Worker, ClaimNext(w) PROVE JobInv'
  BY <1>2, JobClaimStep DEF ClaimNext
<1>3. ASSUME NEW w \in Worker, Finish(w) PROVE JobInv'
  BY <1>3, FinishStep, SaveStep
<1> QED
  BY <1>1, <1>2, <1>3, EnqueueStep, WorkerDiesStep, DueStep, RetryJobStep DEF JobNext

\* The invariant the theorems below rest on holds throughout.
THEOREM JobInvariantHolds == JobSpec => []JobInv
BY JobInitial, JobInductive, PTL DEF JobSpec

-----------------------------------------------------------------------------
(* The theorems.                                                           *)

\* The state keeps its types.
THEOREM JobTypeCorrect == JobSpec => []JobTypeOK
<1>1. JobInv => JobTypeOK
  BY DEF JobInv
<1> QED
  BY <1>1, JobInvariantHolds, PTL

\* claim_next_job (queue.py) gives a job to one worker at a time.
THEOREM SingleWorker == JobSpec => []OneWorkerPerJob
<1>1. JobInv => OneWorkerPerJob
  BY DEF JobInv
<1> QED
  BY <1>1, JobInvariantHolds, PTL

\* The save of all columns in execute_job (queue.py) overwrites nothing.
THEOREM CurrentCopies == JobSpec => []JobCopyIsCurrent
<1>1. JobInv => JobCopyIsCurrent
  BY DEF JobInv
<1> QED
  BY <1>1, JobInvariantHolds, PTL

\* No job is run more often than its max_attempts.
THEOREM AttemptsBounded == JobSpec => []AttemptsWithinMax
<1>1. JobInv => AttemptsWithinMax
  BY DEF JobInv
<1> QED
  BY <1>1, JobInvariantHolds, PTL

\* Done is done: no claim, late save, backoff or retry takes a completed job
\* back unless it is forced.
THEOREM DoneForGood == JobSpec => CompletedForGood
<1>1. ASSUME JobInv, [JobNext]_jobVars, NEW i \in DOMAIN jobs, i \notin jobsForced',
             jobs[i].status = "completed"
      PROVE  jobs'[i].status = "completed"
  <2>1. CASE UNCHANGED jobVars
    BY <1>1, <2>1 DEF jobVars
  <2>2. ASSUME NEW c \in Caller, Enqueue(c) PROVE jobs'[i] = jobs[i]
    <3>1. CASE \E key \in JobKey, priority \in Priority : CheckKey(c, key, priority)
      BY <3>1 DEF CheckKey
    <3>2. CASE Insert(c)
      <4>1. PICK e : jobs' = Append(jobs, e)
        BY <3>2 DEF Insert
      <4> QED
        BY <1>1, <4>1, JobRows DEF JobInv, JobTypeOK
    <3> QED
      BY <2>2, <3>1, <3>2 DEF Enqueue
  <2>3. ASSUME NEW w \in Worker, ClaimNext(w) PROVE jobs'[i] = jobs[i]
    <3>1. PICK k \in DOMAIN jobs : Claim(w, k)
      BY <2>3 DEF ClaimNext
    <3>2. jobs[k].status = "pending" /\ \A j \in DOMAIN jobs \ {k} : jobs'[j] = jobs[j]
      BY <1>1, <3>1, ClaimedRow, JobRows DEF JobInv
    <3> QED
      BY <1>1, <3>2
  <2>4. ASSUME NEW w \in Worker, Finish(w) PROVE jobs'[i] = jobs[i]
    <3>1. PICK status \in JobStatus : Save(w, status)
      BY SMTT(30), <1>1, <2>4, FinishStep
    <3>2. /\ worker[w] # Idle /\ jobsForced' = jobsForced
          /\ \A j \in DOMAIN jobs \ {worker[w].job} : jobs'[j] = jobs[j]
      BY <1>1, <3>1, SavedRow DEF Save
    <3>3. worker[w].job # i
      BY <1>1, <3>2 DEF JobInv, JobCopyIsCurrent, RunBy
    <3> QED
      BY <1>1, <3>2, <3>3
  <2>5. ASSUME NEW w \in Worker, WorkerDies(w) PROVE jobs'[i] = jobs[i]
    BY <2>5 DEF WorkerDies
  <2>6. ASSUME NEW k \in DOMAIN jobs, BecomeDue(k) PROVE jobs'[i].status = jobs[i].status
    BY <1>1, <2>6, DueRow
  <2>7. ASSUME NEW k \in DOMAIN jobs, RetryJob(k) PROVE jobs'[i] = jobs[i]
    <3>1. /\ k \notin jobsForced' => jobs[k].status = "failed"
          /\ \A j \in DOMAIN jobs \ {k} : jobs'[j] = jobs[j]
      BY <1>1, <2>7, RetriedRow DEF RetryJob
    <3> QED
      BY <1>1, <3>1
  <2> QED
    BY <1>1, <2>1, <2>2, <2>3, <2>4, <2>5, <2>6, <2>7 DEF JobNext
<1>2. JobInv /\ [JobNext]_jobVars =>
        [\A i \in DOMAIN jobs \ jobsForced' :
           jobs[i].status = "completed" => jobs'[i].status = "completed"]_jobVars
  BY <1>1
<1> QED
  BY <1>2, JobInvariantHolds, PTL DEF JobSpec, CompletedForGood

-----------------------------------------------------------------------------
(***************************************************************************)
(* Domain events (module EventBus).                                        *)
(***************************************************************************)

-----------------------------------------------------------------------------
(* Rows and batches.                                                       *)

LEMMA EventRows ==
  ASSUME EventTypeOK
  PROVE  /\ Len(events) \in Nat /\ DOMAIN events = 1..Len(events)
         /\ \A i \in DOMAIN events : events[i] \in Event
         /\ \A i \in DOMAIN events : events[i].attempts \in Nat
<1>1. /\ Len(events) \in Nat /\ DOMAIN events = 1..Len(events)
      /\ \A i \in DOMAIN events : events[i] \in Event
  BY LenProperties DEF EventTypeOK
<1> QED
  BY <1>1 DEF Event

LEMMA BatchRows ==
  ASSUME EventTypeOK, NEW d \in Dispatcher
  PROVE  /\ batch[d] \in Seq(Copy)
         /\ Len(batch[d]) \in Nat /\ DOMAIN batch[d] = 1..Len(batch[d])
         /\ \A k \in DOMAIN batch[d] :
              batch[d][k] \in Copy /\ batch[d][k].event \in Nat /\ batch[d][k].attempts \in Nat
<1>1. /\ batch[d] \in Seq(Copy)
      /\ Len(batch[d]) \in Nat /\ DOMAIN batch[d] = 1..Len(batch[d])
      /\ \A k \in DOMAIN batch[d] : batch[d][k] \in Copy
  BY LenProperties DEF EventTypeOK
<1> QED
  BY <1>1 DEF Copy

\* The event that is up, and what is left when it is done.
LEMMA BatchHead ==
  ASSUME EventTypeOK, NEW d \in Dispatcher, batch[d] # <<>>
  PROVE  /\ 1 \in DOMAIN batch[d] /\ Head(batch[d]) = batch[d][1]
         /\ Current(d) = batch[d][1].event
         /\ Tail(batch[d]) \in Seq(Copy)
         /\ \A k \in DOMAIN Tail(batch[d]) :
              k \in Nat \ {0} /\ k + 1 \in DOMAIN batch[d] /\ Tail(batch[d])[k] = batch[d][k + 1]
<1>1. batch[d] \in Seq(Copy) /\ Len(batch[d]) \in Nat /\ DOMAIN batch[d] = 1..Len(batch[d])
  BY BatchRows
<1>2. Len(batch[d]) > 0 /\ Head(batch[d]) = batch[d][1]
  BY <1>1
<1>3. /\ Tail(batch[d]) \in Seq(Copy) /\ Len(Tail(batch[d])) = Len(batch[d]) - 1
      /\ \A k \in 1..Len(Tail(batch[d])) : Tail(batch[d])[k] = batch[d][k + 1]
  BY <1>1, HeadTailProperties
<1>4. DOMAIN Tail(batch[d]) = 1..(Len(batch[d]) - 1)
  BY <1>3, LenProperties
<1> QED
  BY <1>1, <1>2, <1>3, <1>4 DEF Current

\* An UPDATE of one row leaves the others alone.
LEMMA UpdatedRow ==
  ASSUME EventTypeOK, NEW i \in DOMAIN events, NEW e \in Event, events' = [events EXCEPT ![i] = e]
  PROVE  /\ events' \in Seq(Event) /\ DOMAIN events' = DOMAIN events
         /\ events'[i] = e /\ \A j \in DOMAIN events \ {i} : events'[j] = events[j]
BY EventRows, ExceptSeq DEF EventTypeOK

\* What a claim takes: a sequence of different events that wait, and their
\* copies.
LEMMA Claimed ==
  ASSUME EventInv, NEW d \in Dispatcher, ClaimBatch(d)
  PROVE  \E q :
    /\ q \in Seq(NextBatch)
    /\ \A j, k \in DOMAIN q : q[j] = q[k] => j = k
    /\ batch' \in [Dispatcher -> Seq(Copy)]
    /\ \A c \in Dispatcher \ {d} : batch'[c] = batch[c]
    /\ DOMAIN batch'[d] = DOMAIN q
    /\ \A k \in DOMAIN q :
         /\ q[k] \in NextBatch
         /\ batch'[d][k].event = q[k] /\ batch'[d][k].attempts = events[q[k]].attempts + 1
<1> USE DEF EventInv
<1>1. NextBatch \subseteq DOMAIN events /\ DOMAIN events = 1..Len(events) /\ Len(events) \in Nat
  BY EventRows DEF NextBatch, Waiting
<1> DEFINE n == Cardinality(NextBatch)
<1>2. n \in Nat
  <2>1. IsFiniteSet(1..Len(events))
    BY <1>1, FS_Interval
  <2>2. IsFiniteSet(NextBatch)
    BY <1>1, <2>1, FS_Subset
  <2> QED
    BY <2>2, FS_CardinalityType
<1>3. PICK q \in [1..n -> NextBatch] :
        /\ InOrder(q)
        /\ batch' = [batch EXCEPT ![d] = [k \in DOMAIN q |->
             [event |-> q[k], attempts |-> events[q[k]].attempts + 1]]]
  BY DEF ClaimBatch, NextAttempt
<1> HIDE DEF n
<1> DEFINE b == [k \in DOMAIN q |-> [event |-> q[k], attempts |-> events[q[k]].attempts + 1]]
<1>4. q \in Seq(NextBatch)
  BY <1>2, SeqDef
<1>5. \A j, k \in DOMAIN q : q[j] = q[k] => j = k
  <2> SUFFICES ASSUME NEW j \in 1..n, NEW k \in 1..n, q[j] = q[k] PROVE j = k
    OBVIOUS
  <2>1. q[j] \in Nat /\ q[k] \in Nat /\ j \in Nat /\ k \in Nat
    BY <1>1, <1>2
  <2>2. (j < k => q[j] < q[k]) /\ (k < j => q[k] < q[j])
    BY <1>3 DEF InOrder
  <2> QED
    BY <2>1, <2>2
<1>6. \A k \in 1..n : b[k] \in Copy
  <2> SUFFICES ASSUME NEW k \in 1..n
               PROVE  [event |-> q[k], attempts |-> events[q[k]].attempts + 1] \in Copy
    OBVIOUS
  <2>1. q[k] \in 1..Len(events) /\ events[q[k]].attempts \in Nat
    BY <1>1, EventRows
  <2>2. q[k] \in Nat \ {0} /\ events[q[k]].attempts + 1 \in Nat
    BY <1>1, <2>1
  <2> QED
    BY <2>2 DEF Copy
<1>7. b \in [1..n -> Copy]
  BY <1>6
<1>8. b \in Seq(Copy)
  BY <1>2, <1>7, SeqDef
<1>9. /\ batch' \in [Dispatcher -> Seq(Copy)] /\ batch'[d] = b
      /\ \A c \in Dispatcher \ {d} : batch'[c] = batch[c]
  BY <1>3, <1>8 DEF EventTypeOK
<1>10. /\ DOMAIN b = DOMAIN q
       /\ \A k \in DOMAIN q : /\ q[k] \in NextBatch
                              /\ b[k].event = q[k] /\ b[k].attempts = events[q[k]].attempts + 1
  OBVIOUS
<1> HIDE DEF b
<1> WITNESS q
<1> QED
  BY <1>4, <1>5, <1>9, <1>10

-----------------------------------------------------------------------------
(* The invariant.                                                          *)

\* The invariant holds of the rows the system starts with.
THEOREM EventInitial == EventInit => EventInv
<1> SUFFICES ASSUME EventInit PROVE EventInv
  OBVIOUS
<1> USE EventBusAssumption DEF EventInit
<1>1. /\ events \in Seq(Event) /\ DOMAIN events = {}
      /\ \A d \in Dispatcher : batch[d] = <<>> /\ DOMAIN batch[d] = {}
      /\ batch \in [Dispatcher -> Seq(Copy)]
  OBVIOUS
<1>2. EventTypeOK
  BY <1>1 DEF EventTypeOK
<1>3. OneDispatcherPerEvent /\ CopyIsCurrent /\ RoundInOrder
  BY <1>1 DEF OneDispatcherPerEvent, CopyIsCurrent, RoundInOrder
<1>4. AttemptsLeft /\ GivenUpAfterMaxAttempts /\ DispatchedMeansDelivered
  BY <1>1 DEF AttemptsLeft, GivenUpAfterMaxAttempts, DispatchedMeansDelivered
<1> QED
  BY <1>2, <1>3, <1>4 DEF EventInv

\* A step of the events that leaves batches and rounds alone, changes no event
\* but those forced now, and takes nothing from what was delivered.
LEMMA BatchesUntouched ==
  ASSUME EventInv, UNCHANGED <<batch, position, failed>>, forced \subseteq forced',
         DOMAIN events \subseteq DOMAIN events',
         \A i \in DOMAIN events :
           /\ events[i].succeeded \subseteq events'[i].succeeded
           /\ i \notin forced' /\ events[i].status = "processing" =>
                events'[i].status = "processing" /\ events'[i].attempts = events[i].attempts
  PROVE  OneDispatcherPerEvent' /\ CopyIsCurrent' /\ RoundInOrder'
<1> USE DEF EventInv
<1>1. OneDispatcherPerEvent'
  BY DEF OneDispatcherPerEvent
<1>2. CopyIsCurrent'
  <2> SUFFICES ASSUME NEW d \in Dispatcher, NEW k \in DOMAIN batch[d]
               PROVE  /\ batch[d][k].event \in DOMAIN events'
                      /\ batch[d][k].event \notin forced' =>
                           /\ events'[batch[d][k].event].status = "processing"
                           /\ events'[batch[d][k].event].attempts = batch[d][k].attempts
    BY DEF CopyIsCurrent
  <2>1. /\ batch[d][k].event \in DOMAIN events
        /\ batch[d][k].event \notin forced' =>
             /\ events[batch[d][k].event].status = "processing"
             /\ events[batch[d][k].event].attempts = batch[d][k].attempts
    BY DEF CopyIsCurrent
  <2> QED
    BY <2>1
<1>3. RoundInOrder'
  <2> SUFFICES ASSUME NEW d \in Dispatcher
               PROVE  /\ batch[d] = <<>> => position[d] = 1 /\ ~failed[d]
                      /\ batch[d] # <<>> /\ ~failed[d] =>
                           \A h \in DOMAIN Handlers :
                             h < position[d] => h \in events'[Head(batch[d]).event].succeeded
    BY DEF RoundInOrder, Current
  <2>1. batch[d] # <<>> => Current(d) \in DOMAIN events
    BY BatchHead DEF CopyIsCurrent
  <2> QED
    BY <2>1 DEF RoundInOrder, Current
<1> QED
  BY <1>1, <1>2, <1>3

\* Publishing adds a row that is in no batch, or none.
LEMMA PublishStep ==
  ASSUME EventInv, NEW c \in Publisher,
         (\E key \in Key : Publish(c, key)) \/ Commit(c) \/ Rollback(c)
  PROVE  EventInv'
<1> USE DEF EventInv
<1>1. CASE (\E key \in Key : Publish(c, key)) \/ Rollback(c)
  <2>1. /\ UNCHANGED <<events, batch, position, failed, shown, retries, forced>>
        /\ publisher' \in [Publisher -> SUBSET Key]
    BY <1>1 DEF Publish, Rollback, dispatching, admin, EventTypeOK
  <2>2. EventTypeOK'
    BY <2>1 DEF EventTypeOK
  <2>3. OneDispatcherPerEvent' /\ CopyIsCurrent' /\ RoundInOrder'
    BY <2>1, BatchesUntouched
  <2>4. AttemptsLeft' /\ GivenUpAfterMaxAttempts' /\ DispatchedMeansDelivered'
    BY <2>1 DEF AttemptsLeft, GivenUpAfterMaxAttempts, DispatchedMeansDelivered
  <2> QED
    BY <2>2, <2>3, <2>4
<1>2. CASE Commit(c)
  <2>1. PICK key \in publisher[c] :
          events' = Append(events, [key |-> key, status |-> "pending", attempts |-> 0,
                                    succeeded |-> {}])
    BY <1>2 DEF Commit
  <2> DEFINE e == [key |-> key, status |-> "pending", attempts |-> 0, succeeded |-> {}]
             n == Len(events) + 1
  <2>2. /\ e \in Event /\ e.status = "pending" /\ e.attempts = 0
        /\ events' = Append(events, e)
    BY <2>1 DEF Event, Status, EventTypeOK
  <2> HIDE DEF e
  <2>3. /\ UNCHANGED <<batch, position, failed, shown, retries, forced>>
        /\ publisher' \in [Publisher -> SUBSET Key]
    BY <1>2 DEF Commit, dispatching, admin, EventTypeOK
  <2>4. /\ events' \in Seq(Event) /\ DOMAIN events' = DOMAIN events \cup {n}
        /\ n \notin DOMAIN events /\ events'[n] = e
        /\ \A i \in DOMAIN events : events'[i] = events[i]
    <3>1. Len(events) \in Nat /\ DOMAIN events = 1..Len(events)
      BY EventRows
    <3>2. /\ events' \in Seq(Event) /\ DOMAIN events' = 1..n /\ events'[n] = e
          /\ \A i \in 1..Len(events) : events'[i] = events[i]
      BY <2>2, <3>1, LenProperties DEF EventTypeOK
    <3> QED
      BY <3>1, <3>2
  <2>5. EventTypeOK'
    BY <2>3, <2>4 DEF EventTypeOK
  <2>6. OneDispatcherPerEvent' /\ CopyIsCurrent' /\ RoundInOrder'
    BY <2>3, <2>4, BatchesUntouched
  <2>7. AttemptsLeft' /\ GivenUpAfterMaxAttempts' /\ DispatchedMeansDelivered'
    BY <2>2, <2>3, <2>4, EventBusAssumption
    DEF AttemptsLeft, GivenUpAfterMaxAttempts, DispatchedMeansDelivered
  <2> QED
    BY <2>5, <2>6, <2>7
<1> QED
  BY <1>1, <1>2

\* An event that is retried is in no batch, or it is forced.
LEMMA RetryStep ==
  ASSUME EventInv, NEW i \in DOMAIN events, Retry(i)
  PROVE  EventInv'
<1> USE DEF EventInv
<1> DEFINE e == [events[i] EXCEPT !.status = "pending", !.attempts = 0]
<1>1. /\ events' = [events EXCEPT ![i] = e]
      /\ e \in Event /\ e.status = "pending" /\ e.attempts = 0
      /\ e.succeeded = events[i].succeeded
  <2>1. events[i] \in Event
    BY EventRows
  <2>2. events' = [events EXCEPT ![i] = e]
    BY Zenon DEF Retry
  <2> QED
    BY <2>1, <2>2 DEF Event, Status
<1> HIDE DEF e
<1>2. /\ events' \in Seq(Event) /\ DOMAIN events' = DOMAIN events
      /\ events'[i] = e /\ \A j \in DOMAIN events \ {i} : events'[j] = events[j]
  BY <1>1, UpdatedRow
<1>3. /\ i \in shown /\ retries' = retries + 1
      /\ forced \subseteq forced' /\ forced' \subseteq forced \cup {i}
      /\ i \notin forced' => events[i].status # "processing"
      /\ UNCHANGED <<publisher, batch, position, failed, shown>>
  BY DEF Retry, Retryable, dispatching
<1>4. EventTypeOK'
  BY <1>2, <1>3 DEF EventTypeOK
<1>5. OneDispatcherPerEvent' /\ CopyIsCurrent' /\ RoundInOrder'
  BY <1>1, <1>2, <1>3, BatchesUntouched
<1>6. AttemptsLeft' /\ GivenUpAfterMaxAttempts' /\ DispatchedMeansDelivered'
  BY <1>1, <1>2, <1>3, EventBusAssumption
  DEF AttemptsLeft, GivenUpAfterMaxAttempts, DispatchedMeansDelivered
<1> QED
  BY <1>4, <1>5, <1>6

-----------------------------------------------------------------------------
(* Dispatchers.                                                            *)

\* Events that are claimed were waiting, so they were in no batch.
LEMMA ClaimStep ==
  ASSUME EventInv, NEW d \in Dispatcher, ClaimBatch(d)
  PROVE  EventInv'
<1> USE DEF EventInv
<1>1. PICK q :
        /\ q \in Seq(NextBatch)
        /\ \A j, k \in DOMAIN q : q[j] = q[k] => j = k
        /\ batch' \in [Dispatcher -> Seq(Copy)]
        /\ \A c \in Dispatcher \ {d} : batch'[c] = batch[c]
        /\ DOMAIN batch'[d] = DOMAIN q
        /\ \A k \in DOMAIN q :
             /\ q[k] \in NextBatch
             /\ batch'[d][k].event = q[k] /\ batch'[d][k].attempts = events[q[k]].attempts + 1
  BY Claimed
<1>2. /\ NextBatch \subseteq DOMAIN events
      /\ \A i \in NextBatch : events[i].status \in Claimable
  BY DEF NextBatch, Waiting
<1>3. /\ events' \in Seq(Event) /\ DOMAIN events' = DOMAIN events
      /\ \A i \in DOMAIN events :
           /\ i \in NextBatch => /\ events'[i].status = "processing"
                                 /\ events'[i].attempts = events[i].attempts + 1
                                 /\ events'[i].succeeded = events[i].succeeded
           /\ i \notin NextBatch => events'[i] = events[i]
  <2>1. events' = [i \in DOMAIN events |->
          IF i \in NextBatch
          THEN [events[i] EXCEPT !.status = "processing", !.attempts = events[i].attempts + 1]
          ELSE events[i]]
    BY Zenon DEF ClaimBatch, NextAttempt
  <2>2. ASSUME NEW i \in DOMAIN events
        PROVE  /\ events'[i] \in Event
               /\ i \in NextBatch => /\ events'[i].status = "processing"
                                     /\ events'[i].attempts = events[i].attempts + 1
                                     /\ events'[i].succeeded = events[i].succeeded
               /\ i \notin NextBatch => events'[i] = events[i]
    <3> DEFINE a == events[i].attempts + 1
               e == [events[i] EXCEPT !.status = "processing", !.attempts = a]
    <3>1. events[i] \in Event /\ a \in Nat
      BY EventRows
    <3>2. events'[i] = IF i \in NextBatch THEN e ELSE events[i]
      BY <2>1
    <3> HIDE DEF a
    <3>3. e \in Event /\ e.status = "processing" /\ e.attempts = a
          /\ e.succeeded = events[i].succeeded
      BY <3>1 DEF Event, Status
    <3> HIDE DEF e
    <3> QED
      BY <3>1, <3>2, <3>3 DEF a
  <2>3. Len(events) \in Nat /\ DOMAIN events = 1..Len(events)
    BY EventRows
  <2>4. events' \in [1..Len(events) -> Event]
    BY <2>1, <2>2, <2>3
  <2>5. events' \in Seq(Event) /\ DOMAIN events' = DOMAIN events
    BY <2>3, <2>4, SeqDef
  <2> QED
    BY <2>2, <2>5
<1>4. batch[d] = <<>> /\ UNCHANGED <<publisher, position, failed, shown, retries, forced>>
  BY DEF ClaimBatch, admin
<1>5. EventTypeOK'
  BY <1>1, <1>3, <1>4 DEF EventTypeOK
<1>6. \A c \in Dispatcher : \A k \in DOMAIN batch[c] :
        /\ batch[c][k].event \in DOMAIN events
        /\ batch[c][k].event \notin forced => batch[c][k].event \notin NextBatch
  BY <1>2 DEF CopyIsCurrent, Claimable
<1>7. OneDispatcherPerEvent'
  <2> SUFFICES ASSUME NEW b \in Dispatcher, NEW c \in Dispatcher,
                      NEW j \in DOMAIN batch'[b], NEW k \in DOMAIN batch'[c],
                      batch'[b][j].event = batch'[c][k].event,
                      batch'[b][j].event \notin forced'
               PROVE  b = c /\ j = k
    BY DEF OneDispatcherPerEvent
  <2>1. CASE b # d /\ c # d
    <3>1. batch'[b] = batch[b] /\ batch'[c] = batch[c]
      BY <1>1, <2>1
    <3> QED
      BY <1>4, <3>1 DEF OneDispatcherPerEvent
  <2>2. CASE b = d /\ c = d
    <3>1. /\ j \in DOMAIN q /\ k \in DOMAIN q
          /\ batch'[b][j].event = q[j] /\ batch'[c][k].event = q[k]
      BY <1>1, <2>2
    <3>2. q[j] = q[k]
      BY <3>1
    <3> QED
      BY <1>1, <2>2, <3>1, <3>2
  <2>3. CASE b = d /\ c # d
    <3>1. batch'[b][j].event \in NextBatch
      BY <1>1, <2>3
    <3>2. batch'[c] = batch[c]
      BY <1>1, <2>3
    <3>3. batch'[c][k].event \notin NextBatch
      BY <1>4, <1>6, <3>2
    <3> QED
      BY <3>1, <3>3
  <2>4. CASE b # d /\ c = d
    <3>1. batch'[c][k].event \in NextBatch
      BY <1>1, <2>4
    <3>2. batch'[b] = batch[b]
      BY <1>1, <2>4
    <3>3. batch'[b][j].event \notin NextBatch
      BY <1>4, <1>6, <3>2
    <3> QED
      BY <3>1, <3>3
  <2> QED
    BY <2>1, <2>2, <2>3, <2>4
<1>8. CopyIsCurrent'
  <2> SUFFICES ASSUME NEW c \in Dispatcher, NEW k \in DOMAIN batch'[c]
               PROVE  /\ batch'[c][k].event \in DOMAIN events'
                      /\ batch'[c][k].event \notin forced' =>
                           /\ events'[batch'[c][k].event].status = "processing"
                           /\ events'[batch'[c][k].event].attempts = batch'[c][k].attempts
    BY DEF CopyIsCurrent
  <2>1. CASE c = d
    BY <1>1, <1>2, <1>3, <2>1
  <2>2. CASE c # d
    <3>1. batch'[c] = batch[c]
      BY <1>1, <2>2
    <3> QED
      BY <1>3, <1>4, <1>6, <3>1 DEF CopyIsCurrent
  <2> QED
    BY <2>1, <2>2
<1>9. RoundInOrder'
  <2> SUFFICES ASSUME NEW c \in Dispatcher
               PROVE  /\ batch'[c] = <<>> => position'[c] = 1 /\ ~failed'[c]
                      /\ batch'[c] # <<>> /\ ~failed'[c] =>
                           \A h \in DOMAIN Handlers : h < position'[c] =>
                             h \in events'[Head(batch'[c]).event].succeeded
    BY DEF RoundInOrder, Current
  <2>1. CASE c = d
    <3>1. position'[d] = 1 /\ ~failed'[d]
      BY <1>4 DEF RoundInOrder
    <3>2. \A h \in DOMAIN Handlers : ~(h < 1)
      BY EventBusAssumption
    <3> QED
      BY <2>1, <3>1, <3>2
  <2>2. CASE c # d
    <3>1. batch'[c] = batch[c]
      BY <1>1, <2>2
    <3>2. batch[c] # <<>> => Current(c) \in DOMAIN events
      BY <1>6, BatchHead
    <3> QED
      BY <1>3, <1>4, <3>1, <3>2 DEF RoundInOrder, Current
  <2> QED
    BY <2>1, <2>2
<1>10. AttemptsLeft' /\ GivenUpAfterMaxAttempts'
  <2> SUFFICES ASSUME NEW i \in DOMAIN events \ forced
               PROVE  /\ events'[i].status \in Claimable => events'[i].attempts < MaxAttempts
                      /\ events'[i].attempts <= MaxAttempts
                      /\ events'[i].status = "dead_letter" => events'[i].attempts = MaxAttempts
    BY <1>3, <1>4 DEF AttemptsLeft, GivenUpAfterMaxAttempts
  <2>1. CASE i \in NextBatch
    <3>1. events[i].attempts < MaxAttempts /\ events[i].attempts \in Nat
      BY <1>2, <2>1, EventRows DEF AttemptsLeft
    <3>2. events'[i].status = "processing" /\ events'[i].attempts = events[i].attempts + 1
      BY <1>3, <2>1
    <3>3. events'[i].attempts <= MaxAttempts
      BY <3>1, <3>2, EventBusAssumption
    <3> QED
      BY <3>2, <3>3 DEF Claimable
  <2>2. CASE i \notin NextBatch
    BY <1>3, <2>2 DEF AttemptsLeft, GivenUpAfterMaxAttempts
  <2> QED
    BY <2>1, <2>2
<1>11. DispatchedMeansDelivered'
  BY <1>3 DEF DispatchedMeansDelivered
<1> QED
  BY <1>5, <1>7, <1>8, <1>9, <1>10, <1>11

\* A handler's call adds to what was delivered or spoils the round.
LEMMA HandleStep ==
  ASSUME EventInv, NEW d \in Dispatcher, NEW ok \in BOOLEAN, Handle(d, ok)
  PROVE  EventInv'
<1> USE DEF EventInv
<1> DEFINE i == Current(d)
           h0 == position[d]
<1>1. /\ batch[d] # <<>> /\ h0 \in DOMAIN Handlers
      /\ failed' = [failed EXCEPT ![d] = failed[d] \/ ~ok]
      /\ position' = [position EXCEPT ![d] = h0 + 1]
      /\ UNCHANGED <<publisher, batch, shown, retries, forced>>
  BY DEF Handle, admin
<1>2. i \in DOMAIN events
  BY <1>1, BatchHead DEF CopyIsCurrent
<1>3. /\ events' \in Seq(Event) /\ DOMAIN events' = DOMAIN events
      /\ \A j \in DOMAIN events :
           /\ events'[j].status = events[j].status /\ events'[j].attempts = events[j].attempts
           /\ events[j].succeeded \subseteq events'[j].succeeded
           /\ events'[j].succeeded \subseteq DOMAIN Handlers
      /\ ok => h0 \in events'[i].succeeded
  <2>1. \A j \in DOMAIN events : events[j] \in Event /\ events[j].succeeded \subseteq DOMAIN Handlers
    BY EventRows DEF Event
  <2>2. CASE ok
    <3> DEFINE s == events[i].succeeded \cup {h0}
               e == [events[i] EXCEPT !.succeeded = s]
    <3>1. events' = [events EXCEPT ![i] = e]
      BY <2>2, Zenon DEF Handle
    <3>2. events[i] \in Event /\ s \subseteq DOMAIN Handlers
          /\ events[i].succeeded \subseteq s /\ h0 \in s
      BY <1>1, <1>2, <2>1
    <3> HIDE DEF s, i
    <3>3. /\ e \in Event /\ e.status = events[i].status /\ e.attempts = events[i].attempts
          /\ e.succeeded = s
      BY <3>2 DEF Event
    <3> HIDE DEF e
    <3>4. /\ events' \in Seq(Event) /\ DOMAIN events' = DOMAIN events
          /\ events'[i] = e /\ \A j \in DOMAIN events \ {i} : events'[j] = events[j]
      BY <1>2, <3>1, <3>3, UpdatedRow
    <3> QED
      BY <2>1, <3>2, <3>3, <3>4
  <2>3. CASE ~ok
    <3>1. events' = events
      BY <2>3 DEF Handle
    <3> QED
      BY <2>1, <2>3, <3>1 DEF EventTypeOK
  <2> QED
    BY <2>2, <2>3
<1>4. EventTypeOK'
  <2>1. h0 + 1 \in Nat \ {0} /\ (failed[d] \/ ~ok) \in BOOLEAN
    BY DEF EventTypeOK
  <2> HIDE DEF h0
  <2> QED
    BY <1>1, <1>3, <2>1 DEF EventTypeOK
<1>5. OneDispatcherPerEvent'
  BY <1>1 DEF OneDispatcherPerEvent
<1>6. CopyIsCurrent'
  <2> SUFFICES ASSUME NEW c \in Dispatcher, NEW k \in DOMAIN batch'[c]
               PROVE  /\ batch'[c][k].event \in DOMAIN events'
                      /\ batch'[c][k].event \notin forced' =>
                           /\ events'[batch'[c][k].event].status = "processing"
                           /\ events'[batch'[c][k].event].attempts = batch'[c][k].attempts
    BY DEF CopyIsCurrent
  <2>1. /\ batch[c][k].event \in DOMAIN events
        /\ batch[c][k].event \notin forced =>
             /\ events[batch[c][k].event].status = "processing"
             /\ events[batch[c][k].event].attempts = batch[c][k].attempts
    BY <1>1 DEF CopyIsCurrent
  <2> QED
    BY <1>1, <1>3, <2>1
<1>7. RoundInOrder'
  <2> SUFFICES ASSUME NEW c \in Dispatcher
               PROVE  /\ batch'[c] = <<>> => position'[c] = 1 /\ ~failed'[c]
                      /\ batch'[c] # <<>> /\ ~failed'[c] =>
                           \A h \in DOMAIN Handlers : h < position'[c] =>
                             h \in events'[Head(batch'[c]).event].succeeded
    BY DEF RoundInOrder, Current
  <2>1. batch[c] # <<>> => Current(c) \in DOMAIN events
    BY BatchHead DEF CopyIsCurrent
  <2>2. CASE c # d
    <3>1. position'[c] = position[c] /\ failed'[c] = failed[c] /\ batch'[c] = batch[c]
      BY <1>1, <2>2 DEF EventTypeOK
    <3> QED
      BY <1>3, <2>1, <3>1 DEF RoundInOrder, Current
  <2>3. CASE c = d
    <3>1. /\ position'[d] = h0 + 1 /\ failed'[d] = (failed[d] \/ ~ok)
          /\ batch'[d] = batch[d] /\ batch[d] # <<>>
      BY <1>1 DEF EventTypeOK
    <3>2. ASSUME ~failed'[d], NEW h \in DOMAIN Handlers, h < h0 + 1
          PROVE  h \in events'[i].succeeded
      <4>1. ok /\ ~failed[d]
        BY <3>1, <3>2, Zenon
      <4>2. h \in Nat /\ h0 \in Nat
        BY EventBusAssumption DEF EventTypeOK
      <4>3. CASE h = h0
        BY <1>3, <4>1, <4>3
      <4>4. CASE h < h0
        <5>1. h \in events[i].succeeded
          BY <1>1, <4>1, <4>4 DEF RoundInOrder
        <5> QED
          BY <1>2, <1>3, <5>1
      <4> QED
        BY <3>2, <4>2, <4>3, <4>4
    <3> QED
      BY <2>3, <3>1, <3>2 DEF Current
  <2> QED
    BY <2>2, <2>3
<1>8. AttemptsLeft' /\ GivenUpAfterMaxAttempts'
  BY <1>1, <1>3 DEF AttemptsLeft, GivenUpAfterMaxAttempts
<1>9. DispatchedMeansDelivered'
  BY <1>3 DEF DispatchedMeansDelivered
<1> QED
  BY <1>4, <1>5, <1>6, <1>7, <1>8, <1>9

\* The event that is up leaves the batch with its outcome; no batch has
\* another copy of it, unless it is forced.
LEMMA SettleStep ==
  ASSUME EventInv, NEW d \in Dispatcher, Settle(d)
  PROVE  EventInv'
<1> USE DEF EventInv
<1> DEFINE i == Current(d)
           o == Outcome(failed[d], Head(batch[d]).attempts)
           e == [events[i] EXCEPT !.status = o]
<1>1. /\ batch[d] # <<>> /\ position[d] > Len(Handlers)
      /\ events' = [events EXCEPT ![i] = e]
      /\ batch' = [batch EXCEPT ![d] = Tail(batch[d])]
      /\ position' = [position EXCEPT ![d] = 1]
      /\ failed' = [failed EXCEPT ![d] = FALSE]
      /\ shown' \subseteq shown \cup {i} /\ shown \subseteq shown'
      /\ UNCHANGED <<publisher, retries, forced>>
  BY Zenon DEF Settle
<1>2. /\ 1 \in DOMAIN batch[d] /\ Head(batch[d]) = batch[d][1] /\ i = batch[d][1].event
      /\ Tail(batch[d]) \in Seq(Copy)
      /\ \A k \in DOMAIN Tail(batch[d]) :
           k \in Nat \ {0} /\ k + 1 \in DOMAIN batch[d] /\ Tail(batch[d])[k] = batch[d][k + 1]
  BY <1>1, BatchHead
<1>3. /\ i \in DOMAIN events
      /\ i \notin forced => /\ events[i].status = "processing"
                             /\ events[i].attempts = Head(batch[d]).attempts
  BY <1>2 DEF CopyIsCurrent
<1>4. o \in {"dispatched", "dead_letter", "failed"}
  BY DEF Outcome
<1>5. /\ events[i] \in Event /\ e \in Event /\ e.status = o
      /\ e.attempts = events[i].attempts /\ e.succeeded = events[i].succeeded
  <2>1. events[i] \in Event
    BY <1>3, EventRows
  <2> HIDE DEF i, o
  <2> QED
    BY <1>4, <2>1 DEF Event, Status
<1> HIDE DEF e
<1>6. /\ events' \in Seq(Event) /\ DOMAIN events' = DOMAIN events
      /\ events'[i] = e /\ \A j \in DOMAIN events \ {i} : events'[j] = events[j]
  BY <1>1, <1>3, <1>5, UpdatedRow
<1>7. /\ batch' \in [Dispatcher -> Seq(Copy)] /\ batch'[d] = Tail(batch[d])
      /\ position'[d] = 1 /\ failed'[d] = FALSE
      /\ \A c \in Dispatcher \ {d} :
           batch'[c] = batch[c] /\ position'[c] = position[c] /\ failed'[c] = failed[c]
  BY <1>1, <1>2 DEF EventTypeOK
<1>8. EventTypeOK'
  BY <1>1, <1>3, <1>6, <1>7 DEF EventTypeOK
\* A copy left in a batch was there before, elsewhere than in the first place
\* of d's.
<1> DEFINE Was(c, k) == IF c = d THEN k + 1 ELSE k
<1>9. ASSUME NEW c \in Dispatcher, NEW k \in DOMAIN batch'[c]
      PROVE  /\ Was(c, k) \in DOMAIN batch[c] /\ batch'[c][k] = batch[c][Was(c, k)]
             /\ c = d => k \in Nat \ {0} /\ Was(c, k) # 1
  <2>1. CASE c = d
    <3>1. k \in Nat \ {0} /\ k + 1 \in DOMAIN batch[d] /\ batch'[d][k] = batch[d][k + 1]
      BY <1>2, <1>7, <2>1
    <3>2. k + 1 # 1
      BY <3>1
    <3> QED
      BY <2>1, <3>1, <3>2
  <2>2. CASE c # d
    BY <1>7, <2>2
  <2> QED
    BY <2>1, <2>2
<1>10. OneDispatcherPerEvent'
  <2> SUFFICES ASSUME NEW b \in Dispatcher, NEW c \in Dispatcher,
                      NEW j \in DOMAIN batch'[b], NEW k \in DOMAIN batch'[c],
                      batch'[b][j].event = batch'[c][k].event,
                      batch'[b][j].event \notin forced'
               PROVE  b = c /\ j = k
    BY DEF OneDispatcherPerEvent
  <2>1. /\ Was(b, j) \in DOMAIN batch[b] /\ batch'[b][j] = batch[b][Was(b, j)]
        /\ Was(c, k) \in DOMAIN batch[c] /\ batch'[c][k] = batch[c][Was(c, k)]
    BY <1>9
  <2>2. b = d => j \in Nat
    BY <1>9
  <2>3. c = d => k \in Nat
    BY <1>9
  <2> HIDE DEF Was
  <2>4. b = c /\ Was(b, j) = Was(c, k)
    BY <1>1, <2>1 DEF OneDispatcherPerEvent
  <2> QED
    BY <2>2, <2>3, <2>4 DEF Was
\* Nor is it a copy of the event that has settled.
<1>11. \A c \in Dispatcher : \A k \in DOMAIN batch'[c] :
         batch'[c][k].event \notin forced => batch'[c][k].event # i
  <2> SUFFICES ASSUME NEW c \in Dispatcher, NEW k \in DOMAIN batch'[c],
                      batch'[c][k].event \notin forced, batch'[c][k].event = i
               PROVE  FALSE
    OBVIOUS
  <2>1. /\ Was(c, k) \in DOMAIN batch[c] /\ batch'[c][k] = batch[c][Was(c, k)]
        /\ c = d => Was(c, k) # 1
    BY <1>9
  <2> HIDE DEF Was
  <2>2. c = d /\ Was(c, k) = 1
    BY <1>2, <2>1 DEF OneDispatcherPerEvent
  <2> QED
    BY <2>1, <2>2
<1>12. CopyIsCurrent'
  <2> SUFFICES ASSUME NEW c \in Dispatcher, NEW k \in DOMAIN batch'[c]
               PROVE  /\ batch'[c][k].event \in DOMAIN events'
                      /\ batch'[c][k].event \notin forced' =>
                           /\ events'[batch'[c][k].event].status = "processing"
                           /\ events'[batch'[c][k].event].attempts = batch'[c][k].attempts
    BY DEF CopyIsCurrent
  <2>1. Was(c, k) \in DOMAIN batch[c] /\ batch'[c][k] = batch[c][Was(c, k)]
    BY <1>9
  <2> HIDE DEF Was
  <2>2. /\ batch'[c][k].event \in DOMAIN events
        /\ batch'[c][k].event \notin forced =>
             /\ events[batch'[c][k].event].status = "processing"
             /\ events[batch'[c][k].event].attempts = batch'[c][k].attempts
    BY <2>1 DEF CopyIsCurrent
  <2> QED
    BY <1>1, <1>6, <1>11, <2>2
<1>13. RoundInOrder'
  <2> SUFFICES ASSUME NEW c \in Dispatcher
               PROVE  /\ batch'[c] = <<>> => position'[c] = 1 /\ ~failed'[c]
                      /\ batch'[c] # <<>> /\ ~failed'[c] =>
                           \A h \in DOMAIN Handlers : h < position'[c] =>
                             h \in events'[Head(batch'[c]).event].succeeded
    BY DEF RoundInOrder, Current
  <2>1. CASE c = d
    <3>1. \A h \in DOMAIN Handlers : ~(h < 1)
      BY EventBusAssumption
    <3> QED
      BY <1>7, <2>1, <3>1
  <2>2. CASE c # d
    <3>1. position'[c] = position[c] /\ failed'[c] = failed[c] /\ batch'[c] = batch[c]
      BY <1>7, <2>2
    <3>2. batch[c] # <<>> => Current(c) \in DOMAIN events
      BY BatchHead DEF CopyIsCurrent
    <3>3. \A j \in DOMAIN events : events'[j].succeeded = events[j].succeeded
      BY <1>5, <1>6
    <3> QED
      BY <3>1, <3>2, <3>3 DEF RoundInOrder, Current
  <2> QED
    BY <2>1, <2>2
<1>14. AttemptsLeft' /\ GivenUpAfterMaxAttempts'
  <2> SUFFICES ASSUME NEW j \in DOMAIN events \ forced
               PROVE  /\ events'[j].status \in Claimable => events'[j].attempts < MaxAttempts
                      /\ events'[j].attempts <= MaxAttempts
                      /\ events'[j].status = "dead_letter" => events'[j].attempts = MaxAttempts
    BY <1>1, <1>6 DEF AttemptsLeft, GivenUpAfterMaxAttempts
  <2>1. CASE j = i
    <3>1. /\ events'[j].status = o /\ events'[j].attempts = events[i].attempts
          /\ events[i].attempts = Head(batch[d]).attempts
          /\ events[i].attempts <= MaxAttempts /\ events[i].attempts \in Nat
      BY <1>3, <1>5, <1>6, <2>1, EventRows DEF GivenUpAfterMaxAttempts
    <3>2. /\ o = "failed" => ~(events[i].attempts >= MaxAttempts)
          /\ o = "dead_letter" => events[i].attempts >= MaxAttempts
      BY <3>1 DEF Outcome
    <3> QED
      BY <1>4, <3>1, <3>2, EventBusAssumption DEF Claimable
  <2>2. CASE j # i
    BY <1>6, <2>2 DEF AttemptsLeft, GivenUpAfterMaxAttempts
  <2> QED
    BY <2>1, <2>2
<1>15. DispatchedMeansDelivered'
  <2> SUFFICES ASSUME NEW j \in DOMAIN events, events'[j].status = "dispatched"
               PROVE  events'[j].succeeded = DOMAIN Handlers
    BY <1>6 DEF DispatchedMeansDelivered
  <2>1. CASE j = i
    <3>1. ~failed[d]
      BY <1>5, <1>6, <2>1 DEF Outcome
    <3>2. \A h \in DOMAIN Handlers : h < position[d]
      BY <1>1, EventBusAssumption DEF EventTypeOK
    <3>3. \A h \in DOMAIN Handlers : h \in events[i].succeeded
      BY <1>1, <3>1, <3>2 DEF RoundInOrder
    <3>4. events[i].succeeded \subseteq DOMAIN Handlers
      BY <1>5 DEF Event
    <3> QED
      BY <1>5, <1>6, <2>1, <3>3, <3>4
  <2>2. CASE j # i
    BY <1>6, <2>2 DEF DispatchedMeansDelivered
  <2> QED
    BY <2>1, <2>2
<1> QED
  BY <1>8, <1>10, <1>12, <1>13, <1>14, <1>15

\* The dead hold nothing; their events stay as they were.
LEMMA DieStep ==
  ASSUME EventInv, NEW d \in Dispatcher, Die(d)
  PROVE  EventInv'
<1> USE DEF EventInv
<1>1. /\ batch'[d] = <<>> /\ position'[d] = 1 /\ ~failed'[d] /\ DOMAIN batch'[d] = {}
      /\ \A c \in Dispatcher \ {d} :
           batch'[c] = batch[c] /\ position'[c] = position[c] /\ failed'[c] = failed[c]
      /\ UNCHANGED <<events, publisher, shown, retries, forced>>
  BY DEF Die, admin, EventTypeOK
<1>2. EventTypeOK'
  BY <1>1 DEF Die, EventTypeOK
<1>3. \A c \in Dispatcher : \A k \in DOMAIN batch'[c] : c # d /\ batch'[c] = batch[c]
  BY <1>1
<1>4. OneDispatcherPerEvent'
  BY <1>1, <1>3 DEF OneDispatcherPerEvent
<1>5. CopyIsCurrent'
  BY <1>1, <1>3 DEF CopyIsCurrent
<1>6. RoundInOrder'
  BY <1>1 DEF RoundInOrder, Current
<1>7. AttemptsLeft' /\ GivenUpAfterMaxAttempts' /\ DispatchedMeansDelivered'
  BY <1>1 DEF AttemptsLeft, GivenUpAfterMaxAttempts, DispatchedMeansDelivered
<1> QED
  BY <1>2, <1>4, <1>5, <1>6, <1>7

\* Every step of every actor keeps the invariant.
THEOREM EventInductive == EventInv /\ [EventNext]_eventVars => EventInv'
<1> SUFFICES ASSUME EventInv, [EventNext]_eventVars PROVE EventInv'
  OBVIOUS
<1>1. ASSUME NEW c \in Publisher,
             (\E key \in Key : Publish(c, key)) \/ Commit(c) \/ Rollback(c)
      PROVE  EventInv'
  BY <1>1, PublishStep
<1>2. ASSUME NEW d \in Dispatcher, ClaimBatch(d) \/ Process(d) \/ Die(d)
      PROVE  EventInv'
  BY <1>2, ClaimStep, HandleStep, SettleStep, DieStep DEF Process
<1>3. ASSUME NEW i \in DOMAIN events, Retry(i)
      PROVE  EventInv'
  BY <1>3, RetryStep
<1>4. CASE UNCHANGED eventVars
  <2>1. UNCHANGED <<events, publisher, batch, position, failed, shown, retries, forced>>
    BY <1>4 DEF eventVars, dispatching, admin
  <2> QED
    BY <2>1 DEF EventInv, EventTypeOK, OneDispatcherPerEvent, CopyIsCurrent, AttemptsLeft,
                GivenUpAfterMaxAttempts, RoundInOrder, DispatchedMeansDelivered, Current
<1> QED
  BY <1>1, <1>2, <1>3, <1>4 DEF EventNext

\* The invariant the theorems below rest on holds throughout.
THEOREM EventInvariantHolds == EventSpec => []EventInv
BY EventInitial, EventInductive, PTL DEF EventSpec

-----------------------------------------------------------------------------
(* What it gives.                                                          *)

\* The variables of the outbox and its dispatchers have their types.
THEOREM EventTypeCorrect == EventSpec => []EventTypeOK
<1>1. EventInv => EventTypeOK
  BY DEF EventInv
<1> QED
  BY <1>1, EventInvariantHolds, PTL

\* Two dispatchers never process the same event, and none has it twice in its
\* batch, unless an admin forced it.
THEOREM SingleDispatcher == EventSpec => []OneDispatcherPerEvent
<1>1. EventInv => OneDispatcherPerEvent
  BY DEF EventInv
<1> QED
  BY <1>1, EventInvariantHolds, PTL

\* An event that counts as dispatched has been handled by every subscriber.
THEOREM Delivered == EventSpec => []DispatchedMeansDelivered
<1>1. EventInv => DispatchedMeansDelivered
  BY DEF EventInv
<1> QED
  BY <1>1, EventInvariantHolds, PTL

\* The dead letters are the events that failed MaxAttempts times.
THEOREM GivenUp == EventSpec => []GivenUpAfterMaxAttempts
<1>1. EventInv => GivenUpAfterMaxAttempts
  BY DEF EventInv
<1> QED
  BY <1>1, EventInvariantHolds, PTL

\* No dispatcher takes up what was dispatched, unless an admin forced it.
THEOREM SettledForGood == EventSpec => DispatchedForGood
<1>1. ASSUME EventInv, [EventNext]_eventVars
      PROVE  [\A i \in DOMAIN events \ forced' :
                events[i].status = "dispatched" => events'[i].status = "dispatched"]_eventVars
  <2> SUFFICES ASSUME EventNext, NEW i \in DOMAIN events \ forced', events[i].status = "dispatched"
               PROVE  events'[i].status = "dispatched"
    BY <1>1
  <2> USE <1>1 DEF EventInv
  <2>1. ASSUME NEW c \in Publisher,
               (\E key \in Key : Publish(c, key)) \/ Commit(c) \/ Rollback(c)
        PROVE  events'[i] = events[i]
    <3>1. Len(events) \in Nat /\ i \in 1..Len(events) /\ events \in Seq(Event)
      BY EventRows DEF EventTypeOK
    <3>2. CASE Commit(c)
      <4>1. PICK e : events' = Append(events, e)
        BY <3>2, Zenon DEF Commit
      <4> QED
        BY <3>1, <4>1, AppendProperties
    <3>3. CASE (\E key \in Key : Publish(c, key)) \/ Rollback(c)
      BY <3>3 DEF Publish, Rollback
    <3> QED
      BY <2>1, <3>2, <3>3
  <2>2. ASSUME NEW d \in Dispatcher, ClaimBatch(d)
        PROVE  events'[i] = events[i]
    <3>1. i \notin NextBatch
      BY DEF NextBatch, Waiting, Claimable
    <3> QED
      BY <2>2, <3>1 DEF ClaimBatch
  <2>3. ASSUME NEW d \in Dispatcher, NEW ok \in BOOLEAN, Handle(d, ok)
        PROVE  events'[i].status = events[i].status
    <3>1. events[i] \in Event
      BY EventRows
    <3> QED
      BY <2>3, <3>1 DEF Handle, Event
  <2>4. ASSUME NEW d \in Dispatcher, Settle(d)
        PROVE  events'[i] = events[i]
    <3>1. batch[d] # <<>> /\ forced' = forced
      BY <2>4 DEF Settle
    <3>2. Current(d) # i
      BY <3>1, BatchHead DEF CopyIsCurrent
    <3> QED
      BY <2>4, <3>2 DEF Settle
  <2>5. ASSUME NEW d \in Dispatcher, Die(d)
        PROVE  events'[i] = events[i]
    BY <2>5 DEF Die
  <2>6. ASSUME NEW j \in DOMAIN events, Retry(j)
        PROVE  events'[i] = events[i]
    <3>1. j # i
      BY <2>6 DEF Retry, Retryable
    <3> QED
      BY <2>6, <3>1 DEF Retry
  <2> QED
    BY <2>1, <2>2, <2>3, <2>4, <2>5, <2>6 DEF EventNext, Process
<1> QED
  BY <1>1, EventInvariantHolds, PTL DEF EventSpec, DispatchedForGood


-----------------------------------------------------------------------------
(***************************************************************************)
(* Approvals of purchase orders (module PurchaseApproval).                 *)
(***************************************************************************)

-----------------------------------------------------------------------------
(* The inductive invariant.                                                *)

\* A session that signs does so on a request there is; one that decides holds
\* its row, so that the copy it decides on says what the row says.
RequestsKnown == \A s \in Session :
  work[s].at \in {"sign", "decide"} => work[s].request \in DOMAIN requests
CopiesFresh == \A s \in Session :
  At(s, "decide") => work[s].seen = requests[work[s].request]
OneDecider == \A s, t \in Session :
  At(s, "decide") /\ At(t, "decide") /\ work[s].request = work[t].request => s = t

\* A session keeps the task it began with, and the status it began from.
TaskKept == \A s \in Session :
  /\ At(s, "submit") => work[s].task = "submit"
  /\ At(s, "find") => work[s].task = "approve"
  /\ At(s, "save") => work[s].task \in Task
  /\ work[s].task \in Task => work[s].copy = MayBegin[work[s].task]

\* An approval that was granted, or is about to be saved, rests on a request.
Signed(r) == Len(log[r]) = Steps /\ requests[r].status = "approved"
Granted ==
  \/ order \in {"approved", "sent"}
  \/ \E s \in Session : At(s, "save") /\ work[s].task \in {"approve", "send"}
GrantRests == Granted /\ ~bypassed => \E r \in DOMAIN requests : Signed(r)

\* A request completed on the order's page leads to the order's approval.
Saving == \E s \in Session : At(s, "save") /\ work[s].task = "approve"
FinalKept == final # {} /\ ~broken => order \in {"approved", "sent"} \/ Saving

ApprovalInv ==
  /\ ApprovalTypeOK /\ RequestsKnown /\ CopiesFresh /\ OneDecider /\ TaskKept
  /\ SignedStepByStep /\ GrantRests /\ FinalKept

\* What a session does changes its own entry of work.
LEMMA Moved ==
  ASSUME ApprovalTypeOK, NEW s \in Session, NEW w \in Work, work' = [work EXCEPT ![s] = w]
  PROVE  /\ work' \in [Session -> Work] /\ work'[s] = w
         /\ \A t \in Session \ {s} : work'[t] = work[t]
BY DEF ApprovalTypeOK

\* Requests and their logs are numbered alike.
LEMMA Numbered ==
  ASSUME ApprovalTypeOK
  PROVE  /\ Len(requests) \in Nat /\ DOMAIN requests = 1..Len(requests)
         /\ DOMAIN log = DOMAIN requests
         /\ \A r \in DOMAIN requests :
              /\ requests[r] \in Request /\ log[r] \in Seq(Decision)
              /\ Len(log[r]) \in Nat /\ DOMAIN log[r] = 1..Len(log[r])
BY LenProperties, ElementOfSeq DEF ApprovalTypeOK

\* No step but a submission and a decision touches requests and logs.
LEMMA SameEngine ==
  ASSUME SignedStepByStep, UNCHANGED engine
  PROVE  SignedStepByStep'
BY DEF SignedStepByStep, engine

\* A session that does nothing.
LEMMA IdleWork == IdleView \in Work /\ IdleView.at = "idle" /\ IdleView.task = "none"
<1> DEFINE c == [status |-> "none", step |-> 0]
<1>1. c \in [status : {"none", "pending", "approved", "rejected"}, step : 0..Steps]
  BY ApprovalAssumption
<1>2. IdleView = [at |-> "idle", task |-> "none", user |-> "none", request |-> 0,
              verdict |-> "approve", seen |-> c, copy |-> "none"]
  BY DEF IdleView
<1> HIDE DEF c
<1> QED
  BY <1>1, <1>2 DEF Work, Place

\* The session that becomes idle decides, signs and saves no longer.
LEMMA Idled ==
  ASSUME ApprovalTypeOK, NEW s \in Session, FinishView(s)
  PROVE  /\ work' \in [Session -> Work] /\ work'[s] = IdleView
         /\ work'[s].at = "idle" /\ work'[s].task = "none"
         /\ \A t \in Session \ {s} : work'[t] = work[t]
BY IdleWork, Moved DEF FinishView

\* What is true of the start.
THEOREM ApprovalInitial == ApprovalInit => ApprovalInv
<1> SUFFICES ASSUME ApprovalInit PROVE ApprovalInv
  OBVIOUS
<1>1. IdleView \in Work
  BY IdleWork
<1>2. \A s \in Session : work[s] = IdleView /\ work[s].at = "idle" /\ work[s].task = "none"
  BY IdleWork DEF ApprovalInit
<1>3. requests \in Seq(Request) /\ log \in Seq(Seq(Decision)) /\ Len(requests) = 0 /\ Len(log) = 0
      /\ DOMAIN requests = {}
  BY EmptySeq DEF ApprovalInit
<1>4. ApprovalTypeOK
  <2>1. order \in OrderStatus /\ final \subseteq 1..MaxRequests
    BY DEF ApprovalInit, OrderStatus
  <2>2. bypassed \in BOOLEAN /\ broken \in BOOLEAN /\ work \in [Session -> Work]
    BY <1>1 DEF ApprovalInit
  <2> QED
    BY <1>3, <2>1, <2>2, ApprovalAssumption DEF ApprovalTypeOK
<1>5. RequestsKnown /\ CopiesFresh /\ OneDecider /\ TaskKept
  BY <1>2 DEF RequestsKnown, CopiesFresh, OneDecider, TaskKept, At, Task
<1>6. SignedStepByStep
  BY <1>3 DEF SignedStepByStep
<1>7. GrantRests /\ FinalKept
  BY <1>2 DEF ApprovalInit, GrantRests, Granted, FinalKept, At
<1> QED
  BY <1>4, <1>5, <1>6, <1>7 DEF ApprovalInv

-----------------------------------------------------------------------------
(* The views of the order.                                                 *)

LEMMA ReadStep ==
  ASSUME ApprovalInv, NEW s \in Session, NEW task \in Task, NEW user \in User, Read(s, task, user)
  PROVE  ApprovalInv'
<1> USE DEF ApprovalInv
<1> DEFINE w == [IdleView EXCEPT !.at = FirstPlace[task], !.task = task, !.user = user, !.copy = order]
<1>1. /\ w \in Work /\ w.at = FirstPlace[task] /\ w.task = task /\ w.copy = order
      /\ w.at \in {"submit", "find", "save"}
  <2>1. FirstPlace[task] \in {"submit", "find", "save"}
    BY DEF Task, FirstPlace
  <2>2. order \in OrderStatus
    BY DEF ApprovalTypeOK
  <2> QED
    BY <2>1, <2>2, IdleWork DEF Work, Place
<1>2. /\ work' = [work EXCEPT ![s] = w] /\ At(s, "idle") /\ order = MayBegin[task]
      /\ UNCHANGED <<order, engine, history>>
  BY DEF Read
<1> HIDE DEF w
<1>3. /\ work' \in [Session -> Work] /\ work'[s] = w
      /\ \A t \in Session \ {s} : work'[t] = work[t]
  BY <1>1, <1>2, Moved
<1>4. ApprovalTypeOK' /\ SignedStepByStep'
  BY <1>2, <1>3, SameEngine DEF ApprovalTypeOK, engine, history
<1>5. RequestsKnown' /\ CopiesFresh' /\ OneDecider'
  BY <1>1, <1>2, <1>3 DEF RequestsKnown, CopiesFresh, OneDecider, At, engine
<1>6. TaskKept'
  BY <1>1, <1>2, <1>3 DEF TaskKept, At, FirstPlace, Task
<1>7. Granted' => Granted
  BY <1>1, <1>2, <1>3 DEF Granted, At, FirstPlace, MayBegin, Task
<1>8. GrantRests'
  BY <1>2, <1>7 DEF GrantRests, Signed, engine, history
<1>9. FinalKept'
  BY <1>2, <1>3 DEF FinalKept, Saving, At, history
<1> QED
  BY <1>4, <1>5, <1>6, <1>8, <1>9

LEMMA OpenInboxStep ==
  ASSUME ApprovalInv, NEW s \in Session, NEW user \in User, NEW r \in DOMAIN requests,
         NEW verdict \in {"approve", "reject"}, OpenInbox(s, user, r, verdict)
  PROVE  ApprovalInv'
<1> USE DEF ApprovalInv
<1> DEFINE w == [IdleView EXCEPT !.at = "sign", !.user = user, !.request = r, !.verdict = verdict]
<1>1. w \in Work /\ w.at = "sign" /\ w.task = "none" /\ w.request = r
  <2>1. r \in Nat
    BY Numbered
  <2> QED
    BY <2>1, IdleWork DEF Work, Place
<1>2. work' = [work EXCEPT ![s] = w] /\ At(s, "idle") /\ UNCHANGED <<order, engine, history>>
  BY DEF OpenInbox
<1> HIDE DEF w
<1>3. /\ work' \in [Session -> Work] /\ work'[s] = w
      /\ \A t \in Session \ {s} : work'[t] = work[t]
  BY <1>1, <1>2, Moved
<1>4. ApprovalTypeOK' /\ SignedStepByStep'
  BY <1>2, <1>3, SameEngine DEF ApprovalTypeOK, engine, history
<1>5. RequestsKnown' /\ CopiesFresh' /\ OneDecider' /\ TaskKept'
  BY <1>1, <1>2, <1>3 DEF RequestsKnown, CopiesFresh, OneDecider, TaskKept, At, engine, Task
<1>6. Granted' => Granted
  BY <1>1, <1>2, <1>3 DEF Granted, At
<1>7. GrantRests' /\ FinalKept'
  BY <1>2, <1>3, <1>6 DEF GrantRests, Signed, FinalKept, Saving, At, engine, history
<1> QED
  BY <1>4, <1>5, <1>7

\* submit_for_approval adds a request of which nothing is signed.
LEMMA SubmitStep ==
  ASSUME ApprovalInv, NEW s \in Session, Submit(s)
  PROVE  ApprovalInv'
<1> USE DEF ApprovalInv
<1> DEFINE w == [work[s] EXCEPT !.at = "save"]
<1>1. w \in Work /\ w.at = "save" /\ w.task = work[s].task /\ w.copy = work[s].copy
  BY DEF ApprovalTypeOK, Work, Place
<1>2. work' = [work EXCEPT ![s] = w] /\ At(s, "submit") /\ UNCHANGED <<order, history>>
  BY DEF Submit, Go
<1>3. w.task = "submit"
  BY <1>1, <1>2 DEF TaskKept
<1> HIDE DEF w
<1>4. /\ work' \in [Session -> Work] /\ work'[s] = w
      /\ \A t \in Session \ {s} : work'[t] = work[t]
  BY <1>1, <1>2, Moved
<1> DEFINE q == [status |-> "pending", step |-> 1]
           n == Len(requests) + 1
<1>5. CASE Steps # 0
  <2>1. requests' = Append(requests, q) /\ log' = Append(log, <<>>) /\ Len(requests) < MaxRequests
    BY <1>5 DEF Submit
  <2>2. q \in Request /\ <<>> \in Seq(Decision) /\ Len(<<>>) = 0
    BY <1>5, ApprovalAssumption, EmptySeq DEF Request
  <2>3. /\ requests' \in Seq(Request) /\ Len(requests') = n /\ requests'[n] = q
        /\ \A r \in DOMAIN requests : requests'[r] = requests[r]
    BY <2>1, <2>2, Numbered, AppendProperties DEF ApprovalTypeOK
  <2>4. /\ log' \in Seq(Seq(Decision)) /\ Len(log') = n /\ log'[n] = <<>>
        /\ \A r \in DOMAIN requests : log'[r] = log[r]
    BY <2>1, <2>2, Numbered, AppendProperties DEF ApprovalTypeOK
  <2>5. DOMAIN requests' = DOMAIN requests \cup {n} /\ n \notin DOMAIN requests
    <3>1. DOMAIN requests' = 1..n
      BY <2>3, LenProperties
    <3> QED
      BY <3>1, Numbered
  <2>6. ApprovalTypeOK'
    BY <1>2, <1>4, <2>1, <2>3, <2>4, Numbered, ApprovalAssumption DEF ApprovalTypeOK, history
  <2>7. SignedStepByStep'
    <3>1. InStep(q, <<>>)
      BY <1>5, <2>2 DEF InStep
    <3> HIDE DEF q
    <3> QED
      BY <2>3, <2>4, <2>5, <3>1 DEF SignedStepByStep
  <2>8. RequestsKnown' /\ CopiesFresh'
    BY <1>1, <1>4, <2>3, <2>5 DEF RequestsKnown, CopiesFresh, At
  <2>9. GrantRests'
    <3>1. Granted' => Granted
      BY <1>1, <1>2, <1>3, <1>4 DEF Granted, At
    <3>2. \A r \in DOMAIN requests : Signed(r) => r \in DOMAIN requests' /\ Signed(r)'
      BY <2>3, <2>4, <2>5 DEF Signed
    <3> QED
      BY <1>2, <3>1, <3>2 DEF GrantRests, history
  <2> QED
    BY <1>1, <1>2, <1>3, <1>4, <2>6, <2>7, <2>8, <2>9
    DEF OneDecider, TaskKept, FinalKept, Saving, At, Task, history
<1>6. CASE Steps = 0
  <2>1. UNCHANGED engine
    BY <1>6 DEF Submit
  <2>2. ApprovalTypeOK' /\ SignedStepByStep'
    BY <1>2, <1>4, <2>1, SameEngine DEF ApprovalTypeOK, engine, history
  <2>3. GrantRests'
    BY <1>1, <1>2, <1>3, <1>4, <2>1 DEF GrantRests, Granted, Signed, At, engine, history
  <2> QED
    BY <1>1, <1>2, <1>3, <1>4, <2>1, <2>2, <2>3
    DEF RequestsKnown, CopiesFresh, OneDecider, TaskKept, FinalKept, Saving, At, Task, engine, history
<1> QED
  BY <1>5, <1>6

\* purchase_approve finds the newest pending request, or goes past the engine.
LEMMA FindRequestStep ==
  ASSUME ApprovalInv, NEW s \in Session, FindRequest(s)
  PROVE  ApprovalInv'
<1> USE DEF ApprovalInv
<1>1. /\ At(s, "find") /\ work[s].task = "approve" /\ work[s].copy = "pending_approval"
      /\ UNCHANGED <<order, engine, final, broken>>
  BY DEF FindRequest, TaskKept, Task, MayBegin
<1>2. PICK w \in Work :
        /\ work' = [work EXCEPT ![s] = w] /\ w.task = "approve" /\ w.copy = "pending_approval"
        /\ \/ w.at = "sign" /\ w.request \in DOMAIN requests /\ UNCHANGED bypassed
           \/ w.at = "save" /\ bypassed' = TRUE
  <2>1. CASE \E r \in DOMAIN requests : Pending(r)
    <3>1. PICK r \in DOMAIN requests :
            work' = [work EXCEPT ![s].at = "sign", ![s].request = r] /\ UNCHANGED bypassed
      BY <2>1 DEF FindRequest
    <3> DEFINE w == [work[s] EXCEPT !.at = "sign", !.request = r]
    <3>2. r \in Nat
      BY Numbered
    <3>3. w \in Work /\ w.at = "sign" /\ w.request = r /\ w.task = work[s].task /\ w.copy = work[s].copy
      BY ZenonT(60), <3>2 DEF ApprovalTypeOK, Work, Place
    <3>4. work' = [work EXCEPT ![s] = w]
      BY <3>1 DEF ApprovalTypeOK
    <3> QED
      BY <1>1, <3>1, <3>3, <3>4
  <2>2. CASE ~ \E r \in DOMAIN requests : Pending(r)
    <3> DEFINE w == [work[s] EXCEPT !.at = "save"]
    <3>1. w \in Work /\ w.at = "save" /\ w.task = work[s].task /\ w.copy = work[s].copy
      BY DEF ApprovalTypeOK, Work, Place
    <3>2. work' = [work EXCEPT ![s] = w] /\ bypassed' = TRUE
      BY <2>2 DEF FindRequest, Go
    <3> QED
      BY <1>1, <3>1, <3>2
  <2> QED
    BY <2>1, <2>2
<1>3. /\ work' \in [Session -> Work] /\ work'[s] = w
      /\ \A t \in Session \ {s} : work'[t] = work[t]
  BY <1>2, Moved
<1>4. ApprovalTypeOK' /\ SignedStepByStep'
  BY <1>1, <1>2, <1>3, SameEngine DEF ApprovalTypeOK, engine
<1>5. RequestsKnown' /\ CopiesFresh' /\ OneDecider' /\ TaskKept'
  BY <1>1, <1>2, <1>3
  DEF RequestsKnown, CopiesFresh, OneDecider, TaskKept, At, engine, Task, MayBegin
<1>6. GrantRests'
  BY <1>1, <1>2, <1>3 DEF GrantRests, Granted, Signed, At, engine
<1>7. FinalKept'
  BY <1>1, <1>2, <1>3 DEF FinalKept, Saving, At
<1> QED
  BY <1>4, <1>5, <1>6, <1>7

\* A view saves its copy of the order.
LEMMA SaveOrderStep ==
  ASSUME ApprovalInv, NEW s \in Session, SaveOrder(s)
  PROVE  ApprovalInv'
<1> USE DEF ApprovalInv
<1>1. /\ At(s, "save") /\ work[s].task \in Task /\ work[s].copy = MayBegin[work[s].task]
      /\ order' = NextStatus[work[s].task] /\ broken' = (broken \/ order # work[s].copy)
      /\ UNCHANGED <<engine, final, bypassed>>
  BY DEF SaveOrder, TaskKept
<1>2. /\ work' \in [Session -> Work] /\ work'[s].at = "idle" /\ work'[s].task = "none"
      /\ \A t \in Session \ {s} : work'[t] = work[t]
  BY Idled DEF SaveOrder
<1>3. ApprovalTypeOK' /\ SignedStepByStep'
  <2>1. order' \in OrderStatus
    BY <1>1 DEF NextStatus, Task, OrderStatus
  <2>2. broken' \in BOOLEAN
    BY <1>1 DEF ApprovalTypeOK
  <2> QED
    BY <1>1, <1>2, <2>1, <2>2, SameEngine DEF ApprovalTypeOK, engine
<1>4. RequestsKnown' /\ CopiesFresh' /\ OneDecider' /\ TaskKept'
  BY <1>1, <1>2 DEF RequestsKnown, CopiesFresh, OneDecider, TaskKept, At, engine, Task
<1>5. Granted' => Granted
  BY <1>1, <1>2 DEF Granted, At, NextStatus, Task
<1>6. GrantRests'
  BY <1>1, <1>5 DEF GrantRests, Signed, engine
<1>7. FinalKept'
  <2> SUFFICES ASSUME final # {}, ~broken', order' \notin {"approved", "sent"} PROVE Saving'
    BY <1>1 DEF FinalKept
  <2>1. ~broken /\ order = work[s].copy
    BY <1>1, Zenon
  <2>2. work[s].task = "submit" /\ order = "draft"
    BY <1>1, <2>1 DEF NextStatus, MayBegin, Task
  <2> QED
    BY <1>2, <2>1, <2>2 DEF FinalKept, Saving, At
<1> QED
  BY <1>3, <1>4, <1>6, <1>7

\* process_approval takes the request's row and reads it.
LEMMA LockRequestStep ==
  ASSUME ApprovalInv, NEW s \in Session, LockRequest(s)
  PROVE  ApprovalInv'
<1> USE DEF ApprovalInv
<1> DEFINE w == [work[s] EXCEPT !.at = "decide", !.seen = requests[work[s].request]]
<1>1. At(s, "sign") /\ RowFree(s, work[s].request) /\ UNCHANGED <<order, engine, history>>
  BY DEF LockRequest
<1>2. work[s].request \in DOMAIN requests
  BY <1>1 DEF RequestsKnown, At
<1>3. requests[work[s].request] \in [status : {"none", "pending", "approved", "rejected"}, step : 0..Steps]
  BY <1>2, Numbered, ApprovalAssumption DEF Request
<1>4. /\ w \in Work /\ w.at = "decide" /\ w.request = work[s].request
      /\ w.seen = requests[work[s].request] /\ w.task = work[s].task /\ w.copy = work[s].copy
  BY ZenonT(60), <1>3 DEF ApprovalTypeOK, Work, Place
<1>5. work' = [work EXCEPT ![s] = w]
  BY DEF LockRequest, ApprovalTypeOK
<1> HIDE DEF w
<1>6. /\ work' \in [Session -> Work] /\ work'[s] = w
      /\ \A t \in Session \ {s} : work'[t] = work[t]
  BY <1>4, <1>5, Moved
<1>7. ApprovalTypeOK' /\ SignedStepByStep'
  BY <1>1, <1>6, SameEngine DEF ApprovalTypeOK, engine, history
<1>8. OneDecider'
  <2>1. \A t \in Session \ {s} : ~(At(t, "decide") /\ work[t].request = work[s].request)
    BY <1>1 DEF RowFree
  <2> QED
    BY <1>4, <1>6, <2>1 DEF OneDecider, At
<1>9. RequestsKnown' /\ CopiesFresh' /\ TaskKept'
  BY <1>1, <1>2, <1>4, <1>6 DEF RequestsKnown, CopiesFresh, TaskKept, At, engine
<1>10. Granted' => Granted
  BY <1>1, <1>4, <1>6 DEF Granted, At, history
<1>11. GrantRests' /\ FinalKept'
  BY <1>1, <1>4, <1>6, <1>10 DEF GrantRests, Signed, FinalKept, Saving, At, engine, history
<1> QED
  BY <1>7, <1>8, <1>9, <1>11

\* A process that dies leaves requests, logs and the order as they are.
LEMMA ViewDiesStep ==
  ASSUME ApprovalInv, NEW s \in Session, ViewDies(s)
  PROVE  ApprovalInv'
<1> USE DEF ApprovalInv
<1>1. broken' = TRUE /\ UNCHANGED <<order, engine, final, bypassed>>
  BY DEF ViewDies
<1>2. /\ work' \in [Session -> Work] /\ work'[s].at = "idle" /\ work'[s].task = "none"
      /\ \A t \in Session \ {s} : work'[t] = work[t]
  BY Idled DEF ViewDies
<1>3. ApprovalTypeOK' /\ SignedStepByStep'
  BY <1>1, <1>2, SameEngine DEF ApprovalTypeOK, engine
<1>4. RequestsKnown' /\ CopiesFresh' /\ OneDecider' /\ TaskKept'
  BY <1>1, <1>2 DEF RequestsKnown, CopiesFresh, OneDecider, TaskKept, At, engine, Task
<1>5. Granted' => Granted
  BY <1>1, <1>2 DEF Granted, At
<1>6. GrantRests' /\ FinalKept'
  BY <1>1, <1>5 DEF GrantRests, Signed, FinalKept, engine
<1> QED
  BY <1>3, <1>4, <1>6

-----------------------------------------------------------------------------
(* A decision.                                                             *)

\* The next signature keeps a pending request in step.
LEMMA NextSignature ==
  ASSUME NEW q \in Request, NEW signed \in Seq(Decision), InStep(q, signed), q.status = "pending",
         NEW user \in User, <<user, q.step>> \in MaySign, NEW verdict \in {"approve", "reject"},
         NEW new \in Request,
         verdict = "reject" => new.status = "rejected",
         verdict = "approve" /\ q.step < Steps => new.status = "pending" /\ new.step = q.step + 1,
         verdict = "approve" /\ q.step = Steps => new.status = "approved"
  PROVE  LET more == Append(signed, [step |-> q.step, user |-> user, verdict |-> verdict])
         IN more \in Seq(Decision) /\ Len(more) = q.step /\ InStep(new, more)
<1> DEFINE d == [step |-> q.step, user |-> user, verdict |-> verdict]
           more == Append(signed, d)
           n == Len(signed)
<1>1. q.step \in 1..Steps /\ Steps \in Nat /\ n \in Nat
  BY ApprovalAssumption, LenProperties DEF Request
<1>2. d \in Decision /\ d.step = q.step /\ d.user = user /\ d.verdict = verdict
  BY <1>1 DEF Decision
<1> HIDE DEF d
<1>3. /\ more \in Seq(Decision) /\ Len(more) = n + 1 /\ more[n + 1] = d
      /\ \A i \in 1..n : more[i] = signed[i]
  BY <1>2, AppendProperties
<1>4. q.step = n + 1
  BY DEF InStep
<1>5. \A i \in 1..n : /\ signed[i].step = i /\ <<signed[i].user, i>> \in MaySign
                      /\ signed[i].verdict # "reject"
  <2>1. \A i \in 1..n : /\ signed[i].step = i /\ <<signed[i].user, i>> \in MaySign
                        /\ signed[i].verdict = "reject" => i = n
    BY DEF InStep
  <2>2. ~(n > 0 /\ signed[n].verdict = "reject")
    BY DEF InStep
  <2> QED
    BY <1>1, <2>1, <2>2
<1> HIDE DEF more, n
<1>6. \A i \in 1..(n + 1) :
        /\ more[i].step = i /\ <<more[i].user, i>> \in MaySign
        /\ more[i].verdict = "reject" => i = n + 1
  <2> TAKE i \in 1..(n + 1)
  <2>1. CASE i = n + 1
    BY <1>2, <1>3, <1>4, <2>1
  <2>2. CASE i # n + 1
    <3>1. i \in 1..n
      BY <1>1, <2>2
    <3> QED
      BY <1>3, <1>5, <3>1
  <2> QED
    BY <2>1, <2>2
<1>7. new.status = IF n + 1 > 0 /\ more[n + 1].verdict = "reject" THEN "rejected"
                   ELSE IF n + 1 = Steps THEN "approved" ELSE "pending"
  BY <1>1, <1>2, <1>3, <1>4
<1>8. new.status = "pending" => new.step = n + 2
  BY <1>1, <1>4
<1>9. InStep(new, more)
  BY <1>1, <1>3, <1>6, <1>7, <1>8 DEF InStep
<1> QED
  BY <1>3, <1>4, <1>9 DEF d, more

LEMMA DecideStep ==
  ASSUME ApprovalInv, NEW s \in Session, Decide(s)
  PROVE  ApprovalInv'
<1> USE DEF ApprovalInv
<1> DEFINE w == work[s]
           k == work[s].request
<1>1. /\ At(s, "decide") /\ w \in Work /\ k \in DOMAIN requests /\ w.seen = requests[k]
      /\ requests[k] \in Request /\ log[k] \in Seq(Decision)
      /\ UNCHANGED <<order, broken>>
  <2>1. At(s, "decide") /\ UNCHANGED <<order, broken>>
    BY DEF Decide
  <2>2. w \in Work /\ k \in DOMAIN requests /\ w.seen = requests[k]
    BY <2>1 DEF ApprovalTypeOK, RequestsKnown, CopiesFresh, At
  <2> QED
    BY <2>1, <2>2, Numbered
<1>2. PICK v \in Work :
        /\ work' = [work EXCEPT ![s] = v] /\ v.at \in {"idle", "save"}
        /\ v.at = "save" => SavesOrder(w) /\ v.task = w.task /\ v.copy = w.copy
        /\ v.at = "idle" => ~SavesOrder(w) /\ v.task = "none"
  <2>1. CASE SavesOrder(w)
    <3> DEFINE v == [work[s] EXCEPT !.at = "save"]
    <3>1. v \in Work /\ v.at = "save" /\ v.task = w.task /\ v.copy = w.copy
      BY <1>1 DEF Work, Place
    <3>2. work' = [work EXCEPT ![s] = v]
      BY <2>1 DEF Decide, Go
    <3> QED
      BY <2>1, <3>1, <3>2
  <2>2. CASE ~SavesOrder(w)
    BY <2>2, IdleWork DEF Decide, FinishView
  <2> QED
    BY <2>1, <2>2
<1>3. /\ work' \in [Session -> Work] /\ work'[s] = v
      /\ \A t \in Session \ {s} : work'[t] = work[t]
  BY <1>2, Moved
<1>4. TaskKept' /\ OneDecider'
  BY <1>1, <1>2, <1>3 DEF TaskKept, OneDecider, At, Task, SavesOrder
<1>5. CASE ~MayDecide(w)
  <2>1. UNCHANGED engine /\ final' = final /\ bypassed' = (bypassed \/ w.task = "approve")
    BY <1>5, Zenon DEF Decide, Completes
  <2>2. ApprovalTypeOK' /\ SignedStepByStep'
    BY <1>1, <1>3, <2>1, SameEngine DEF ApprovalTypeOK, engine
  <2>3. RequestsKnown' /\ CopiesFresh'
    BY <1>2, <1>3, <2>1 DEF RequestsKnown, CopiesFresh, At, engine
  <2>4. GrantRests'
    <3> SUFFICES ASSUME Granted', ~bypassed' PROVE \E r \in DOMAIN requests' : Signed(r)'
      BY DEF GrantRests
    <3>1. ~bypassed /\ w.task # "approve"
      BY <2>1, Zenon
    <3>2. Granted
      BY <1>1, <1>2, <1>3, <3>1 DEF Granted, At, SavesOrder
    <3> QED
      BY <2>1, <3>1, <3>2 DEF GrantRests, Signed, engine
  <2>5. FinalKept'
    BY <1>1, <1>2, <1>3, <2>1 DEF FinalKept, Saving, At
  <2> QED
    BY <1>4, <2>2, <2>3, <2>4, <2>5
<1>6. CASE MayDecide(w)
  <2> DEFINE d == [step |-> w.seen.step, user |-> w.user, verdict |-> w.verdict]
             new == Decided(w)
             more == Append(log[k], d)
  <2>1. /\ requests' = [requests EXCEPT ![k] = new] /\ log' = [log EXCEPT ![k] = more]
        /\ final' = IF w.task = "approve" /\ Completes(w) THEN final \cup {k} ELSE final
        /\ bypassed' = bypassed
    <3>1. bypassed \in BOOLEAN /\ bypassed' = (bypassed \/ (w.task = "approve" /\ ~MayDecide(w)))
      BY DEF Decide, ApprovalTypeOK
    <3>2. bypassed' = bypassed
      BY <1>6, <3>1, Zenon
    <3> QED
      BY <1>6, <3>2 DEF Decide
  <2>2. /\ w.seen \in Request /\ w.seen.status = "pending" /\ <<w.user, w.seen.step>> \in MaySign
        /\ w.user \in User /\ w.verdict \in {"approve", "reject"}
        /\ w.seen.step \in 1..Steps /\ Steps \in Nat
    BY <1>1, <1>6, ApprovalAssumption DEF MayDecide, Work, Request
  <2>3. /\ new \in Request
        /\ w.verdict = "reject" => new.status = "rejected"
        /\ w.verdict = "approve" /\ w.seen.step < Steps =>
             new.status = "pending" /\ new.step = w.seen.step + 1
        /\ w.verdict = "approve" /\ w.seen.step = Steps => new.status = "approved"
    BY <2>2 DEF Decided, Request
  <2>4. InStep(w.seen, log[k])
    BY <1>1 DEF SignedStepByStep
  <2> HIDE DEF w, k, new
  <2>5. more \in Seq(Decision) /\ Len(more) = w.seen.step /\ InStep(new, more)
    BY <1>1, <2>2, <2>3, <2>4, NextSignature
  <2> HIDE DEF more
  <2>6. /\ requests' \in Seq(Request) /\ Len(requests') = Len(requests)
        /\ DOMAIN requests' = DOMAIN requests
        /\ requests'[k] = new /\ \A r \in DOMAIN requests \ {k} : requests'[r] = requests[r]
    BY <1>1, <2>1, <2>3, Numbered, ExceptSeq, LenProperties DEF ApprovalTypeOK
  <2>7. /\ log' \in Seq(Seq(Decision)) /\ Len(log') = Len(log)
        /\ log'[k] = more /\ \A r \in DOMAIN requests \ {k} : log'[r] = log[r]
    <3>1. k \in 1..Len(log) /\ DOMAIN requests = 1..Len(log)
      BY <1>1, Numbered DEF ApprovalTypeOK
    <3> QED
      BY <2>1, <2>5, <3>1, ExceptSeq DEF ApprovalTypeOK
  <2>8. ApprovalTypeOK'
    <3>1. k \in 1..MaxRequests
      BY <1>1, Numbered, ApprovalAssumption DEF ApprovalTypeOK
    <3> QED
      BY <1>1, <1>3, <2>1, <2>6, <2>7, <3>1 DEF ApprovalTypeOK
  <2>9. SignedStepByStep'
    BY <2>5, <2>6, <2>7 DEF SignedStepByStep
  <2>10. RequestsKnown'
    BY <1>2, <1>3, <2>6 DEF RequestsKnown
  <2>11. CopiesFresh'
    <3> SUFFICES ASSUME NEW t \in Session, At(t, "decide")'
                 PROVE  work'[t].seen = requests'[work'[t].request]
      BY DEF CopiesFresh
    <3>1. t # s /\ work'[t] = work[t] /\ At(t, "decide")
      BY <1>2, <1>3 DEF At
    <3>2. work[t].request # k /\ work[t].request \in DOMAIN requests
      BY <1>1, <3>1 DEF OneDecider, RequestsKnown, At, k
    <3> QED
      BY <2>6, <3>1, <3>2 DEF CopiesFresh
  <2>12. \A r \in DOMAIN requests : Signed(r) => Signed(r)'
    <3>1. ~Signed(k)
      BY <1>1, <2>2 DEF Signed
    <3> QED
      BY <2>6, <2>7, <3>1 DEF Signed
  <2>13. SavesOrder(w) => Completes(w) /\ w.task = "approve"
    BY <1>6 DEF SavesOrder
  <2>14. Completes(w) => Len(log'[k]) = Steps /\ requests'[k].status = "approved"
    BY <2>2, <2>3, <2>5, <2>6, <2>7 DEF Completes
  <2>15. GrantRests'
    <3> SUFFICES ASSUME Granted', ~bypassed' PROVE \E r \in DOMAIN requests' : Signed(r)'
      BY DEF GrantRests
    <3>1. CASE Granted
      BY <2>1, <2>6, <2>12, <3>1 DEF GrantRests
    <3>2. CASE ~Granted
      <4>1. v.at = "save"
        BY <1>1, <1>2, <1>3, <3>2 DEF Granted, At
      <4> QED
        BY <1>1, <1>2, <2>6, <2>13, <2>14, <4>1 DEF Signed
    <3> QED
      BY <3>1, <3>2
  <2>16. FinalKept'
    <3> SUFFICES ASSUME final' # {}, ~broken', order' \notin {"approved", "sent"} PROVE Saving'
      BY <1>1 DEF FinalKept
    <3>1. CASE w.task = "approve" /\ Completes(w)
      <4>1. SavesOrder(w)
        BY <3>1 DEF SavesOrder
      <4> QED
        BY <1>2, <1>3, <3>1, <4>1 DEF Saving, At
    <3>2. CASE ~(w.task = "approve" /\ Completes(w))
      <4>1. final # {} /\ ~broken /\ order \notin {"approved", "sent"}
        BY <1>1, <2>1, <3>2
      <4>2. PICK t \in Session : At(t, "save") /\ work[t].task = "approve"
        BY <4>1 DEF FinalKept, Saving
      <4> QED
        BY <1>1, <1>3, <4>2 DEF Saving, At
    <3> QED
      BY <3>1, <3>2
  <2> QED
    BY <1>4, <2>8, <2>9, <2>10, <2>11, <2>15, <2>16
<1> QED
  BY <1>5, <1>6

-----------------------------------------------------------------------------
(* The theorems.                                                           *)

\* Every step keeps the invariant.
THEOREM ApprovalInductive == ApprovalInv /\ [ApprovalNext]_approvalVars => ApprovalInv'
<1> SUFFICES ASSUME ApprovalInv, [ApprovalNext]_approvalVars PROVE ApprovalInv'
  OBVIOUS
<1>1. CASE UNCHANGED approvalVars
  BY <1>1 DEF approvalVars, ApprovalInv, ApprovalTypeOK, RequestsKnown, CopiesFresh, OneDecider, TaskKept, SignedStepByStep,
       GrantRests, Granted, Signed, FinalKept, Saving, At
<1> QED
  BY <1>1, ReadStep, OpenInboxStep, SubmitStep, FindRequestStep, SaveOrderStep,
     LockRequestStep, DecideStep, ViewDiesStep DEF ApprovalNext

\* The invariant the theorems below rest on holds throughout.
THEOREM ApprovalInvariantHolds == ApprovalSpec => []ApprovalInv
BY ApprovalInitial, ApprovalInductive, PTL DEF ApprovalSpec

\* The state keeps its types.
THEOREM ApprovalTypeCorrect == ApprovalSpec => []ApprovalTypeOK
<1>1. ApprovalInv => ApprovalTypeOK
  BY DEF ApprovalInv
<1> QED
  BY <1>1, ApprovalInvariantHolds, PTL

\* Whoever decides at the same time, from the order's page or the inbox, the
\* decisions on a request are one signature for each step, in their order, by
\* somebody entitled to it (process_approval, engine.py).
THEOREM SignedInOrder == ApprovalSpec => []SignedStepByStep
<1>1. ApprovalInv => SignedStepByStep
  BY DEF ApprovalInv
<1> QED
  BY <1>1, ApprovalInvariantHolds, PTL

\* An order that was approved through the engine has a request with all its
\* signatures, and a request completed on the order's page leads to the order's
\* approval (purchase_approve, views.py).
THEOREM OrderAndEngineAgree == ApprovalSpec => []OrderMatchesRequests
<1>1. ApprovalInv => OrderMatchesRequests
  BY DEF ApprovalInv, GrantRests, Granted, Signed, FinalKept, Saving, OrderMatchesRequests
<1> QED
  BY <1>1, ApprovalInvariantHolds, PTL

=============================================================================
