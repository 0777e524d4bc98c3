-------------------------- MODULE StockLedgerProofs --------------------------
(***************************************************************************)
(* The ledger of the inventory module keeps its promises about transfers,  *)
(* purchases and counts whatever requests interleave, fail or die, and its *)
(* promise about balances for accounts that no two requests have been at   *)
(* together, for any accounts, requests, documents and lines.              *)
(***************************************************************************)
EXTENDS StockLedger, SumLemmas, SequenceTheorems

-----------------------------------------------------------------------------
(* Rows and steps.                                                         *)

LEMMA EntryRows ==
  ASSUME TypeOK
  PROVE  /\ Len(entries) \in Nat /\ DOMAIN entries = 1..Len(entries)
         /\ \A i \in DOMAIN entries : entries[i] \in Entry
BY LenProperties DEF TypeOK

LEMMA LineRows ==
  ASSUME TypeOK, NEW s \in Session
  PROVE  /\ order[s].lines \in Seq(Line)
         /\ Len(order[s].lines) \in Nat /\ DOMAIN order[s].lines = 1..Len(order[s].lines)
         /\ pos[s] \in Nat \ {0}
         /\ Busy(s) <=> Running(s) /\ pos[s] \in DOMAIN order[s].lines
         /\ Busy(s) => Here(s) \in Line
<1>1. order[s].lines \in Seq(Line) /\ pos[s] \in Nat \ {0}
  BY DEF TypeOK
<1>2. Len(order[s].lines) \in Nat /\ DOMAIN order[s].lines = 1..Len(order[s].lines)
  BY <1>1, LenProperties
<1>3. Busy(s) <=> Running(s) /\ pos[s] \in DOMAIN order[s].lines
  BY <1>1, <1>2 DEF Busy
<1>4. Busy(s) => Here(s) \in Line
  BY <1>1, <1>3, ElementOfSeq DEF Here
<1> QED
  BY <1>1, <1>2, <1>3, <1>4

\* A transaction ends with a commit or a rollback; a line that fails is passed
\* over by the kinds of requests that swallow its exception.
LEMMA StepKinds ==
  ASSUME [Next]_vars
  PROVE  \/ UNCHANGED vars
         \/ \E d \in Doc, a \in Counted, n \in Counts : Count(d, a, n)
         \/ \E s \in Session :
              \/ BeginOrder(s) \/ BeginReceipt(s)
              \/ \E d \in Doc : BeginAdjustment(s, d)
              \/ Select(s) \/ PostEntry(s) \/ Commit(s)
              \/ Running(s) /\ Abort(s)
              \/ Busy(s) /\ ~LetsThrough(s) /\ Swallow(s)
<1>1. ASSUME NEW s \in Session, Reject(s) \/ Fault(s)
      PROVE  \/ Running(s) /\ Abort(s)
             \/ Busy(s) /\ ~LetsThrough(s) /\ Swallow(s)
  BY <1>1 DEF Reject, Fault, Raise, Busy
<1>2. ASSUME NEW s \in Session, DeadlockVictim(s)
      PROVE  \/ Running(s) /\ Abort(s)
             \/ Busy(s) /\ ~LetsThrough(s) /\ Swallow(s)
  <2>1. Busy(s)
    BY <1>2 DEF DeadlockVictim, Cycle, WaitsFor
  <2> QED
    BY <1>2, <2>1 DEF DeadlockVictim, Raise, Busy
<1>3. CASE \E s \in Session : Work(s) \/ Fault(s) \/ Die(s) \/ DeadlockVictim(s)
  BY <1>1, <1>2, <1>3 DEF Work, Die
<1> QED
  BY <1>3 DEF Next

\* The newest entry of a set is one of it.
LEMMA NewestEntry ==
  ASSUME NEW S, NEW n \in Nat, S \subseteq 1..n
  PROVE  /\ Newest(S) \in Nat
         /\ S = {} => Newest(S) = 0
         /\ S # {} => Newest(S) \in S /\ \A i \in S : i <= Newest(S)
<1>1. CASE S = {}
  BY <1>1 DEF Newest
<1>2. CASE S # {}
  <2> DEFINE rank == [i \in S |-> i]
  <2>1. \E m \in S : \A i \in S : rank[i] <= rank[m]
    <3>1. rank \in [S -> Nat] /\ \A i \in S : rank[i] <= n
      OBVIOUS
    <3> HIDE DEF rank
    <3> QED
      BY <1>2, <3>1, GreatestRank
  <2>2. \E m \in S : \A i \in S : i <= m
    BY <2>1
  <2>3. Newest(S) = CHOOSE m \in S : \A i \in S : i <= m
    BY <1>2 DEF Newest
  <2>4. Newest(S) \in S /\ \A i \in S : i <= Newest(S)
    BY <2>2, <2>3
  <2>5. Newest(S) \in Nat
    <3>1. PICK m : m = Newest(S)
      OBVIOUS
    <3>2. \A i \in S : i \in Nat
      OBVIOUS
    <3> QED
      BY <2>4, <3>1, <3>2
  <2> HIDE DEF rank
  <2> QED
    BY <1>2, <2>4, <2>5
<1> QED
  BY <1>1, <1>2

-----------------------------------------------------------------------------
(* Requests and entries.                                                   *)

\* What a request may be asked to do.
Asked(o) ==
  /\ o \in [kind : Kind, doc : Doc \cup Voucher \cup {None}, lines : Seq(Line)]
  /\ o.doc \in CASE o.kind = "adjustment" -> {d \in Doc : sheets[d].status # "none"}
                 [] o.kind \in {"receipt", "resave"} -> Voucher
                 [] OTHER -> {None}

\* The lines that a request has posted are its first n.
InOrder(s, n) ==
  /\ PostedLines(s) = 1..n
  /\ Running(s) => \/ pos[s] = n + 1
                   \/ pos[s] = Len(order[s].lines) + 1 /\ ~LetsThrough(s)
  /\ status[s] = "done" /\ LetsThrough(s) => n = Len(order[s].lines)

\* A request that has not begun has posted nothing.
LEMMA IdlePostedNothing ==
  ASSUME TypeOK, EntriesFollowOrders, NEW s \in Session, status[s] = "idle"
  PROVE  Posted(s) = {}
<1> SUFFICES ASSUME NEW i \in DOMAIN entries, entries[i].by = s PROVE FALSE
  BY DEF Posted
<1>1. entries[i].state \in {"pending", "committed", "gone"}
  BY EntryRows DEF Entry
<1>2. s # None
  BY NoneAssumption
<1> QED
  BY <1>1, <1>2 DEF EntriesFollowOrders

\* Beginning changes nothing but the request's order and status.
LEMMA StartStep ==
  ASSUME IInv, NEW s \in Session, NEW o, Asked(o), Start(s, o), twice' \subseteq Doc
  PROVE  IInv'
<1> USE DEF IInv
<1>1. /\ status[s] = "idle"
      /\ order' = [order EXCEPT ![s] = o] /\ status' = [status EXCEPT ![s] = "running"]
      /\ UNCHANGED <<entries, sheets, pos, chosen, phase, held, raced>>
  BY DEF Start
<1>2. TypeOK'
  BY <1>1 DEF TypeOK, Asked
<1>3. \A t \in Session \ {s} : order'[t] = order[t] /\ status'[t] = status[t]
  BY <1>1 DEF TypeOK
<1>4. order'[s] = o /\ status'[s] = "running" /\ Len(o.lines) \in Nat
  BY <1>1, LenProperties DEF TypeOK, Asked
<1>5. Posted(s) = {} /\ \A t \in Session : Posted(t)' = Posted(t)
  BY <1>1, IdlePostedNothing DEF Posted
<1>6. AtALine'
  <2>1. pos[s] = 1
    BY <1>1 DEF AtALine, Running
  <2> QED
    BY <1>1, <1>3, <1>4, <2>1 DEF AtALine, Running
<1>7. EntriesFollowOrders'
  <2> SUFFICES ASSUME NEW i \in DOMAIN entries
               PROVE
      LET e == entries[i]
          t == e.by
      IN IF t = None THEN e.state = "committed" /\ e.doc = None
         ELSE /\ (e.state = "pending") = (status'[t] = "running")
              /\ (e.state = "committed") = (status'[t] = "done")
              /\ (e.state = "gone") = (status'[t] = "failed")
              /\ e.line \in DOMAIN order'[t].lines
              /\ (status'[t] = "running" => e.line < pos'[t])
              /\ e.doc = order'[t].doc
              /\ e.account = order'[t].lines[e.line].account
              /\ e.qty = order'[t].lines[e.line].qty
              /\ \A j \in Posted(t)' : entries[j].line = e.line => j = i
    BY <1>1 DEF EntriesFollowOrders, Running
  <2>1. entries[i].by \in Session \cup {None} /\ entries[i].by # s
    BY <1>5, EntryRows DEF Entry, Posted
  <2> QED
    BY <1>1, <1>3, <1>5, <2>1 DEF EntriesFollowOrders, Running
<1>8. LinesInOrder'
  <2> SUFFICES ASSUME NEW t \in Session, order'[t].kind # "delivery"
               PROVE  \E n \in 0..Len(order'[t].lines) : InOrder(t, n)'
    BY DEF LinesInOrder, InOrder
  <2>1. CASE t = s
    <3>1. PostedLines(t)' = 1..0
      BY <1>5, <2>1 DEF PostedLines
    <3>2. pos'[t] = 0 + 1 /\ status'[t] # "done" /\ 0 \in 0..Len(order'[t].lines)
      BY <1>1, <1>4, <2>1 DEF AtALine, Running
    <3>3. InOrder(t, 0)'
      BY <3>1, <3>2 DEF InOrder
    <3> QED
      BY <3>2, <3>3
  <2>2. CASE t # s
    <3>1. PostedLines(t)' = PostedLines(t)
      BY <1>1, <1>5 DEF PostedLines
    <3>2. PICK n \in 0..Len(order[t].lines) : InOrder(t, n)
      BY <1>3, <2>2 DEF LinesInOrder, InOrder
    <3>3. InOrder(t, n)'
      BY <1>1, <1>3, <2>2, <3>1, <3>2 DEF InOrder, Running, LetsThrough
    <3> QED
      BY <1>3, <2>2, <3>2, <3>3
  <2> QED
    BY <2>1, <2>2
<1>9. KindsOfDocs'
  BY <1>1, <1>3, <1>4 DEF KindsOfDocs, Asked
<1>10. BalancesAdded'
  BY <1>1 DEF BalancesAdded, BalanceAt
<1> QED
  BY <1>2, <1>6, <1>7, <1>8, <1>9, <1>10

\* The orders that requests begin with.
LEMMA BegunOrder ==
  ASSUME IInv, NEW s \in Session,
         BeginOrder(s) \/ BeginReceipt(s) \/ \E d \in Doc : BeginAdjustment(s, d)
  PROVE  \E o : Asked(o) /\ Start(s, o) /\ twice' \subseteq Doc
<1>1. Orders[s] \subseteq Order
  BY OrdersAssumption
<1>2. twice \subseteq Doc
  BY DEF IInv, TypeOK
<1>3. CASE BeginOrder(s)
  <2>1. PICK o \in Orders[s] : o.kind \in {"transfer", "delivery"} /\ Start(s, o)
    BY <1>3 DEF BeginOrder
  <2>2. o \in Order /\ o.doc = None
    BY SMTT(30), <1>1, <2>1, OrdersAssumption
  <2> QED
    BY <1>2, <1>3, <2>1, <2>2 DEF BeginOrder, Asked, Order
<1>4. CASE BeginReceipt(s)
  <2>1. PICK o \in Orders[s] :
          /\ o.kind = "receipt"
          /\ \/ Start(s, [o EXCEPT !.lines = ReceiptLines(o)])
             \/ Start(s, [o EXCEPT !.lines = ReceiptLines(o), !.kind = "resave"])
    BY <1>4 DEF BeginReceipt
  <2>2. o \in Order /\ o.doc \in Voucher
    BY <1>1, <2>1, OrdersAssumption
  <2>3. ReceiptLines(o) \in Seq(Line)
    BY <2>2, EmptySeq DEF ReceiptLines, Order
  <2> DEFINE l == ReceiptLines(o)
  <2> HIDE DEF l
  <2>4. Asked([o EXCEPT !.lines = l])
    BY <2>1, <2>2, <2>3 DEF Asked, Order, l
  <2>5. Asked([o EXCEPT !.lines = l, !.kind = "resave"])
    BY <2>1, <2>2, <2>3 DEF Asked, Order, Kind, l
  <2> QED
    BY ZenonT(60), <1>2, <1>4, <2>1, <2>4, <2>5 DEF BeginReceipt, l
<1>5. ASSUME NEW d \in Doc, BeginAdjustment(s, d) PROVE \E o : Asked(o) /\ Start(s, o) /\ twice' \subseteq Doc
  <2> DEFINE v == sheets[d].variance
             lines == IF v = 0 THEN <<>> ELSE <<[account |-> sheets[d].account, qty |-> v]>>
             o == [kind |-> "adjustment", doc |-> d, lines |-> lines]
  <2>1. Start(s, o) /\ twice' \subseteq Doc
    BY <1>2, <1>5 DEF BeginAdjustment
  <2>2. v \in Int /\ sheets[d].account \in Account
    <3>1. sheets[d].status = "draft" /\ sheets[d] \in Sheet
      BY <1>5 DEF BeginAdjustment, Postable, IInv, TypeOK
    <3>2. sheets[d] \in [status : {"draft", "posted"}, account : Counted, counted : Counts,
                         at : Nat, variance : Int]
      BY <3>1 DEF Sheet, Blank
    <3> QED
      BY <3>2, CountsAssumption
  <2>3. lines \in Seq(Line)
    <3>1. v # 0 => [account |-> sheets[d].account, qty |-> v] \in Line
      BY <2>2 DEF Line
    <3> QED
      BY <3>1
  <2> HIDE DEF lines
  <2>4. Asked(o)
    BY <1>5, <2>3 DEF Asked, Kind, BeginAdjustment, Postable
  <2> HIDE DEF o
  <2> QED
    BY <2>1, <2>4
<1> QED
  BY <1>3, <1>4, <1>5

\* Counting writes a document and nothing else.
LEMMA CountStep ==
  ASSUME IInv, NEW d \in Doc, NEW a \in Counted, NEW n \in Counts, Count(d, a, n)
  PROVE  IInv'
<1> USE DEF IInv
<1>1. UNCHANGED <<entries, order, status, pos, chosen, phase, held, raced, twice>>
  BY DEF Count, session, history
<1> DEFINE at == Newest({i \in Of(a) : Committed(i)})
<1>2. at \in Nat /\ BalanceAt(at) \in Int
  <2>1. {i \in Of(a) : Committed(i)} \subseteq 1..Len(entries) /\ Len(entries) \in Nat
    BY EntryRows DEF Of
  <2>2. at \in Nat /\ (at = 0 \/ at \in DOMAIN entries)
    BY <2>1, NewestEntry, EntryRows DEF Of
  <2> HIDE DEF at
  <2> QED
    BY <2>2, EntryRows DEF BalanceAt, Entry
<1>3. PICK w : w = Variance(n, BalanceAt(at))
  OBVIOUS
<1>4. w \in Int
  BY <1>2, <1>3, CountsAssumption DEF Variance
<1>5. sheets' = [sheets EXCEPT ![d] =
        [status |-> "draft", account |-> a, counted |-> n, at |-> at, variance |-> w]]
  BY <1>3 DEF Count
<1> HIDE DEF at
<1>6. [status |-> "draft", account |-> a, counted |-> n, at |-> at, variance |-> w] \in Sheet
  BY <1>2, <1>4 DEF Sheet
<1>7. TypeOK'
  BY <1>1, <1>5, <1>6 DEF TypeOK
<1>8. KindsOfDocs'
  <2>1. \A c \in Doc : sheets[c].status # "none" => sheets'[c].status # "none"
    BY <1>5 DEF TypeOK
  <2> QED
    BY <1>1, <2>1 DEF KindsOfDocs
<1> QED
  BY <1>1, <1>7, <1>8 DEF AtALine, EntriesFollowOrders, LinesInOrder, BalancesAdded,
     Running, Posted, PostedLines, LetsThrough, BalanceAt

\* Selecting changes nothing but the row that the request goes on with.
LEMMA SelectStep ==
  ASSUME IInv, NEW s \in Session, Select(s)
  PROVE  IInv'
<1> USE DEF IInv
<1>1. UNCHANGED <<entries, sheets, order, status, pos, held, twice>>
  BY DEF Select
<1> DEFINE row == Latest(s, Here(s).account)
<1>2. row \in Nat /\ row <= Len(entries)
  <2> DEFINE seen == {i \in Of(Here(s).account) : Visible(s, i)}
  <2>1. seen \subseteq 1..Len(entries) /\ Len(entries) \in Nat
    BY EntryRows DEF Of
  <2>2. Newest(seen) \in Nat /\ (Newest(seen) = 0 \/ Newest(seen) \in 1..Len(entries))
    <3> HIDE DEF seen
    <3> QED
      BY <2>1, NewestEntry
  <2>3. PICK m : m = Newest(seen)
    OBVIOUS
  <2>4. m \in Nat /\ m <= Len(entries)
    BY <2>1, <2>2, <2>3
  <2> QED
    BY <2>3, <2>4 DEF Latest
<1>3. chosen' = [chosen EXCEPT ![s] = row] /\ phase' = [phase EXCEPT ![s] = "post"]
  BY DEF Select
<1>4. raced' \subseteq Account
  BY LineRows DEF TypeOK, Select, Line
<1> HIDE DEF row
<1>5. TypeOK'
  BY <1>1, <1>2, <1>3, <1>4 DEF TypeOK
<1>6. AtALine'
  BY <1>1, <1>2, <1>3 DEF TypeOK, AtALine, Select, Busy, Running
<1>7. EntriesFollowOrders'
  BY <1>1 DEF EntriesFollowOrders, Running, Posted
<1>8. LinesInOrder'
  BY <1>1 DEF LinesInOrder, Running, Posted, PostedLines, LetsThrough
<1>9. KindsOfDocs' /\ BalancesAdded'
  BY <1>1 DEF KindsOfDocs, BalancesAdded, BalanceAt
<1> QED
  BY <1>5, <1>6, <1>7, <1>8, <1>9

\* A row that is appended is the last one, and the others stay.
LEMMA AppendedRow ==
  ASSUME TypeOK, NEW e, entries' = Append(entries, e)
  PROVE  LET n == Len(entries) + 1
         IN /\ n \in Nat \ {0} /\ n \notin DOMAIN entries
            /\ Len(entries') = n /\ DOMAIN entries' = (DOMAIN entries) \cup {n}
            /\ entries'[n] = e
            /\ \A i \in DOMAIN entries : entries'[i] = entries[i]
<1>1. entries \in Seq(Entry) /\ Len(entries) \in Nat
  BY LenProperties DEF TypeOK
<1>2. /\ Len(entries') = Len(entries) + 1
      /\ DOMAIN entries' = 1..Len(entries')
      /\ entries'[Len(entries) + 1] = e
      /\ \A i \in 1..Len(entries) : entries'[i] = entries[i]
  <2>1. Len(entries') = Len(entries) + 1 /\ DOMAIN entries' = 1..Len(entries) + 1
    BY <1>1
  <2>2. DOMAIN entries = 1..Len(entries)
    BY EntryRows
  <2> QED
    BY <1>1, <2>1, <2>2
<1> QED
  BY <1>1, <1>2, EntryRows

\* The entry that a request makes for its line.
LEMMA PostedEntry ==
  ASSUME TypeOK, AtALine, NEW s \in Session, PostEntry(s)
  PROVE  \E e \in Entry :
           /\ entries' = Append(entries, e)
           /\ e.account = Here(s).account /\ e.qty = Here(s).qty
           /\ e.balance = BalanceAt(chosen[s]) + Here(s).qty
           /\ e.pred = chosen[s] /\ e.by = s /\ e.doc = order[s].doc
           /\ e.line = pos[s] /\ e.state = "pending"
<1>1. Busy(s) /\ Here(s) \in Line
  BY LineRows DEF PostEntry
<1>2. BalanceAt(chosen[s]) \in Int
  <2>1. PICK c : c = chosen[s]
    OBVIOUS
  <2>2. c = 0 \/ c \in DOMAIN entries
    BY <2>1, EntryRows DEF AtALine, TypeOK
  <2>3. c \in DOMAIN entries => entries[c].balance \in Int
    BY EntryRows DEF Entry
  <2> QED
    BY <2>1, <2>2, <2>3 DEF BalanceAt
<1>3. PICK b : b = NewBalance(s)
  OBVIOUS
<1>4. b \in Int /\ b = BalanceAt(chosen[s]) + Here(s).qty
  BY <1>1, <1>2, <1>3 DEF NewBalance, Line
<1> DEFINE r == [account |-> Here(s).account, qty |-> Here(s).qty, balance |-> b,
                 pred |-> chosen[s], by |-> s, doc |-> order[s].doc, line |-> pos[s],
                 state |-> "pending"]
<1>5. entries' = Append(entries, r)
  BY <1>3 DEF PostEntry
<1>6. r \in Entry
  BY <1>1, <1>4 DEF Entry, TypeOK, Line
<1>7. /\ r.account = Here(s).account /\ r.qty = Here(s).qty
      /\ r.balance = BalanceAt(chosen[s]) + Here(s).qty
      /\ r.pred = chosen[s] /\ r.by = s /\ r.doc = order[s].doc
      /\ r.line = pos[s] /\ r.state = "pending"
  BY <1>4
<1> HIDE DEF r
<1> QED
  BY <1>5, <1>6, <1>7

\* Posting adds an entry for the line and goes on to the next.
LEMMA PostStep ==
  ASSUME IInv, NEW s \in Session, PostEntry(s)
  PROVE  IInv'
<1> USE DEF IInv
<1>1. /\ UNCHANGED <<sheets, order, status, chosen, raced, twice>>
      /\ pos' = [pos EXCEPT ![s] = pos[s] + 1]
      /\ phase' = [phase EXCEPT ![s] = "select"]
  BY DEF PostEntry, Advance, NextLine, history
<1>2. Running(s) /\ phase[s] = "post" /\ pos[s] \in DOMAIN order[s].lines
  BY LineRows DEF PostEntry
<1>3. PICK e \in Entry :
        /\ entries' = Append(entries, e)
        /\ e.account = Here(s).account /\ e.qty = Here(s).qty
        /\ e.balance = BalanceAt(chosen[s]) + Here(s).qty
        /\ e.pred = chosen[s] /\ e.by = s /\ e.doc = order[s].doc
        /\ e.line = pos[s] /\ e.state = "pending"
  BY PostedEntry
<1> DEFINE n == Len(entries) + 1
<1>4. /\ n \in Nat \ {0} /\ n \notin DOMAIN entries
      /\ Len(entries') = n /\ DOMAIN entries' = (DOMAIN entries) \cup {n}
      /\ entries'[n] = e
      /\ \A i \in DOMAIN entries : entries'[i] = entries[i]
  BY <1>3, AppendedRow
<1>5. Len(entries) \in Nat /\ DOMAIN entries = 1..Len(entries)
  BY EntryRows
<1>6. /\ Posted(s)' = Posted(s) \cup {n} /\ n \notin Posted(s)
      /\ \A t \in Session \ {s} : Posted(t)' = Posted(t)
  BY <1>3, <1>4 DEF Posted
<1>7. /\ PostedLines(s)' = PostedLines(s) \cup {pos[s]}
      /\ \A t \in Session \ {s} : PostedLines(t)' = PostedLines(t)
  <2>1. \A t \in Session : \A i \in Posted(t) : entries'[i] = entries[i]
    BY <1>4 DEF Posted
  <2>2. \A t \in Session \ {s} : PostedLines(t)' = PostedLines(t)
    BY <1>6, <2>1 DEF PostedLines
  <2>3. PostedLines(s)' = PostedLines(s) \cup {pos[s]}
    <3>1. entries'[n].line = pos[s]
      BY <1>3, <1>4
    <3>2. \A l : (\E i \in Posted(s)' : entries'[i].line = l)
                 <=> (\E i \in Posted(s) : entries[i].line = l) \/ l = pos[s]
      <4> HIDE DEF n
      <4> QED
        BY <1>6, <2>1, <3>1
    <3> QED
      BY <3>2 DEF PostedLines
  <2> QED
    BY <2>2, <2>3
<1>8. \A t \in Session : t # s => pos'[t] = pos[t] /\ phase'[t] = phase[t]
  BY <1>1 DEF TypeOK
<1>9. pos'[s] = pos[s] + 1 /\ phase'[s] = "select" /\ pos[s] \in Nat
  BY <1>1 DEF TypeOK
<1> HIDE DEF n
<1>10. TypeOK'
  <2>1. entries' \in Seq(Entry)
    BY <1>3, AppendProperties DEF TypeOK
  <2>2. held' \in [Session -> SUBSET Nat]
    BY DEF PostEntry, TypeOK
  <2>3. pos' \in [Session -> Nat \ {0}]
    BY <1>1, <1>9 DEF TypeOK
  <2>4. phase' \in [Session -> {"select", "post"}]
    BY <1>1 DEF TypeOK
  <2> QED
    BY <1>1, <2>1, <2>2, <2>3, <2>4 DEF TypeOK
<1>11. AtALine'
  <2>1. \A t \in Session : chosen[t] \in Nat /\ chosen[t] <= Len(entries')
    BY <1>4, <1>5 DEF AtALine, TypeOK, n
  <2>2. pos'[s] <= Len(order[s].lines) + 1
    BY <1>2, <1>9, LineRows
  <2> QED
    BY <1>1, <1>2, <1>8, <2>1, <2>2 DEF AtALine, Running
<1>12. EntriesFollowOrders'
  <2> SUFFICES ASSUME NEW i \in DOMAIN entries', NEW t, t = entries'[i].by
               PROVE
        IF t = None THEN entries'[i].state = "committed" /\ entries'[i].doc = None
        ELSE /\ (entries'[i].state = "pending") = (status[t] = "running")
             /\ (entries'[i].state = "committed") = (status[t] = "done")
             /\ (entries'[i].state = "gone") = (status[t] = "failed")
             /\ entries'[i].line \in DOMAIN order[t].lines
             /\ (status[t] = "running" => entries'[i].line < pos'[t])
             /\ entries'[i].doc = order[t].doc
             /\ entries'[i].account = order[t].lines[entries'[i].line].account
             /\ entries'[i].qty = order[t].lines[entries'[i].line].qty
             /\ \A j \in Posted(t)' : entries'[j].line = entries'[i].line => j = i
    BY SMTT(30), <1>1 DEF EntriesFollowOrders, Running
  <2>1. CASE i = n
    <3>1. t = s /\ t # None
      BY <1>3, <1>4, <2>1, NoneAssumption
    <3>2. \A j \in Posted(s) : entries[j].line # pos[s]
      BY <1>2, <1>9, NoneAssumption, EntryRows DEF EntriesFollowOrders, Posted, Entry
    <3>3. \A j \in Posted(s) : entries'[j] = entries[j]
      BY <1>4 DEF Posted
    <3>4. \A j \in Posted(t)' : entries'[j].line = entries'[i].line => j = i
      <4>1. entries'[i].line = pos[s]
        BY <1>3, <1>4, <2>1
      <4>2. Posted(t)' = Posted(s) \cup {n}
        BY <1>6, <3>1
      <4> QED
        BY <2>1, <3>2, <3>3, <4>1, <4>2
    <3>5. e.account = order[t].lines[pos[s]].account /\ e.qty = order[t].lines[pos[s]].qty
      BY <1>3, <3>1 DEF Here
    <3>6. pos[s] < pos'[t]
      BY <1>9, <3>1
    <3> QED
      BY <1>2, <1>3, <1>4, <2>1, <3>1, <3>4, <3>5, <3>6 DEF Running
  <2>2. CASE i # n
    <3>1. i \in DOMAIN entries /\ entries'[i] = entries[i] /\ t = entries[i].by
      BY <1>4, <2>2
    <3>2. entries[i].by \in Session \cup {None}
      BY <3>1, EntryRows DEF Entry
    <3>3. CASE t = s
      <4>1. entries[i].line \in Nat /\ entries[i].line < pos[s] /\ entries[i].line < pos'[s]
        <5>1. entries[i].line \in Nat
          BY <3>1, EntryRows DEF Entry
        <5>2. entries[i].line < pos[s]
          BY ZenonT(60), <1>2, <3>1, <3>3, NoneAssumption DEF EntriesFollowOrders
        <5> QED
          BY <1>9, <5>1, <5>2
      <4>2. \A j \in Posted(t)' : entries'[j].line = entries'[i].line => j = i
        <5>1. entries'[n].line # entries'[i].line
          BY <1>3, <1>4, <1>9, <3>1, <4>1
        <5>2. \A j \in Posted(s) : entries[j].line = entries[i].line => j = i
          BY <3>1, <3>3, NoneAssumption DEF EntriesFollowOrders
        <5>3. \A j \in Posted(s) : entries'[j] = entries[j]
          BY <1>4 DEF Posted
        <5> QED
          BY <1>6, <3>1, <3>3, <5>1, <5>2, <5>3
      <4>3. t # None /\ entries[i].by # None
        BY <3>1, <3>3, NoneAssumption
      <4>4. /\ (entries[i].state = "pending") = (status[t] = "running")
            /\ (entries[i].state = "committed") = (status[t] = "done")
            /\ (entries[i].state = "gone") = (status[t] = "failed")
            /\ entries[i].line \in DOMAIN order[t].lines
            /\ entries[i].doc = order[t].doc
            /\ entries[i].account = order[t].lines[entries[i].line].account
            /\ entries[i].qty = order[t].lines[entries[i].line].qty
        BY <3>1, <4>3 DEF EntriesFollowOrders
      <4> QED
        BY <3>1, <3>3, <4>1, <4>2, <4>3, <4>4
    <3>4. CASE t # s
      <4>1. \A j \in Posted(t) : entries'[j] = entries[j]
        BY <1>4 DEF Posted
      <4> QED
        BY <1>6, <1>8, <3>1, <3>2, <3>4, <4>1 DEF EntriesFollowOrders, Running
    <3> QED
      BY <3>3, <3>4
  <2> QED
    BY <2>1, <2>2
<1>13. LinesInOrder'
  <2> SUFFICES ASSUME NEW t \in Session, order[t].kind # "delivery"
               PROVE  \E k \in 0..Len(order[t].lines) : InOrder(t, k)'
    BY <1>1 DEF LinesInOrder, InOrder
  <2>1. PICK k \in 0..Len(order[t].lines) : InOrder(t, k)
    BY DEF LinesInOrder, InOrder
  <2>2. CASE t = s
    <3>1. pos[s] = k + 1 /\ k \in Nat
      BY <1>2, <2>1, <2>2, LineRows DEF InOrder
    <3>2. PostedLines(s)' = 1..(k + 1)
      BY <1>7, <2>1, <2>2, <3>1 DEF InOrder
    <3>3. k + 1 \in 0..Len(order[t].lines)
      BY <1>2, <2>2, <3>1, LineRows
    <3>4. InOrder(t, k + 1)'
      BY <1>1, <1>2, <1>9, <2>2, <3>1, <3>2 DEF InOrder, Running
    <3> QED
      BY <3>3, <3>4
  <2>3. CASE t # s
    <3>1. InOrder(t, k)'
      BY <1>1, <1>7, <1>8, <2>1, <2>3 DEF InOrder, Running, LetsThrough
    <3> QED
      BY <3>1
  <2> QED
    BY <2>2, <2>3
<1>14. KindsOfDocs'
  BY <1>1 DEF KindsOfDocs
<1>15. BalancesAdded'
  <2>1. \A i \in DOMAIN entries : entries[i].pred \in Nat /\ entries[i].pred < i
    BY EntryRows DEF BalancesAdded, Entry
  <2>2. \A k \in 0..Len(entries) :
          (IF k = 0 THEN 0 ELSE entries'[k].balance) = BalanceAt(k)
    BY <1>4, <1>5 DEF BalanceAt
  <2>3. chosen[s] \in 0..Len(entries)
    BY <1>5 DEF AtALine, TypeOK
  <2> SUFFICES ASSUME NEW i \in DOMAIN entries', NEW k, k = entries'[i].pred
               PROVE  /\ k < i
                      /\ entries'[i].balance
                           = (IF k = 0 THEN 0 ELSE entries'[k].balance) + entries'[i].qty
    BY DEF BalancesAdded, BalanceAt
  <2>4. CASE i = n
    <3>1. k = chosen[s] /\ entries'[i].balance = BalanceAt(k) + entries'[i].qty
      BY <1>3, <1>4, <2>4
    <3>2. k < n
      BY <1>5, <2>3, <3>1 DEF n
    <3> QED
      BY <2>2, <2>3, <2>4, <3>1, <3>2
  <2>5. CASE i # n
    <3>1. i \in DOMAIN entries /\ entries'[i] = entries[i] /\ k = entries[i].pred
      BY <1>4, <2>5
    <3>2. k \in 0..Len(entries) /\ k < i
      BY <1>5, <2>1, <3>1
    <3>3. entries[i].balance = BalanceAt(k) + entries[i].qty
      BY <3>1 DEF BalancesAdded
    <3> QED
      BY <2>2, <3>1, <3>2, <3>3
  <2> QED
    BY <2>4, <2>5
<1> QED
  BY <1>10, <1>11, <1>12, <1>13, <1>14, <1>15

\* The end of a transaction changes the state of its entries and nothing else
\* of the ledger.
LEMMA SettledRows ==
  ASSUME TypeOK, NEW s, NEW result \in {"committed", "gone"}, entries' = Settle(s, result)
  PROVE  /\ entries' \in Seq(Entry)
         /\ DOMAIN entries' = DOMAIN entries /\ Len(entries') = Len(entries)
         /\ \A i \in DOMAIN entries :
              /\ entries'[i].state = IF entries[i].state = "pending" /\ entries[i].by = s
                                     THEN result ELSE entries[i].state
              /\ entries'[i].account = entries[i].account
              /\ entries'[i].qty = entries[i].qty
              /\ entries'[i].balance = entries[i].balance
              /\ entries'[i].pred = entries[i].pred
              /\ entries'[i].by = entries[i].by
              /\ entries'[i].doc = entries[i].doc
              /\ entries'[i].line = entries[i].line
<1>1. \A i \in DOMAIN entries : entries[i] \in Entry
  BY EntryRows
<1>2. \A i \in DOMAIN entries :
        entries'[i] = IF entries[i].state = "pending" /\ entries[i].by = s
                      THEN [entries[i] EXCEPT !.state = result] ELSE entries[i]
  BY DEF Settle
<1>3. \A i \in DOMAIN entries : entries'[i] \in Entry
  <2> SUFFICES ASSUME NEW i \in DOMAIN entries PROVE entries'[i] \in Entry
    OBVIOUS
  <2>1. PICK e : e = entries[i]
    OBVIOUS
  <2>2. e \in Entry /\ [e EXCEPT !.state = result] \in Entry
    BY <1>1, <2>1 DEF Entry
  <2> QED
    BY <1>2, <2>1, <2>2
<1>4. DOMAIN entries' = 1..Len(entries) /\ Len(entries) \in Nat
  BY EntryRows DEF Settle
<1>5. entries' \in Seq(Entry) /\ Len(entries') = Len(entries)
  <2>1. entries' = [i \in 1..Len(entries) |-> entries'[i]]
    BY <1>4, EntryRows DEF Settle
  <2>2. entries' \in [1..Len(entries) -> Entry]
    BY <1>3, <1>4, <2>1, EntryRows
  <2>3. entries' \in Seq(Entry)
    BY <1>4, <2>2, SeqDef
  <2> QED
    BY <1>4, <2>2, <2>3, LenProperties
<1> QED
  BY <1>1, <1>2, <1>4, <1>5, EntryRows DEF Entry

\* A transaction that ends takes its entries with it, one way or the other.
LEMMA EndStep ==
  ASSUME IInv, NEW s \in Session, Running(s), NEW result, NEW outcome,
         End(s, result, outcome),
         <<result, outcome>> \in {<<"gone", "failed">>, <<"committed", "done">>},
         outcome = "done" => ~Busy(s),
         sheets' \in [Doc -> Sheet], UNCHANGED <<order, raced, twice>>,
         \A d \in Doc : sheets[d].status # "none" => sheets'[d].status # "none"
  PROVE  IInv'
<1> USE DEF IInv
<1>1. \/ result = "gone" /\ outcome = "failed"
      \/ result = "committed" /\ outcome = "done"
  OBVIOUS
<1>2. /\ status' = [status EXCEPT ![s] = outcome] /\ pos' = [pos EXCEPT ![s] = 1]
      /\ chosen' = [chosen EXCEPT ![s] = 0] /\ phase' = [phase EXCEPT ![s] = "select"]
      /\ held' = [held EXCEPT ![s] = {}]
  BY DEF End
<1>3. /\ entries' \in Seq(Entry)
      /\ DOMAIN entries' = DOMAIN entries /\ Len(entries') = Len(entries)
      /\ \A i \in DOMAIN entries :
           /\ entries'[i].state = IF entries[i].state = "pending" /\ entries[i].by = s
                                  THEN result ELSE entries[i].state
           /\ entries'[i].account = entries[i].account
           /\ entries'[i].qty = entries[i].qty
           /\ entries'[i].balance = entries[i].balance
           /\ entries'[i].pred = entries[i].pred
           /\ entries'[i].by = entries[i].by
           /\ entries'[i].doc = entries[i].doc
           /\ entries'[i].line = entries[i].line
  <2>1. entries' = Settle(s, result) /\ result \in {"committed", "gone"}
    BY <1>1 DEF End
  <2> QED
    BY <2>1, SettledRows
<1>4. /\ status'[s] = outcome /\ pos'[s] = 1 /\ chosen'[s] = 0 /\ phase'[s] = "select"
      /\ \A t \in Session \ {s} :
           status'[t] = status[t] /\ pos'[t] = pos[t] /\ chosen'[t] = chosen[t]
             /\ phase'[t] = phase[t]
  BY <1>2 DEF TypeOK
<1>5. \A t : Posted(t)' = Posted(t) /\ PostedLines(t)' = PostedLines(t)
  BY <1>3 DEF Posted, PostedLines
<1>6. TypeOK'
  BY <1>1, <1>2, <1>3 DEF TypeOK
<1>7. AtALine'
  <2>1. Len(order[s].lines) \in Nat /\ Len(entries) \in Nat
    BY LineRows, EntryRows
  <2> QED
    BY <1>1, <1>3, <1>4, <2>1 DEF AtALine, Running
<1>8. EntriesFollowOrders'
  <2> SUFFICES ASSUME NEW i \in DOMAIN entries, NEW t, t = entries[i].by
               PROVE
        IF t = None THEN entries'[i].state = "committed" /\ entries[i].doc = None
        ELSE /\ (entries'[i].state = "pending") = (status'[t] = "running")
             /\ (entries'[i].state = "committed") = (status'[t] = "done")
             /\ (entries'[i].state = "gone") = (status'[t] = "failed")
             /\ entries[i].line \in DOMAIN order[t].lines
             /\ (status'[t] = "running" => entries[i].line < pos'[t])
             /\ entries[i].doc = order[t].doc
             /\ entries[i].account = order[t].lines[entries[i].line].account
             /\ entries[i].qty = order[t].lines[entries[i].line].qty
             /\ \A j \in Posted(t) : entries[j].line = entries[i].line => j = i
    <3>1. \A t \in Session : \A j \in Posted(t) : entries'[j].line = entries[j].line
      BY <1>3 DEF Posted
    <3>2. \A j \in DOMAIN entries : entries[j].by \in Session \cup {None}
      BY EntryRows DEF Entry
    <3> QED
      BY <1>3, <1>5, <3>1, <3>2 DEF EntriesFollowOrders, Running
  <2>1. t \in Session \cup {None}
    BY EntryRows DEF Entry
  <2>2. CASE t = None
    <3>1. entries[i].by # s
      BY <2>2, NoneAssumption
    <3> QED
      BY ZenonT(60), <1>3, <2>2, <3>1 DEF EntriesFollowOrders
  <2>3. CASE t = s
    <3>1. t # None /\ entries[i].state = "pending"
      <4>1. entries[i].by # None /\ status[entries[i].by] = "running"
        BY <2>3, NoneAssumption DEF Running
      <4> QED
        BY <2>3, <4>1 DEF EntriesFollowOrders
    <3>2. entries'[i].state = result
      BY <1>3, <2>3, <3>1
    <3> QED
      BY ZenonT(60), <1>1, <1>4, <2>3, <3>1, <3>2 DEF EntriesFollowOrders
  <2>4. CASE t # s /\ t # None
    <3>1. entries'[i].state = entries[i].state
      BY <1>3, <2>4
    <3> QED
      BY <1>4, <2>1, <2>4, <3>1 DEF EntriesFollowOrders, Running
  <2> QED
    BY <2>1, <2>2, <2>3, <2>4
<1>9. LinesInOrder'
  <2> SUFFICES ASSUME NEW t \in Session, order[t].kind # "delivery"
               PROVE  \E k \in 0..Len(order[t].lines) : InOrder(t, k)'
    BY DEF LinesInOrder, InOrder
  <2>1. PICK k \in 0..Len(order[t].lines) : InOrder(t, k)
    BY DEF LinesInOrder, InOrder
  <2>2. CASE t = s
    <3>1. ~Busy(s) /\ LetsThrough(s) => k = Len(order[s].lines)
      <4>1. ~Busy(s) => pos[s] = Len(order[s].lines) + 1
        <5>1. pos[s] \in Nat /\ Len(order[s].lines) \in Nat
          BY LineRows
        <5> QED
          BY <5>1 DEF AtALine, Busy
      <4> QED
        BY <2>1, <2>2, <4>1, LineRows DEF InOrder
    <3>2. InOrder(t, k)'
      BY <1>1, <1>4, <1>5, <2>1, <2>2, <3>1 DEF InOrder, Running, LetsThrough
    <3> QED
      BY <3>2
  <2>3. CASE t # s
    <3>1. InOrder(t, k)'
      BY <1>4, <1>5, <2>1, <2>3 DEF InOrder, Running, LetsThrough
    <3> QED
      BY <3>1
  <2> QED
    BY <2>2, <2>3
<1>10. KindsOfDocs'
  BY DEF KindsOfDocs
<1>11. BalancesAdded'
  <2> SUFFICES ASSUME NEW i \in DOMAIN entries, NEW k, k = entries[i].pred
               PROVE  /\ k < i
                      /\ entries[i].balance
                           = (IF k = 0 THEN 0 ELSE entries'[k].balance) + entries[i].qty
    BY <1>3 DEF BalancesAdded, BalanceAt
  <2>1. k \in Nat /\ k < i /\ entries[i].balance = BalanceAt(k) + entries[i].qty
    BY EntryRows DEF BalancesAdded, Entry
  <2>2. k = 0 \/ k \in DOMAIN entries
    BY <2>1, EntryRows
  <2> QED
    BY <1>3, <2>1, <2>2 DEF BalanceAt
<1> QED
  BY <1>6, <1>7, <1>8, <1>9, <1>10, <1>11

\* Passing over a line changes nothing but the line the request is at.
LEMMA SwallowStep ==
  ASSUME IInv, NEW s \in Session, Busy(s), ~LetsThrough(s), Swallow(s)
  PROVE  IInv'
<1> USE DEF IInv
<1>1. /\ UNCHANGED <<entries, sheets, order, status, chosen, held, raced, twice>>
      /\ pos' = [pos EXCEPT ![s] = Resume(s)]
      /\ phase' = [phase EXCEPT ![s] = "select"]
  BY DEF Swallow, history
<1>2. /\ Running(s) /\ pos[s] \in Nat \ {0}
      /\ Len(order[s].lines) \in Nat /\ pos[s] <= Len(order[s].lines)
  BY LineRows DEF Busy
<1>3. /\ Resume(s) \in Nat \ {0} /\ pos[s] < Resume(s)
      /\ Resume(s) <= Len(order[s].lines) + 1
      /\ order[s].kind # "delivery" => Resume(s) = Len(order[s].lines) + 1
  BY <1>2 DEF Resume
<1>4. \A t \in Session \ {s} : pos'[t] = pos[t] /\ phase'[t] = phase[t]
  BY <1>1 DEF TypeOK
<1>5. pos'[s] = Resume(s)
  BY <1>1 DEF TypeOK
<1>6. TypeOK'
  BY <1>1, <1>3 DEF TypeOK
<1>7. AtALine'
  BY <1>1, <1>2, <1>3, <1>4, <1>5 DEF AtALine, Running
<1>8. EntriesFollowOrders'
  <2>1. ASSUME NEW i \in DOMAIN entries, entries[i].by # None, Running(entries[i].by)
        PROVE  entries[i].line < pos'[entries[i].by]
    <3>1. entries[i].line \in Nat /\ entries[i].by \in Session
      BY <2>1, EntryRows DEF Entry
    <3>2. entries[i].line < pos[entries[i].by]
      BY <2>1 DEF EntriesFollowOrders
    <3> QED
      BY <1>2, <1>3, <1>4, <1>5, <3>1, <3>2
  <2> QED
    BY <1>1, <2>1 DEF EntriesFollowOrders, Running, Posted
<1>9. LinesInOrder'
  <2> SUFFICES ASSUME NEW t \in Session, order[t].kind # "delivery"
               PROVE  \E k \in 0..Len(order[t].lines) : InOrder(t, k)'
    BY <1>1 DEF LinesInOrder, InOrder
  <2>1. PICK k \in 0..Len(order[t].lines) : InOrder(t, k)
    BY DEF LinesInOrder, InOrder
  <2>2. PostedLines(t)' = PostedLines(t)
    BY <1>1 DEF Posted, PostedLines
  <2>3. InOrder(t, k)'
    BY <1>1, <1>2, <1>3, <1>4, <1>5, <2>1, <2>2 DEF InOrder, Running, LetsThrough
  <2> QED
    BY <2>3
<1>10. KindsOfDocs' /\ BalancesAdded'
  BY <1>1 DEF KindsOfDocs, BalancesAdded, BalanceAt
<1> QED
  BY <1>6, <1>7, <1>8, <1>9, <1>10

LEMMA Initial == Init => IInv
<1> SUFFICES ASSUME Init PROVE IInv
  OBVIOUS
<1> DEFINE n == Len(Opening)
<1>1. /\ Opening \in Seq([account : Account, qty : Nat \ {0}])
      /\ n \in Nat /\ DOMAIN Opening = 1..n
      /\ \A i \in 1..n : Opening[i] \in [account : Account, qty : Nat \ {0}]
  BY OpeningAssumption, LenProperties, ElementOfSeq
<1>2. \A i \in 1..n :
        entries[i] = [account |-> Opening[i].account, qty |-> Opening[i].qty,
                      balance |-> Opening[i].qty, pred |-> 0, by |-> None, doc |-> None,
                      line |-> 1, state |-> "committed"]
  BY <1>1 DEF Init
<1>3. \A i \in 1..n : entries[i] \in Entry
  <2> SUFFICES ASSUME NEW i \in 1..n PROVE entries[i] \in Entry
    OBVIOUS
  <2>1. PICK a, q : a = Opening[i].account /\ q = Opening[i].qty
    OBVIOUS
  <2>2. a \in Account /\ q \in Int
    BY <1>1, <2>1
  <2>3. [account |-> a, qty |-> q, balance |-> q, pred |-> 0, by |-> None, doc |-> None,
         line |-> 1, state |-> "committed"] \in Entry
    BY <2>2 DEF Entry
  <2> QED
    BY <1>2, <2>1, <2>3
<1>4. DOMAIN entries = 1..n /\ entries \in Seq(Entry)
  <2>1. entries \in [1..n -> Entry]
    BY <1>1, <1>3 DEF Init
  <2> QED
    BY <1>1, <2>1, SeqDef
<1>5. Len(entries) = n
  BY <1>1, <1>4, LenProperties
<1> HIDE DEF n
<1>6. TypeOK
  BY <1>4, EmptySeq DEF Init, TypeOK, Sheet, NoOrder, Kind
<1>7. \A s \in Session : Posted(s) = {} /\ Len(order[s].lines) = 0
  BY <1>2, <1>4, NoneAssumption, EmptySeq DEF Posted, Init, NoOrder
<1>8. AtALine
  BY <1>1, <1>5, <1>7 DEF Init, AtALine
<1>9. EntriesFollowOrders
  BY <1>2, <1>4 DEF EntriesFollowOrders
<1>10. LinesInOrder
  <2> SUFFICES ASSUME NEW s \in Session
               PROVE  \E k \in 0..Len(order[s].lines) : InOrder(s, k)
    BY DEF LinesInOrder, InOrder
  <2>1. PostedLines(s) = 1..0
    BY <1>7 DEF PostedLines
  <2>2. InOrder(s, 0) /\ 0 \in 0..Len(order[s].lines)
    BY <1>7, <2>1 DEF InOrder, Init, Running
  <2> QED
    BY <2>2
<1>11. KindsOfDocs
  BY DEF Init, KindsOfDocs, NoOrder
<1>12. BalancesAdded
  BY <1>1, <1>2, <1>4 DEF BalancesAdded, BalanceAt
<1> QED
  BY <1>6, <1>8, <1>9, <1>10, <1>11, <1>12 DEF IInv

\* What every step may do to a request and its entries.
THEOREM Inductive == IInv /\ [Next]_vars => IInv'
<1> SUFFICES ASSUME IInv, [Next]_vars PROVE IInv'
  OBVIOUS
<1>1. CASE UNCHANGED vars
  <2>1. UNCHANGED <<entries, sheets, order, status, pos, chosen, phase, held, raced, twice>>
    BY <1>1 DEF vars, session, history
  <2>2. TypeOK' /\ AtALine' /\ KindsOfDocs' /\ BalancesAdded'
    BY <2>1 DEF IInv, TypeOK, AtALine, KindsOfDocs, BalancesAdded, Running, BalanceAt
  <2>3. EntriesFollowOrders' /\ LinesInOrder'
    BY <2>1 DEF IInv, EntriesFollowOrders, LinesInOrder, Running, Posted, PostedLines, LetsThrough
  <2> QED
    BY <2>2, <2>3 DEF IInv
<1>2. CASE \E d \in Doc, a \in Counted, n \in Counts : Count(d, a, n)
  BY <1>2, CountStep
<1>3. ASSUME NEW s \in Session,
             BeginOrder(s) \/ BeginReceipt(s) \/ \E d \in Doc : BeginAdjustment(s, d)
      PROVE  IInv'
  BY <1>3, BegunOrder, StartStep
<1>4. ASSUME NEW s \in Session, Commit(s) PROVE IInv'
  <2>1. /\ sheets' \in [Doc -> Sheet]
        /\ \A d \in Doc : sheets[d].status # "none" => sheets'[d].status # "none"
    <3>1. CASE order[s].kind = "adjustment"
      <4>1. PICK d \in Doc : d = order[s].doc /\ sheets[d].status # "none"
        BY <3>1 DEF IInv, KindsOfDocs
      <4>2. sheets \in [Doc -> Sheet] /\ sheets[d] \in Sheet \ {Blank}
        BY <4>1 DEF IInv, TypeOK, Blank
      <4>3. PICK l : l = [sheets[d] EXCEPT !.status = "posted"]
        OBVIOUS
      <4>4. l \in Sheet /\ l.status # "none"
        <5>1. PICK c : c = sheets[d]
          OBVIOUS
        <5>2. c \in [status : {"draft", "posted"}, account : Counted, counted : Counts,
                     at : Nat, variance : Int]
          BY <4>2, <5>1 DEF Sheet
        <5> QED
          BY <4>3, <5>1, <5>2 DEF Sheet
      <4>5. sheets' = [sheets EXCEPT ![d] = l]
        BY <1>4, <3>1, <4>1, <4>3 DEF Commit
      <4> QED
        BY <4>2, <4>4, <4>5
    <3>2. CASE order[s].kind # "adjustment"
      BY <1>4, <3>2 DEF Commit, IInv, TypeOK
    <3> QED
      BY <3>1, <3>2
  <2> QED
    BY <1>4, <2>1, EndStep DEF Commit, history
<1>5. ASSUME NEW s \in Session, Running(s), Abort(s) PROVE IInv'
  BY <1>5, EndStep DEF Abort, history, IInv, TypeOK
<1> QED
  BY <1>1, <1>2, <1>3, <1>4, <1>5, StepKinds, SelectStep, PostStep, SwallowStep

THEOREM InvariantHolds == Spec => []IInv
<1> QED
  BY Initial, Inductive, PTL DEF Spec

THEOREM TypeCorrect == Spec => []TypeOK
<1>1. IInv => TypeOK
  BY DEF IInv
<1> QED
  BY <1>1, InvariantHolds, PTL

-----------------------------------------------------------------------------
(* Transfers.                                                              *)

\* If one entry of a request is committed, the request is done and all of its
\* entries are committed.
LEMMA CommittedTogether ==
  ASSUME IInv, NEW i \in DOMAIN entries, Committed(i), entries[i].by # None
  PROVE  /\ entries[i].by \in Session /\ status[entries[i].by] = "done"
         /\ order[entries[i].by].doc = entries[i].doc
         /\ \A j \in Posted(entries[i].by) : Committed(j) /\ entries[j].doc = entries[i].doc
<1> PICK s : s = entries[i].by
  OBVIOUS
<1>1. s \in Session
  BY EntryRows DEF IInv, Entry
<1>2. status[s] = "done" /\ order[s].doc = entries[i].doc
  BY DEF IInv, EntriesFollowOrders, Committed
<1>3. \A j \in Posted(s) : j \in DOMAIN entries /\ entries[j].by = s /\ entries[j].by # None
  BY DEF Posted
<1>4. \A j \in Posted(s) : Committed(j) /\ entries[j].doc = order[s].doc
  BY <1>2, <1>3 DEF IInv, EntriesFollowOrders, Committed
<1> QED
  BY <1>1, <1>2, <1>4

\* A transfer never reaches the ledger in part: whatever fails, a line refused,
\* a deadlock, a worker that dies, either all of its lines are in or none.
THEOREM TransfersWhole == Spec => []TransferWhole
<1>1. ASSUME IInv PROVE TransferWhole
  <2> SUFFICES ASSUME NEW s \in Session, order[s].kind = "transfer",
                      NEW i \in DOMAIN entries, Committed(i), entries[i].by = s
               PROVE  {entries[k].line : k \in {j \in DOMAIN entries : Committed(j) /\ entries[j].by = s}}
                        = DOMAIN order[s].lines
    BY DEF TransferWhole
  <2>1. s # None
    BY NoneAssumption
  <2>2. status[s] = "done" /\ \A j \in Posted(s) : Committed(j)
    BY <1>1, <2>1, CommittedTogether
  <2>3. {j \in DOMAIN entries : Committed(j) /\ entries[j].by = s} = Posted(s)
    BY <2>2 DEF Posted
  <2>4. PICK n \in 0..Len(order[s].lines) : InOrder(s, n)
    BY <1>1 DEF IInv, LinesInOrder, InOrder
  <2>5. PostedLines(s) = 1..Len(order[s].lines)
    BY <2>2, <2>4 DEF InOrder, LetsThrough
  <2>6. PostedLines(s) = DOMAIN order[s].lines
    BY <1>1, <2>5, LineRows DEF IInv
  <2> QED
    BY <2>3, <2>6 DEF PostedLines
<1> QED
  BY <1>1, InvariantHolds, PTL

-----------------------------------------------------------------------------
(* Purchases.                                                              *)

\* What a step may do to the rows that the ledger has.
LEMMA StartedRows ==
  ASSUME TypeOK, NEW s \in Session, NEW o, Start(s, o)
  PROVE  /\ entries' = entries /\ order'[s] = o /\ status[s] = "idle" /\ status'[s] = "running"
         /\ \A t \in Session \ {s} : order'[t] = order[t] /\ status'[t] = status[t]
BY DEF Start, TypeOK

THEOREM InitialReceipts == Init => ReceiptInv
<1> SUFFICES ASSUME Init PROVE ReceiptInv
  OBVIOUS
<1>1. \A i \in DOMAIN entries : entries[i].doc = None
  BY DEF Init
<1>2. \A v \in Voucher : v # None
  BY NoneAssumption
<1>3. \A s \in Session : ~Running(s)
  BY DEF Init, Running
<1> QED
  BY <1>1, <1>2, <1>3 DEF ReceiptInv

\* A request for another document leaves the purchases alone.
LEMMA ReceiptsUntouched ==
  ASSUME TypeOK, ReceiptInv, NEW s \in Session, NEW o, Start(s, o), o.doc \notin Voucher
  PROVE  ReceiptInv'
<1>1. /\ entries' = entries /\ order'[s] = o
      /\ \A t \in Session \ {s} : order'[t] = order[t] /\ status'[t] = status[t]
  BY StartedRows
<1>2. \A v \in Voucher, t \in Session : order'[t].doc = v => t # s
  BY <1>1
<1> QED
  BY <1>1, <1>2 DEF ReceiptInv, Running, Live

\* A purchase begins when no other request handles it, and with lines only if
\* none of its entries is in.
LEMMA ReceiptBegun ==
  ASSUME IInv, ReceiptInv, NEW s \in Session, BeginReceipt(s)
  PROVE  ReceiptInv'
<1>1. PICK o \in Orders[s] :
        /\ o.kind = "receipt"
        /\ ~\E t \in Session : Handles(t, o)
        /\ \/ Start(s, [o EXCEPT !.lines = ReceiptLines(o)])
           \/ Start(s, [o EXCEPT !.lines = ReceiptLines(o), !.kind = "resave"])
  BY DEF BeginReceipt
<1>2. o \in Order /\ o.doc \in Voucher
  BY <1>1, OrdersAssumption
<1>3. PICK b : /\ Start(s, b) /\ b.doc = o.doc /\ b.lines = ReceiptLines(o)
  <2> PICK l : l = ReceiptLines(o)
    OBVIOUS
  <2>1. [o EXCEPT !.lines = l].doc = o.doc /\ [o EXCEPT !.lines = l].lines = l
    BY <1>2 DEF Order
  <2>2. /\ [o EXCEPT !.lines = l, !.kind = "resave"].doc = o.doc
        /\ [o EXCEPT !.lines = l, !.kind = "resave"].lines = l
    BY <1>2 DEF Order
  <2> QED
    BY <1>1, <2>1, <2>2
<1>4. /\ entries' = entries /\ order'[s] = b
      /\ \A t \in Session \ {s} : order'[t] = order[t] /\ status'[t] = status[t]
  BY <1>3, StartedRows DEF IInv
<1>5. \A t \in Session : Running(t) => order[t].doc # o.doc
  BY <1>1 DEF Handles
<1>6. ASSUME NEW i \in DOMAIN entries, Live(i), entries[i].doc = o.doc PROVE b.lines = <<>>
  <2>1. entries[i].by \in Session \cup {None} /\ entries[i].state \in {"pending", "committed"}
    BY <1>6, EntryRows DEF IInv, Entry, Live
  <2>2. Committed(i)
    <3>1. CASE entries[i].by = None
      BY <3>1 DEF IInv, EntriesFollowOrders, Committed
    <3>2. CASE entries[i].by # None
      <4>1. order[entries[i].by].doc = o.doc /\ ~Running(entries[i].by)
        BY <1>5, <1>6, <2>1, <3>2 DEF IInv, EntriesFollowOrders
      <4> QED
        BY <2>1, <3>2, <4>1 DEF IInv, EntriesFollowOrders, Running, Committed
    <3> QED
      BY <3>1, <3>2
  <2> QED
    BY <1>3, <1>6, <2>2 DEF ReceiptLines, Known
<1>7. ASSUME NEW v \in Voucher, NEW t \in Session, NEW u \in Session,
             Running(t)', Running(u)', order'[t].doc = v, order'[u].doc = v
      PROVE  t = u
  <2>1. CASE v = o.doc
    BY <1>4, <1>5, <1>7, <2>1 DEF Running
  <2>2. CASE v # o.doc
    BY <1>3, <1>4, <1>7, <2>2 DEF ReceiptInv, Running
  <2> QED
    BY <2>1, <2>2
<1>8. ASSUME NEW v \in Voucher, NEW t \in Session, NEW i \in DOMAIN entries,
             Running(t)', order'[t].doc = v, order'[t].lines # <<>>, Live(i), entries[i].doc = v
      PROVE  entries[i].by = t
  <2>1. t # s
    BY <1>3, <1>4, <1>6, <1>8
  <2> QED
    BY <1>4, <1>8, <2>1 DEF ReceiptInv, Running
<1>9. \A i : Live(i)' <=> Live(i)
  BY <1>4 DEF Live
<1> QED
  BY <1>4, <1>7, <1>8, <1>9 DEF ReceiptInv

\* What a request posts for a purchase is all there is of it.
LEMMA ReceiptPosted ==
  ASSUME IInv, ReceiptInv, NEW s \in Session, PostEntry(s)
  PROVE  ReceiptInv'
<1>1. UNCHANGED <<order, status>> /\ Running(s) /\ order[s].lines # <<>>
  <2>1. order[s].lines # <<>>
    BY LineRows DEF IInv, PostEntry
  <2> QED
    BY <2>1 DEF PostEntry, Busy
<1>2. PICK e \in Entry :
        entries' = Append(entries, e) /\ e.by = s /\ e.doc = order[s].doc
  BY PostedEntry DEF IInv
<1> DEFINE n == Len(entries) + 1
<1>3. /\ DOMAIN entries' = (DOMAIN entries) \cup {n} /\ entries'[n] = e
      /\ \A i \in DOMAIN entries : entries'[i] = entries[i]
  BY <1>2, AppendedRow DEF IInv
<1> HIDE DEF n
<1>4. \A i \in DOMAIN entries : Live(i)' <=> Live(i)
  BY <1>3 DEF Live
<1>5. ASSUME NEW i \in DOMAIN entries, Live(i), entries[i].doc \in Voucher, entries[i].doc = order[s].doc
      PROVE  entries[i].by = s
  BY <1>1, <1>5 DEF ReceiptInv
<1>6. ASSUME NEW v \in Voucher, NEW t \in Session, NEW u \in Session,
             Running(t)', Running(u)', order'[t].doc = v, order'[u].doc = v
      PROVE  t = u
  BY <1>1, <1>6 DEF ReceiptInv, Running
<1>7. ASSUME NEW v \in Voucher, NEW i \in DOMAIN entries', NEW j \in DOMAIN entries',
             Live(i)', Live(j)', entries'[i].doc = v, entries'[j].doc = v
      PROVE  entries'[i].by = entries'[j].by
  <2>1. CASE i # n /\ j # n
    BY <1>3, <1>4, <1>7, <2>1 DEF ReceiptInv
  <2>2. CASE i = n \/ j = n
    BY <1>2, <1>3, <1>4, <1>5, <1>7, <2>2
  <2> QED
    BY <2>1, <2>2
<1>8. ASSUME NEW v \in Voucher, NEW t \in Session, NEW i \in DOMAIN entries',
             Running(t)', order'[t].doc = v, order'[t].lines # <<>>, Live(i)', entries'[i].doc = v
      PROVE  entries'[i].by = t
  <2>1. CASE i = n
    BY <1>1, <1>2, <1>3, <1>6, <1>8, <2>1 DEF Running
  <2>2. CASE i # n
    BY <1>1, <1>3, <1>4, <1>8, <2>2 DEF ReceiptInv, Running
  <2> QED
    BY <2>1, <2>2
<1> QED
  BY <1>6, <1>7, <1>8 DEF ReceiptInv

\* The end of a transaction takes entries away or leaves them.
LEMMA ReceiptEnded ==
  ASSUME IInv, ReceiptInv, NEW s \in Session, NEW result \in {"committed", "gone"}, NEW outcome,
         outcome # "running", End(s, result, outcome), UNCHANGED order
  PROVE  ReceiptInv'
<1>1. /\ DOMAIN entries' = DOMAIN entries
      /\ \A i \in DOMAIN entries :
           /\ entries'[i].state = IF entries[i].state = "pending" /\ entries[i].by = s
                                  THEN result ELSE entries[i].state
           /\ entries'[i].by = entries[i].by /\ entries'[i].doc = entries[i].doc
  <2>1. entries' = Settle(s, result)
    BY DEF End
  <2> QED
    BY <2>1, SettledRows DEF IInv
<1>2. \A t \in Session : Running(t)' => Running(t)
  BY DEF End, IInv, TypeOK, Running
<1>3. \A i \in DOMAIN entries : Live(i)' => Live(i)
  BY <1>1 DEF Live
<1> QED
  BY <1>1, <1>2, <1>3 DEF ReceiptInv

\* Holds of every step of a ledger that IInv describes.
THEOREM InductiveReceipts == IInv /\ ReceiptInv /\ [Next]_vars => ReceiptInv'
<1> SUFFICES ASSUME IInv, ReceiptInv, [Next]_vars PROVE ReceiptInv'
  OBVIOUS
<1>1. ASSUME UNCHANGED <<entries, order, status>> PROVE ReceiptInv'
  BY <1>1 DEF ReceiptInv, Running, Live
<1>2. CASE UNCHANGED vars \/ \E d \in Doc, a \in Counted, n \in Counts : Count(d, a, n)
  BY <1>1, <1>2 DEF vars, session, Count
<1>3. ASSUME NEW s \in Session, Select(s) \/ Swallow(s) PROVE ReceiptInv'
  BY <1>1, <1>3 DEF Select, Swallow
<1>4. ASSUME NEW s \in Session, Commit(s) \/ Abort(s) PROVE ReceiptInv'
  BY <1>4, ReceiptEnded DEF Commit, Abort
<1>5. ASSUME NEW s \in Session, BeginOrder(s) PROVE ReceiptInv'
  <2>1. PICK o \in Orders[s] : o.kind # "receipt" /\ Start(s, o)
    BY <1>5 DEF BeginOrder
  <2>2. o.doc \notin Voucher
    BY <2>1, OrdersAssumption, NoneAssumption
  <2> QED
    BY <2>1, <2>2, ReceiptsUntouched DEF IInv
<1>6. ASSUME NEW s \in Session, NEW d \in Doc, BeginAdjustment(s, d) PROVE ReceiptInv'
  <2>1. \E o : Start(s, o) /\ o.doc = d
    BY <1>6 DEF BeginAdjustment
  <2> QED
    BY <2>1, ReceiptsUntouched, DocAssumption DEF IInv
<1> QED
  BY <1>2, <1>3, <1>4, <1>5, <1>6, StepKinds, ReceiptBegun, ReceiptPosted

\* The lines of a purchase that are in the ledger are its first lines, each
\* once, however often the purchase is saved and wherever a line failed.
THEOREM ReceiptsArePrefixes == Spec => []ReceiptIsPrefix
<1>1. ASSUME IInv, ReceiptInv PROVE ReceiptIsPrefix
  <2> SUFFICES ASSUME NEW v \in Voucher, NEW ids,
                      ids = {i \in DOMAIN entries : Committed(i) /\ entries[i].doc = v}
               PROVE  LET lines == {entries[i].line : i \in ids}
                      IN /\ Cardinality(ids) = Cardinality(lines)
                         /\ lines = 1..Cardinality(lines)
    BY DEF ReceiptIsPrefix
  <2>1. CASE ids = {}
    <3>1. {entries[i].line : i \in ids} = {} /\ 1..0 = {}
      BY <2>1
    <3> QED
      BY <2>1, <3>1, FS_EmptySet
  <2>2. CASE ids # {}
    <3>1. PICK i \in ids : TRUE
      BY <2>2
    <3>2. entries[i].by # None
      BY <1>1, <3>1, NoneAssumption DEF IInv, EntriesFollowOrders
    <3>3. PICK s \in Session : s = entries[i].by
      BY <1>1, <3>1, <3>2, CommittedTogether
    <3>4. order[s].doc = v /\ Posted(s) \subseteq ids
      BY <1>1, <3>1, <3>2, <3>3, CommittedTogether DEF Posted
    <3>5. ids \subseteq Posted(s)
      BY <1>1, <3>1, <3>3 DEF ReceiptInv, Live, Committed, Posted
    <3>6. order[s].kind # "delivery"
      BY <1>1, <3>4, NoneAssumption DEF IInv, KindsOfDocs
    <3>7. PICK n \in 0..Len(order[s].lines) : PostedLines(s) = 1..n
      BY <1>1, <3>6 DEF IInv, LinesInOrder
    <3>8. n \in Nat
      BY <1>1, LineRows DEF IInv
    <3>9. {entries[j].line : j \in ids} = 1..n
      BY <3>4, <3>5, <3>7 DEF PostedLines
    <3>10. IsFiniteSet(1..n) /\ Cardinality(1..n) = n
      BY <3>8, FS_Interval
    <3>11. Cardinality(ids) = n
      <4> DEFINE f == [j \in ids |-> entries[j].line]
      <4>1. f \in Bijection(ids, 1..n)
        <5>1. \A j, k \in ids : f[j] = f[k] => j = k
          <6> SUFFICES ASSUME NEW j \in ids, NEW k \in ids, entries[j].line = entries[k].line
                       PROVE  j = k
            OBVIOUS
          <6>1. /\ j \in DOMAIN entries /\ k \in DOMAIN entries
                /\ entries[j].by = s /\ entries[j].by # None /\ k \in Posted(entries[j].by)
            BY <3>2, <3>3, <3>5 DEF Posted
          <6> QED
            BY <1>1, <6>1 DEF IInv, EntriesFollowOrders
        <5>2. {f[j] : j \in ids} = 1..n
          BY <3>9
        <5>3. f \in [ids -> 1..n]
          BY <3>9
        <5>4. \A l \in 1..n : \E j \in ids : f[j] = l
          BY <5>2
        <5> HIDE DEF f
        <5> QED
          BY <5>1, <5>3, <5>4 DEF Bijection, Injection, Surjection, IsInjective
      <4>2. IsFiniteSet(ids)
        <5>1. ids \subseteq 1..Len(entries) /\ Len(entries) \in Nat
          BY <1>1, EntryRows DEF IInv
        <5> QED
          BY <5>1, FS_Interval, FS_Subset
      <4> HIDE DEF f
      <4> QED
        BY <3>10, <4>1, <4>2, FS_Bijection DEF ExistsBijection
    <3> QED
      BY <3>9, <3>10, <3>11
  <2> QED
    BY <2>1, <2>2
<1>2. Spec => []ReceiptInv
  BY InvariantHolds, InitialReceipts, InductiveReceipts, PTL DEF Spec
<1> QED
  BY <1>1, <1>2, InvariantHolds, PTL

-----------------------------------------------------------------------------
(* Counts.                                                                 *)

\* A written document has all of its fields.
LEMMA WrittenSheet ==
  ASSUME TypeOK, NEW d \in Doc, sheets[d].status # "none"
  PROVE  /\ sheets[d] \in [status : {"draft", "posted"}, account : Counted, counted : Counts,
                           at : Nat, variance : Int]
         /\ sheets[d].variance \in Int /\ sheets[d].counted \in Int /\ sheets[d].at \in Nat
<1>1. sheets[d] \in Sheet /\ sheets[d] # Blank
  BY DEF TypeOK, Blank
<1>2. PICK c : c = sheets[d]
  OBVIOUS
<1>3. c \in [status : {"draft", "posted"}, account : Counted, counted : Counts,
             at : Nat, variance : Int]
  BY <1>1, <1>2 DEF Sheet
<1>4. c.variance \in Int /\ c.at \in Nat /\ c.counted \in Counts
  BY <1>3
<1>5. c.counted \in Int
  BY <1>4, CountsAssumption
<1> QED
  BY <1>2, <1>3, <1>4, <1>5

\* The balance that a document was counted against stays as it was.
LEMMA CountedBalanceStays ==
  ASSUME TypeOK, NEW d \in Doc, sheets[d].status # "none", sheets[d].at <= Len(entries),
         Len(entries') \in Nat, Len(entries) <= Len(entries'),
         \A i \in DOMAIN entries : entries'[i].balance = entries[i].balance
  PROVE  /\ sheets[d].at <= Len(entries')
         /\ \A at : at = sheets[d].at =>
              (IF at = 0 THEN 0 ELSE entries'[at].balance) = BalanceAt(at)
<1>1. sheets[d].at \in Nat
  BY WrittenSheet
<1>2. sheets[d].at = 0 \/ sheets[d].at \in DOMAIN entries
  BY <1>1, EntryRows
<1> QED
  BY <1>1, <1>2, EntryRows DEF BalanceAt

THEOREM InitialSheets == Init => SheetInv
<1> SUFFICES ASSUME Init PROVE SheetInv
  OBVIOUS
<1>1. \A d \in Doc : sheets[d].status = "none" /\ d # None
  BY NoneAssumption DEF Init, Blank
<1>2. \A s \in Session : order[s].doc = None
  BY DEF Init, NoOrder
<1> QED
  BY <1>1, <1>2 DEF SheetInv, SheetFollowed

\* Counting writes a document that no request has seen.
LEMMA SheetCounted ==
  ASSUME IInv, SheetInv, NEW d \in Doc, NEW a \in Counted, NEW n \in Counts, Count(d, a, n)
  PROVE  SheetInv'
<1>1. sheets[d].status = "none" /\ UNCHANGED <<entries, order, status, twice>>
  BY DEF Count, session, history
<1>2. PICK at : at = Newest({i \in Of(a) : Committed(i)})
  OBVIOUS
<1>3. at <= Len(entries)
  <2> DEFINE S == {i \in Of(a) : Committed(i)}
  <2>1. S \subseteq 1..Len(entries) /\ Len(entries) \in Nat
    BY EntryRows DEF Of, IInv
  <2>2. Newest(S) = 0 \/ Newest(S) \in 1..Len(entries)
    <3> HIDE DEF S
    <3> QED
      BY <2>1, NewestEntry
  <2>3. at = 0 \/ at \in 1..Len(entries)
    BY <1>2, <2>2
  <2> QED
    BY <2>1, <2>3
<1>4. PICK w : w = Variance(n, BalanceAt(at))
  OBVIOUS
<1> DEFINE l == [status |-> "draft", account |-> a, counted |-> n, at |-> at, variance |-> w]
<1>5. sheets' = [sheets EXCEPT ![d] = l]
  BY <1>2, <1>4 DEF Count
<1>6. l.status = "draft" /\ l.at = at /\ l.counted = n /\ l.variance = w
  OBVIOUS
<1> HIDE DEF l
<1>7. sheets'[d] = l /\ \A c \in Doc \ {d} : sheets'[c] = sheets[c]
  BY <1>5 DEF IInv, TypeOK
<1>8. SheetFollowed(d)'
  <2>1. \A s \in Session : order'[s].doc # d
    BY <1>1 DEF SheetInv, SheetFollowed
  <2>2. sheets'[d].at = at /\ sheets'[d].counted = n /\ sheets'[d].variance = w /\ sheets'[d].status = "draft"
    BY <1>6, <1>7
  <2>3. sheets'[d].variance = Variance(sheets'[d].counted, IF at = 0 THEN 0 ELSE entries'[at].balance)
    BY <1>1, <1>4, <2>2 DEF BalanceAt
  <2> QED
    BY <1>1, <1>3, <2>1, <2>2, <2>3 DEF SheetFollowed, BalanceAt
<1>9. ASSUME NEW c \in Doc \ {d} PROVE SheetFollowed(c)'
  <2>1. SheetFollowed(c) /\ sheets'[c] = sheets[c]
    BY <1>7 DEF SheetInv
  <2> QED
    BY <1>1, <2>1 DEF SheetFollowed, DocLines, Running, BalanceAt
<1> QED
  BY <1>8, <1>9 DEF SheetInv

\* A request that begins posts what its document says, and is marked when
\* another is at the document.
LEMMA SheetBegun ==
  ASSUME IInv, SheetInv, NEW s \in Session, NEW o, Start(s, o), twice \subseteq twice',
         \A d \in Doc : o.doc = d =>
           /\ sheets[d].status = "draft" /\ o.lines = DocLines(d)
           /\ d \in twice' \/ \A t \in Session : ~Handles(t, o)
  PROVE  SheetInv'
<1>1. /\ entries' = entries /\ order'[s] = o /\ status[s] = "idle" /\ status'[s] = "running"
      /\ \A t \in Session \ {s} : order'[t] = order[t] /\ status'[t] = status[t]
  BY StartedRows DEF IInv
<1>2. sheets' = sheets
  BY DEF Start
<1> SUFFICES ASSUME NEW d \in Doc PROVE SheetFollowed(d)'
  BY DEF SheetInv
<1>3. SheetFollowed(d)
  BY DEF SheetInv
<1>4. DocLines(d)' = DocLines(d)
  BY <1>2 DEF DocLines
<1>5. ASSUME NEW t \in Session, order'[t].doc = d
      PROVE  /\ sheets[d].status # "none"
             /\ order'[t].lines = DocLines(d)
             /\ d \notin twice' /\ status'[t] = "running" => sheets[d].status = "draft"
             /\ status'[t] = "done" => sheets[d].status = "posted"
  <2>1. CASE t = s
    BY <1>1, <1>5, <2>1
  <2>2. CASE t # s
    BY <1>1, <1>3, <1>5, <2>2 DEF SheetFollowed, Running
  <2> QED
    BY <2>1, <2>2
<1>6. ASSUME d \notin twice', NEW t \in Session, NEW u \in Session,
             order'[t].doc = d, order'[u].doc = d, status'[t] = status'[u],
             status'[t] \in {"running", "done"}
      PROVE  t = u
  <2>1. CASE t # s /\ u # s
    BY <1>1, <1>3, <1>6, <2>1 DEF SheetFollowed
  <2>2. CASE o.doc = d
    <3>1. \A r \in Session \ {s} : order'[r].doc = d => status'[r] # "running"
      BY <1>1, <1>6, <2>2 DEF Handles, Running
    <3> QED
      BY <1>1, <1>6, <2>1, <3>1
  <2>3. CASE o.doc # d
    BY <1>1, <1>6, <2>1, <2>3
  <2> QED
    BY <2>2, <2>3
<1>7. sheets[d].status = "posted" => \E t \in Session : status'[t] = "done" /\ order'[t].doc = d
  BY <1>1, <1>3 DEF SheetFollowed
<1>8. SheetFollowed(d)' <=>
        /\ sheets[d].status # "none" =>
             /\ sheets[d].at <= Len(entries)
             /\ sheets[d].variance = Variance(sheets[d].counted, BalanceAt(sheets[d].at))
        /\ \A t \in Session : order'[t].doc = d =>
             /\ sheets[d].status # "none"
             /\ order'[t].lines = DocLines(d)
             /\ d \notin twice' /\ status'[t] = "running" => sheets[d].status = "draft"
             /\ status'[t] = "done" => sheets[d].status = "posted"
        /\ d \notin twice' =>
             \A t, u \in Session :
               /\ order'[t].doc = d /\ order'[u].doc = d
               /\ status'[t] = status'[u] /\ status'[t] \in {"running", "done"}
               => t = u
        /\ sheets[d].status = "posted" => \E t \in Session : status'[t] = "done" /\ order'[t].doc = d
  BY <1>1, <1>2, <1>4 DEF SheetFollowed, Running, BalanceAt
<1> QED
  BY <1>3, <1>5, <1>6, <1>7, <1>8 DEF SheetFollowed

\* Posting a line leaves every document as it is.
LEMMA SheetPosted ==
  ASSUME IInv, SheetInv, NEW s \in Session, PostEntry(s)
  PROVE  SheetInv'
<1>1. UNCHANGED <<sheets, order, status, twice>>
  BY DEF PostEntry, history
<1>2. PICK e : entries' = Append(entries, e)
  BY PostedEntry DEF IInv
<1>3. /\ Len(entries') \in Nat /\ Len(entries) <= Len(entries')
      /\ \A i \in DOMAIN entries : entries'[i].balance = entries[i].balance
  BY <1>2, AppendedRow, EntryRows DEF IInv
<1> SUFFICES ASSUME NEW d \in Doc PROVE SheetFollowed(d)'
  BY DEF SheetInv
<1>4. SheetFollowed(d)
  BY DEF SheetInv
<1>5. sheets[d].status # "none" =>
        /\ sheets[d].at <= Len(entries')
        /\ sheets[d].variance =
             Variance(sheets[d].counted,
                      IF sheets[d].at = 0 THEN 0 ELSE entries'[sheets[d].at].balance)
  <2> SUFFICES ASSUME sheets[d].status # "none"
               PROVE  /\ sheets[d].at <= Len(entries')
                      /\ sheets[d].variance =
                           Variance(sheets[d].counted,
                                    IF sheets[d].at = 0 THEN 0 ELSE entries'[sheets[d].at].balance)
    OBVIOUS
  <2>1. sheets[d].at <= Len(entries)
    BY <1>4 DEF SheetFollowed
  <2> QED
    BY <1>3, <1>4, <2>1, CountedBalanceStays DEF SheetFollowed, IInv
<1> QED
  BY <1>1, <1>4, <1>5 DEF SheetFollowed, DocLines, Running, BalanceAt

\* The end of a transaction posts its document or leaves it as it was.
LEMMA SheetEnded ==
  ASSUME IInv, SheetInv, NEW s \in Session, Commit(s) \/ (Running(s) /\ Abort(s))
  PROVE  SheetInv'
<1>1. PICK result \in {"committed", "gone"}, outcome \in {"done", "failed"} :
        /\ End(s, result, outcome)
        /\ outcome = "done" <=> Commit(s)
  <2>1. CASE Commit(s)
    BY <2>1 DEF Commit
  <2>2. CASE ~Commit(s)
    BY <2>2 DEF Abort
  <2> QED
    BY <2>1, <2>2
<1>2. /\ Running(s) /\ UNCHANGED <<order, twice>>
      /\ status'[s] = outcome /\ \A t \in Session \ {s} : status'[t] = status[t]
  BY <1>1 DEF Commit, Abort, End, history, IInv, TypeOK
<1>3. /\ Len(entries') \in Nat /\ Len(entries) <= Len(entries')
      /\ \A i \in DOMAIN entries : entries'[i].balance = entries[i].balance
  <2>1. entries' = Settle(s, result)
    BY <1>1 DEF End
  <2> QED
    BY <2>1, SettledRows, EntryRows DEF IInv
<1> SUFFICES ASSUME NEW d \in Doc PROVE SheetFollowed(d)'
  BY DEF SheetInv
<1>4. SheetFollowed(d)
  BY DEF SheetInv
<1>5. ASSUME Commit(s), order[s].doc = d
      PROVE  sheets'[d] = [sheets[d] EXCEPT !.status = "posted"]
  <2>1. order[s].kind = "adjustment"
    BY <1>5, NoneAssumption, DocAssumption DEF IInv, KindsOfDocs
  <2> QED
    BY <1>5, <2>1 DEF Commit, IInv, TypeOK
<1>6. ASSUME ~(Commit(s) /\ order[s].doc = d)
      PROVE  sheets'[d] = sheets[d]
  <2>1. CASE Commit(s) /\ order[s].kind = "adjustment"
    BY <1>6, <2>1 DEF Commit, IInv, TypeOK
  <2>2. CASE ~(Commit(s) /\ order[s].kind = "adjustment")
    BY <2>2 DEF Commit, Abort
  <2> QED
    BY <2>1, <2>2
<1>7. /\ sheets[d].status # "none" =>
           /\ sheets'[d].status # "none" /\ sheets'[d].at = sheets[d].at
           /\ sheets'[d].variance = sheets[d].variance
           /\ sheets'[d].counted = sheets[d].counted /\ sheets'[d].account = sheets[d].account
      /\ sheets'[d].status = IF Commit(s) /\ order[s].doc = d THEN "posted" ELSE sheets[d].status
      /\ sheets[d].status = "none" => sheets'[d].status = "none"
  <2>1. CASE Commit(s) /\ order[s].doc = d
    <3>1. sheets[d].status # "none"
      BY <1>4, <2>1 DEF SheetFollowed
    <3>2. PICK c : c = sheets[d]
      OBVIOUS
    <3>3. c \in [status : {"draft", "posted"}, account : Counted, counted : Counts,
                 at : Nat, variance : Int]
      BY <3>1, <3>2, WrittenSheet DEF IInv
    <3>4. sheets'[d] = [c EXCEPT !.status = "posted"]
      BY <1>5, <2>1, <3>2
    <3> QED
      BY <2>1, <3>1, <3>2, <3>3, <3>4
  <2>2. CASE ~(Commit(s) /\ order[s].doc = d)
    BY <1>6, <2>2
  <2> QED
    BY <2>1, <2>2
<1>8. sheets'[d].status # "none" =>
        /\ sheets'[d].at <= Len(entries')
        /\ sheets'[d].variance =
             Variance(sheets'[d].counted,
                      IF sheets'[d].at = 0 THEN 0 ELSE entries'[sheets'[d].at].balance)
  <2> SUFFICES ASSUME sheets[d].status # "none"
               PROVE  /\ sheets[d].at <= Len(entries')
                      /\ sheets[d].variance =
                           Variance(sheets[d].counted,
                                    IF sheets[d].at = 0 THEN 0 ELSE entries'[sheets[d].at].balance)
    BY <1>7
  <2>1. sheets[d].at <= Len(entries)
    BY <1>4 DEF SheetFollowed
  <2> QED
    BY <1>3, <1>4, <2>1, CountedBalanceStays DEF SheetFollowed, IInv
<1>9. ASSUME NEW t \in Session, order[t].doc = d
      PROVE  /\ sheets'[d].status # "none"
             /\ order[t].lines = DocLines(d)'
             /\ d \notin twice /\ status'[t] = "running" => sheets'[d].status = "draft"
             /\ status'[t] = "done" => sheets'[d].status = "posted"
  <2>1. sheets[d].status # "none" /\ sheets'[d].status # "none"
    BY <1>4, <1>7, <1>9 DEF SheetFollowed
  <2>2. order[t].lines = DocLines(d)'
    BY <1>4, <1>7, <1>9, <2>1 DEF SheetFollowed, DocLines
  <2>3. CASE t = s
    BY <1>1, <1>2, <1>7, <1>9, <2>1, <2>2, <2>3
  <2>4. CASE t # s
    <3>1. status'[t] = "done" => sheets'[d].status = "posted"
      BY <1>2, <1>4, <1>7, <1>9, <2>4 DEF SheetFollowed
    <3>2. ASSUME d \notin twice, status'[t] = "running" PROVE sheets'[d].status = "draft"
      <4>1. status[t] = "running" /\ sheets[d].status = "draft"
        BY <1>2, <1>4, <1>9, <2>4, <3>2 DEF SheetFollowed, Running
      <4>2. order[s].doc # d
        BY <1>2, <1>4, <1>9, <2>4, <3>2, <4>1 DEF SheetFollowed, Running
      <4> QED
        BY <1>7, <4>1, <4>2
    <3> QED
      BY <2>1, <2>2, <3>1, <3>2
  <2> QED
    BY <2>3, <2>4
<1>10. ASSUME d \notin twice, NEW t \in Session, NEW u \in Session,
              order[t].doc = d, order[u].doc = d, status'[t] = status'[u],
              status'[t] \in {"running", "done"}
       PROVE  t = u
  <2>1. CASE t # s /\ u # s
    BY <1>2, <1>4, <1>10, <2>1 DEF SheetFollowed
  <2>2. ASSUME NEW r \in Session, r # s, order[s].doc = d, order[r].doc = d, status'[r] = status'[s],
               status'[s] \in {"running", "done"}
        PROVE FALSE
    <3>1. status[r] = "done" /\ Running(s)
      BY <1>2, <2>2
    <3>2. sheets[d].status = "posted" /\ sheets[d].status = "draft"
      BY <1>4, <1>10, <2>2, <3>1 DEF SheetFollowed
    <3> QED
      BY <3>2
  <2> QED
    BY <1>10, <2>1, <2>2
<1>11. sheets'[d].status = "posted" => \E t \in Session : status'[t] = "done" /\ order[t].doc = d
  <2>1. CASE Commit(s) /\ order[s].doc = d
    BY <1>1, <1>2, <2>1
  <2>2. CASE ~(Commit(s) /\ order[s].doc = d)
    BY <1>2, <1>4, <1>7, <2>2 DEF SheetFollowed, Running
  <2> QED
    BY <2>1, <2>2
<1> QED
  BY <1>2, <1>8, <1>9, <1>10, <1>11 DEF SheetFollowed, Running, BalanceAt

\* Holds of every step of a ledger that IInv describes.
THEOREM InductiveSheets == IInv /\ SheetInv /\ [Next]_vars => SheetInv'
<1> SUFFICES ASSUME IInv, SheetInv, [Next]_vars PROVE SheetInv'
  OBVIOUS
<1>1. ASSUME UNCHANGED <<entries, sheets, order, status, twice>> PROVE SheetInv'
  <2>1. ASSUME NEW d \in Doc PROVE SheetFollowed(d)'
    <3>1. SheetFollowed(d)
      BY DEF SheetInv
    <3> QED
      BY <1>1, <3>1 DEF SheetFollowed, DocLines, Running, BalanceAt
  <2> QED
    BY <2>1 DEF SheetInv
<1>2. CASE UNCHANGED vars
  BY <1>1, <1>2 DEF vars, session, history
<1>3. ASSUME NEW s \in Session, Select(s) \/ Swallow(s) PROVE SheetInv'
  BY <1>1, <1>3 DEF Select, Swallow, history
<1>4. ASSUME NEW s \in Session, BeginOrder(s) PROVE SheetInv'
  <2>1. PICK o \in Orders[s] : o.kind # "receipt" /\ Start(s, o)
    BY <1>4 DEF BeginOrder
  <2>2. \A d \in Doc : o.doc # d
    BY <2>1, OrdersAssumption, NoneAssumption
  <2>3. twice' = twice
    BY <1>4 DEF BeginOrder
  <2> QED
    BY <2>1, <2>2, <2>3, SheetBegun
<1>5. ASSUME NEW s \in Session, BeginReceipt(s) PROVE SheetInv'
  <2>1. twice' = twice
    BY <1>5 DEF BeginReceipt
  <2>2. PICK o \in Orders[s] :
          /\ o.kind = "receipt"
          /\ \/ Start(s, [o EXCEPT !.lines = ReceiptLines(o)])
             \/ Start(s, [o EXCEPT !.lines = ReceiptLines(o), !.kind = "resave"])
    BY <1>5 DEF BeginReceipt
  <2>3. o \in Order /\ o.doc \in Voucher
    BY <2>2, OrdersAssumption
  <2>4. PICK l : l = ReceiptLines(o)
    OBVIOUS
  <2>5. /\ [o EXCEPT !.lines = l].doc \in Voucher
        /\ [o EXCEPT !.lines = l, !.kind = "resave"].doc \in Voucher
    BY <2>3 DEF Order
  <2>6. \E b : Start(s, b) /\ b.doc \in Voucher
    BY <2>2, <2>4, <2>5
  <2>7. PICK b : Start(s, b) /\ b.doc \in Voucher
    BY <2>6
  <2>8. \A d \in Doc : b.doc # d
    BY <2>7, DocAssumption
  <2> QED
    BY <2>1, <2>7, <2>8, SheetBegun
<1>6. ASSUME NEW s \in Session, NEW d \in Doc, BeginAdjustment(s, d) PROVE SheetInv'
  <2> DEFINE o == [kind |-> "adjustment", doc |-> d, lines |-> DocLines(d)]
  <2>1. /\ sheets[d].status = "draft" /\ Start(s, o)
        /\ twice' = IF \E t \in Session : Handles(t, o) THEN twice \cup {d} ELSE twice
    BY <1>6 DEF BeginAdjustment, Postable, DocLines
  <2>2. o.doc = d /\ o.lines = DocLines(d)
    OBVIOUS
  <2> HIDE DEF o
  <2>3. twice \subseteq twice' /\ (d \in twice' \/ \A t \in Session : ~Handles(t, o))
    BY <2>1
  <2> QED
    BY <2>1, <2>2, <2>3, SheetBegun
<1> QED
  BY <1>2, <1>3, <1>4, <1>5, <1>6, StepKinds, SheetCounted, SheetPosted, SheetEnded

\* A count that is posted takes effect once, by one entry that leaves what was
\* counted if nothing moved since, unless two requests were let post it.
THEOREM CountsTakeEffect == Spec => []CountTakesEffect
<1>1. ASSUME IInv, SheetInv PROVE CountTakesEffect
  <2> SUFFICES ASSUME NEW d \in Doc, NEW ids,
                      ids = {i \in DOMAIN entries : Committed(i) /\ entries[i].doc = d}
               PROVE  /\ d \notin twice =>
                           Cardinality(ids) =
                             IF sheets[d].status = "posted" /\ sheets[d].variance # 0 THEN 1 ELSE 0
                      /\ \A i \in ids :
                           entries[i].pred = sheets[d].at => entries[i].balance = sheets[d].counted
    BY DEF CountTakesEffect
  <2>1. SheetFollowed(d)
    BY <1>1 DEF SheetInv
  <2>2. ASSUME NEW s \in Session, order[s].doc = d, order[s].lines # <<>>
        PROVE  /\ sheets[d].variance # 0
               /\ order[s].lines = <<[account |-> sheets[d].account, qty |-> sheets[d].variance]>>
               /\ DOMAIN order[s].lines = {1}
               /\ order[s].lines[1].qty = sheets[d].variance
    <3>1. /\ sheets[d].variance # 0
          /\ order[s].lines = <<[account |-> sheets[d].account, qty |-> sheets[d].variance]>>
      BY <2>1, <2>2 DEF SheetFollowed, DocLines
    <3> PICK l : l = [account |-> sheets[d].account, qty |-> sheets[d].variance]
      OBVIOUS
    <3>2. DOMAIN <<l>> = {1} /\ <<l>>[1] = l
      OBVIOUS
    <3> QED
      BY <3>1, <3>2
  <2>3. ASSUME NEW i \in ids
        PROVE  /\ entries[i].by \in Session /\ entries[i].by # None
               /\ status[entries[i].by] = "done" /\ order[entries[i].by].doc = d
               /\ sheets[d].status = "posted" /\ sheets[d].variance # 0
               /\ entries[i].line = 1 /\ entries[i].qty = sheets[d].variance
    <3>1. entries[i].by # None
      BY <1>1, <2>3, NoneAssumption DEF IInv, EntriesFollowOrders
    <3>2. PICK s \in Session : s = entries[i].by /\ status[s] = "done" /\ order[s].doc = d
      BY <1>1, <2>3, <3>1, CommittedTogether
    <3>3. entries[i].line \in DOMAIN order[s].lines /\ entries[i].qty = order[s].lines[entries[i].line].qty
      BY <1>1, <2>3, <3>1, <3>2 DEF IInv, EntriesFollowOrders
    <3>4. order[s].lines # <<>>
      BY <3>3
    <3>5. sheets[d].status = "posted"
      BY <2>1, <3>2 DEF SheetFollowed
    <3>6. sheets[d].variance # 0 /\ entries[i].line = 1 /\ entries[i].qty = sheets[d].variance
      BY <2>2, <3>2, <3>3, <3>4
    <3> QED
      BY <3>1, <3>2, <3>5, <3>6
  <2>4. ASSUME d \notin twice, sheets[d].status = "posted", sheets[d].variance # 0
        PROVE  \E i : i \in ids
    <3>1. PICK s \in Session : status[s] = "done" /\ order[s].doc = d
      BY <2>1, <2>4 DEF SheetFollowed
    <3>2. order[s].kind = "adjustment"
      BY <1>1, <3>1, NoneAssumption, DocAssumption DEF IInv, KindsOfDocs
    <3>3. PICK n \in 0..Len(order[s].lines) : InOrder(s, n)
      BY <1>1, <3>2 DEF IInv, LinesInOrder, InOrder
    <3>4. order[s].lines # <<>>
      <4>1. PICK l : order[s].lines = <<l>>
        BY <2>1, <2>4, <3>1 DEF SheetFollowed, DocLines
      <4>2. <<l>> # <<>>
        OBVIOUS
      <4> QED
        BY <4>1, <4>2
    <3>5. DOMAIN order[s].lines = {1} /\ DOMAIN order[s].lines = 1..Len(order[s].lines)
          /\ Len(order[s].lines) \in Nat
      BY <1>1, <2>2, <3>1, <3>4, LineRows DEF IInv
    <3>6. PostedLines(s) = {1}
      BY <3>1, <3>2, <3>3, <3>5 DEF InOrder, LetsThrough
    <3>7. PICK i \in Posted(s) : entries[i].line = 1
      BY <3>6 DEF PostedLines
    <3>8. i \in DOMAIN entries /\ entries[i].by = s /\ entries[i].by # None
      BY <3>7, NoneAssumption DEF Posted
    <3>9. Committed(i) /\ entries[i].doc = d
      BY <1>1, <3>1, <3>8 DEF IInv, EntriesFollowOrders, Committed
    <3> QED
      BY <3>8, <3>9
  <2>5. ASSUME d \notin twice, NEW i \in ids, NEW j \in ids PROVE i = j
    <3>1. entries[i].by = entries[j].by
      BY <2>1, <2>3, <2>5 DEF SheetFollowed
    <3>2. j \in Posted(entries[i].by) /\ entries[j].line = entries[i].line
      BY <2>3, <3>1 DEF Posted
    <3> QED
      BY <1>1, <2>3, <3>2 DEF IInv, EntriesFollowOrders
  <2>6. ASSUME d \notin twice
        PROVE  Cardinality(ids) =
                 IF sheets[d].status = "posted" /\ sheets[d].variance # 0 THEN 1 ELSE 0
    <3>1. CASE ids = {}
      BY <2>4, <2>6, <3>1, FS_EmptySet
    <3>2. CASE ids # {}
      <4>1. PICK i \in ids : ids = {i}
        BY <2>5, <2>6, <3>2
      <4>2. Cardinality(ids) = 1
        BY <4>1, FS_Singleton
      <4> QED
        BY <2>3, <4>1, <4>2
    <3> QED
      BY <3>1, <3>2
  <2>7. ASSUME NEW i \in ids, entries[i].pred = sheets[d].at PROVE entries[i].balance = sheets[d].counted
    <3>1. PICK b : b = BalanceAt(sheets[d].at)
      OBVIOUS
    <3>2. entries[i].balance = b + entries[i].qty /\ entries[i].pred \in Nat /\ entries[i].pred < i
      BY <1>1, <2>7, <3>1, EntryRows DEF IInv, BalancesAdded, Entry
    <3>3. sheets[d].variance = sheets[d].counted - b /\ entries[i].qty = sheets[d].variance
      BY <2>1, <2>3, <3>1 DEF SheetFollowed, Variance
    <3>4. sheets[d].counted \in Int
      BY <1>1, <2>3, WrittenSheet DEF IInv
    <3>5. b \in Int
      <4>1. sheets[d].at = 0 \/ sheets[d].at \in DOMAIN entries
        BY <1>1, <2>7, <3>2, EntryRows DEF IInv
      <4>2. sheets[d].at \in DOMAIN entries => entries[sheets[d].at].balance \in Int
        BY <1>1, EntryRows DEF IInv, Entry
      <4> QED
        BY <3>1, <4>1, <4>2 DEF BalanceAt
    <3> QED
      BY <3>2, <3>3, <3>4, <3>5
  <2> QED
    BY <2>6, <2>7
<1>2. Spec => []SheetInv
  BY InvariantHolds, InitialSheets, InductiveSheets, PTL DEF Spec
<1> QED
  BY <1>1, <1>2, InvariantHolds, PTL

-----------------------------------------------------------------------------
(* Balances.                                                               *)

\* What a chain says only depends on the rows before each row of it.
LEMMA ChainKept ==
  ASSUME NEW rows, NEW old, NEW S, NEW T, NEW n \in Nat, T \subseteq S,
         \A i \in S : i \in Nat \ {0} /\ i <= n,
         OneChain(old, S), S \subseteq DOMAIN old, S \subseteq DOMAIN rows,
         \A i \in S : /\ old[i].qty \in Int
                      /\ rows[i].pred = old[i].pred /\ rows[i].qty = old[i].qty
                      /\ rows[i].balance = old[i].balance,
         \A i \in T, j \in S : j <= i => j \in T
  PROVE  OneChain(rows, T)
<1> DEFINE f == [k \in DOMAIN old |-> old[k].qty]
           g == [k \in DOMAIN rows |-> rows[k].qty]
<1>1. \A i \in S : f[i] = g[i] /\ f[i] \in Int
  OBVIOUS
<1> HIDE DEF f, g
<1>2. ASSUME NEW i \in T
      PROVE  /\ rows[i].pred = Newest({j \in T : j < i})
             /\ rows[i].balance = SumFunctionOnSet(g, {j \in T : j <= i})
  <2>1. {j \in T : j < i} = {j \in S : j < i} /\ {j \in T : j <= i} = {j \in S : j <= i}
    OBVIOUS
  <2>2. IsFiniteSet({j \in S : j <= i})
    <3>1. {j \in S : j <= i} \subseteq 1..n
      OBVIOUS
    <3>2. IsFiniteSet(1..n)
      BY FS_Interval
    <3> QED
      BY <3>1, <3>2, FS_Subset
  <2>3. SumFunctionOnSet(f, {j \in S : j <= i}) = SumFunctionOnSet(g, {j \in S : j <= i})
    BY <1>1, <2>2, SumSame
  <2>4. /\ old[i].pred = Newest({j \in S : j < i})
        /\ old[i].balance = SumFunctionOnSet(f, {j \in S : j <= i})
    BY DEF OneChain, f
  <2>5. rows[i].pred = old[i].pred /\ rows[i].balance = old[i].balance
    OBVIOUS
  <2> QED
    BY <2>1, <2>3, <2>4, <2>5
<1> QED
  BY <1>2 DEF OneChain, g

\* A row that continues the newest of a chain is part of it.
LEMMA ChainGrown ==
  ASSUME NEW rows, NEW old, NEW S, NEW m \in Nat,
         \A i \in S : i \in Nat \ {0} /\ i < m,
         OneChain(old, S), S \subseteq DOMAIN old, S \subseteq DOMAIN rows, m \in DOMAIN rows,
         \A i \in S : /\ old[i].qty \in Int
                      /\ rows[i].pred = old[i].pred /\ rows[i].qty = old[i].qty
                      /\ rows[i].balance = old[i].balance,
         rows[m].pred = Newest(S), rows[m].qty \in Int,
         Newest(S) = 0 => rows[m].balance = rows[m].qty,
         Newest(S) # 0 => rows[m].balance = old[Newest(S)].balance + rows[m].qty
  PROVE  OneChain(rows, S \cup {m})
<1> DEFINE g == [k \in DOMAIN rows |-> rows[k].qty]
           T == S \cup {m}
<1> PICK c : c = Newest(S)
  OBVIOUS
<1>1. OneChain(rows, S)
  <2>1. S \subseteq S /\ \A i \in S, j \in S : j <= i => j \in S
    OBVIOUS
  <2>2. \A i \in S : i \in Nat \ {0} /\ i <= m
    OBVIOUS
  <2> HIDE DEF g, T
  <2> QED
    BY <2>1, <2>2, ChainKept
<1>2. \A i \in T : g[i] \in Int
  OBVIOUS
<1>3. g[m] = rows[m].qty
  OBVIOUS
<1>4. IsFiniteSet(S) /\ m \notin S /\ \A i \in S : i \in Nat /\ i < m
  <2>1. S \subseteq 1..m
    OBVIOUS
  <2>2. IsFiniteSet(S)
    <3>1. IsFiniteSet(1..m)
      BY FS_Interval
    <3> QED
      BY <2>1, <3>1, FS_Subset
  <2>3. \A i \in S : i \in Nat /\ i < m
    OBVIOUS
  <2> QED
    BY <2>2, <2>3
<1>5. \A i \in S : /\ rows[i].pred = Newest({j \in S : j < i})
                   /\ rows[i].balance = SumFunctionOnSet(g, {j \in S : j <= i})
  BY <1>1 DEF OneChain
<1> HIDE DEF g
<1>6. \A i \in S : {j \in T : j < i} = {j \in S : j < i} /\ {j \in T : j <= i} = {j \in S : j <= i}
  BY <1>4
<1>7. rows[m].pred = Newest({j \in T : j < m})
  <2>1. {j \in T : j < m} = S
    BY <1>4
  <2> QED
    BY <2>1
<1>8. rows[m].balance = SumFunctionOnSet(g, {j \in T : j <= m})
  <2>1. {j \in T : j <= m} = S \cup {m}
    BY <1>4
  <2>2. SumFunctionOnSet(g, S \cup {m}) = SumFunctionOnSet(g, S) + g[m]
    BY <1>2, <1>4, SumAdd
  <2>3. rows[m].balance = SumFunctionOnSet(g, S) + rows[m].qty
    <3>1. CASE S = {}
      <4>1. SumFunctionOnSet(g, S) = 0 /\ Newest(S) = 0
        BY <3>1, SumEmpty DEF Newest
      <4> QED
        BY <4>1
    <3>2. CASE S # {}
      <4>1. c \in S /\ \A i \in S : i <= c
        <5>1. S \subseteq 1..m
          OBVIOUS
        <5> QED
          BY <3>2, <5>1, NewestEntry
      <4>2. {j \in S : j <= c} = S /\ c # 0
        BY <1>4, <4>1
      <4>3. rows[c].balance = SumFunctionOnSet(g, {j \in S : j <= c})
        BY <1>5, <4>1
      <4>4. rows[c].balance = old[c].balance
        BY <4>1
      <4> QED
        BY <4>2, <4>3, <4>4
    <3> QED
      BY <3>1, <3>2
  <2> QED
    BY <1>3, <2>1, <2>2, <2>3
<1>9. \A i \in T : /\ rows[i].pred = Newest({j \in T : j < i})
                   /\ rows[i].balance = SumFunctionOnSet(g, {j \in T : j <= i})
  BY <1>5, <1>6, <1>7, <1>8
<1> QED
  BY <1>9 DEF OneChain, g

\* The entries of an account are numbers of rows.
LEMMA AccountRows ==
  ASSUME TypeOK, NEW a
  PROVE  /\ Of(a) \subseteq DOMAIN entries /\ LiveOf(a) \subseteq Of(a)
         /\ Of(a) \subseteq 1..Len(entries) /\ Len(entries) \in Nat
         /\ \A i \in Of(a) : entries[i] \in Entry /\ entries[i].qty \in Int /\ entries[i].balance \in Int
BY EntryRows DEF Of, LiveOf, Entry

\* A pending entry is that of a request that is at its account.
LEMMA PendingAt ==
  ASSUME IInv, NEW a, NEW i \in Of(a), entries[i].state = "pending"
  PROVE  entries[i].by \in Session /\ At(entries[i].by, a)
<1>1. i \in DOMAIN entries /\ entries[i].by \in Session \cup {None}
  BY EntryRows DEF IInv, Of, Entry
<1>2. entries[i].by # None
  BY <1>1 DEF IInv, EntriesFollowOrders
<1> QED
  BY <1>1, <1>2 DEF At

\* A step that leaves the entries alone keeps a chain if it brings nobody to
\* the account.
LEMMA ChainUntouched ==
  ASSUME NEW a, Chained(a), entries' = entries,
         \A t \in Session : Posting(t, a)' => Posting(t, a) /\ chosen'[t] = chosen[t]
  PROVE  Chained(a)'
<1>1. Of(a)' = Of(a) /\ LiveOf(a)' = LiveOf(a)
  BY DEF Of, LiveOf, Live
<1>2. \A t \in Session : At(t, a)' => At(t, a)
  BY <1>1 DEF At
<1>3. \A i : Committed(i)' <=> Committed(i)
  BY DEF Committed
<1>4. PICK c : c = Newest(LiveOf(a))
  OBVIOUS
<1>5. \A t \in Session : Posting(t, a)' => chosen'[t] = c
  BY <1>4 DEF Chained
<1>6. OneChain(entries', LiveOf(a)')
  BY <1>1 DEF Chained
<1> QED
  BY <1>1, <1>2, <1>3, <1>4, <1>5, <1>6 DEF Chained

\* Selecting for an account makes it raced for or the request alone at it.
LEMMA ChainSelected ==
  ASSUME IInv, NEW a \in Account \ raced', Chained(a), NEW s \in Session, Select(s)
  PROVE  Chained(a)'
<1>1. /\ UNCHANGED <<entries, order, status, pos>>
      /\ chosen' = [chosen EXCEPT ![s] = Latest(s, Here(s).account)]
      /\ phase' = [phase EXCEPT ![s] = "post"]
  BY DEF Select
<1>2. \A t \in Session \ {s} :
        (Posting(t, a)' <=> Posting(t, a)) /\ chosen'[t] = chosen[t]
  BY <1>1 DEF Posting, Busy, Running, Here, IInv, TypeOK
<1>3. CASE Here(s).account # a
  <2>1. ~Posting(s, a)'
    BY <1>1, <1>3 DEF Posting, Here
  <2> QED
    BY <1>1, <1>2, <2>1, ChainUntouched
<1>4. CASE Here(s).account = a
  <2>1. \A t \in Session \ {s} : ~At(t, a)
    BY <1>4 DEF Select
  <2>2. Of(a)' = Of(a) /\ LiveOf(a)' = LiveOf(a)
    BY <1>1 DEF Of, LiveOf, Live
  <2>3. \A t \in Session \ {s} : ~At(t, a)'
    BY <1>1, <1>2, <2>1, <2>2 DEF At
  <2>4. {i \in Of(a) : Visible(s, i)} = LiveOf(a)
    <3>1. ASSUME NEW i \in Of(a), Live(i) PROVE Visible(s, i)
      <4>1. entries[i].state \in {"pending", "committed"}
        BY <3>1, AccountRows DEF IInv, Entry, Live
      <4>2. entries[i].state = "pending" => entries[i].by = s
        BY <2>1, PendingAt
      <4> QED
        BY <4>1, <4>2 DEF Visible, Committed
    <3>2. \A i \in Of(a) : Visible(s, i) => Live(i)
      BY DEF Visible, Committed, Live
    <3> QED
      BY <3>1, <3>2 DEF LiveOf
  <2>5. PICK c : c = Newest(LiveOf(a))
    OBVIOUS
  <2>6. chosen'[s] = c
    BY <1>1, <1>4, <2>4, <2>5 DEF Latest, IInv, TypeOK
  <2>7. \A t \in Session : Posting(t, a)' => chosen'[t] = c
    BY <2>3, <2>6 DEF At
  <2>8. \A i : Committed(i)' <=> Committed(i)
    BY <1>1 DEF Committed
  <2>9. OneChain(entries', LiveOf(a)')
    BY <1>1, <2>2 DEF Chained
  <2> QED
    BY <1>1, <2>2, <2>3, <2>5, <2>7, <2>8, <2>9 DEF Chained
<1> QED
  BY <1>3, <1>4

\* The entry that a request posts continues the chain that it read.
LEMMA ChainPosted ==
  ASSUME IInv, NEW a \in Account, Chained(a), NEW s \in Session, PostEntry(s)
  PROVE  Chained(a)'
<1>1. /\ UNCHANGED <<order, status, chosen>> /\ Busy(s) /\ phase[s] = "post"
      /\ pos' = [pos EXCEPT ![s] = NextLine(pos[s])] /\ phase' = [phase EXCEPT ![s] = "select"]
  BY DEF PostEntry, Advance
<1>2. PICK e \in Entry :
        /\ entries' = Append(entries, e)
        /\ e.account = Here(s).account /\ e.qty = Here(s).qty
        /\ e.balance = BalanceAt(chosen[s]) + Here(s).qty
        /\ e.pred = chosen[s] /\ e.by = s /\ e.state = "pending"
  BY PostedEntry DEF IInv
<1> PICK n : n = Len(entries) + 1
  OBVIOUS
<1>3. /\ n \in Nat \ {0} /\ n \notin DOMAIN entries
      /\ DOMAIN entries' = (DOMAIN entries) \cup {n}
      /\ entries'[n] = e
      /\ \A i \in DOMAIN entries : entries'[i] = entries[i]
  BY <1>2, AppendedRow DEF IInv
<1>4. Len(entries) \in Nat /\ DOMAIN entries = 1..Len(entries)
  BY EntryRows DEF IInv
<1>5. ~Posting(s, a)' /\ \A t \in Session \ {s} : Posting(t, a)' <=> Posting(t, a)
  BY <1>1 DEF Posting, Busy, Running, Here, IInv, TypeOK
<1>6. \A i \in DOMAIN entries : (Committed(i)' <=> Committed(i)) /\ (Live(i)' <=> Live(i))
  BY <1>3 DEF Committed, Live
<1>7. ~Committed(n)' /\ Live(n)'
  BY <1>2, <1>3 DEF Committed, Live
<1>8. /\ Of(a) \subseteq DOMAIN entries /\ LiveOf(a) \subseteq Of(a)
      /\ \A i \in Of(a) : entries[i].qty \in Int
  BY AccountRows DEF IInv
<1>9. CASE Here(s).account # a
  <2>1. Of(a)' = Of(a)
    BY <1>2, <1>3, <1>9 DEF Of
  <2>2. LiveOf(a)' = LiveOf(a)
    BY <1>6, <1>8, <2>1 DEF LiveOf
  <2>3. \A t \in Session : At(t, a)' => At(t, a)
    BY <1>3, <1>5, <1>8, <2>1 DEF At
  <2>4. OneChain(entries', LiveOf(a))
    <3>1. \A i \in LiveOf(a), j \in LiveOf(a) : j <= i => j \in LiveOf(a)
      OBVIOUS
    <3>2. OneChain(entries, LiveOf(a)) /\ (\A i \in LiveOf(a) : i \in Nat \ {0} /\ i <= Len(entries))
          /\ LiveOf(a) \subseteq DOMAIN entries /\ LiveOf(a) \subseteq DOMAIN entries'
      BY <1>3, <1>4, <1>8 DEF Chained
    <3>3. \A i \in LiveOf(a) : entries[i].qty \in Int /\ entries'[i] = entries[i]
      BY <1>3, <1>8
    <3> QED
      BY <1>4, <3>1, <3>2, <3>3, ChainKept
  <2>5. \A i, j \in Of(a) : entries'[i].state = "pending" /\ Committed(j)' => j < i
    BY <1>3, <1>6, <1>8 DEF Chained
  <2>6. PICK c : c = Newest(LiveOf(a))
    OBVIOUS
  <2>7. \A t \in Session : Posting(t, a)' => chosen'[t] = c
    BY <1>1, <1>5, <2>6 DEF Chained
  <2> QED
    BY <2>1, <2>2, <2>3, <2>4, <2>5, <2>6, <2>7 DEF Chained
<1>10. CASE Here(s).account = a
  <2>1. Posting(s, a) /\ At(s, a)
    BY <1>1, <1>10 DEF Posting, At
  <2>2. \A t \in Session \ {s} : ~At(t, a)
    BY <2>1 DEF Chained
  <2>3. Of(a)' = Of(a) \cup {n}
    BY <1>2, <1>3, <1>10 DEF Of
  <2>4. LiveOf(a)' = LiveOf(a) \cup {n}
    BY <1>6, <1>7, <1>8, <2>3 DEF LiveOf
  <2>5. \A t \in Session \ {s} : ~At(t, a)'
    BY <1>2, <1>3, <1>5, <1>8, <2>2, <2>3 DEF At
  <2>6. \A i, j \in Of(a)' : entries'[i].state = "pending" /\ Committed(j)' => j < i
    <3> SUFFICES ASSUME NEW i \in Of(a)', NEW j \in Of(a)', entries'[i].state = "pending", Committed(j)'
                 PROVE  j < i
      OBVIOUS
    <3>1. j # n /\ j \in Of(a) /\ Committed(j)
      BY <1>6, <1>7, <1>8, <2>3
    <3>2. CASE i = n
      BY <1>4, <1>8, <3>1, <3>2
    <3>3. CASE i # n
      BY <1>3, <1>8, <2>3, <3>1, <3>3 DEF Chained
    <3> QED
      BY <3>2, <3>3
  <2>7. PICK c : c = Newest(LiveOf(a)) /\ c = chosen[s]
    BY <2>1 DEF Chained
  <2>8. OneChain(entries', LiveOf(a)')
    <3>1. OneChain(entries, LiveOf(a)) /\ (\A i \in LiveOf(a) : i \in Nat \ {0} /\ i <= Len(entries))
          /\ LiveOf(a) \subseteq DOMAIN entries /\ LiveOf(a) \subseteq DOMAIN entries'
          /\ n \in DOMAIN entries'
      BY <1>3, <1>4, <1>8 DEF Chained
    <3>2. \A i \in LiveOf(a) :
            /\ entries[i].qty \in Int
            /\ entries'[i].pred = entries[i].pred /\ entries'[i].qty = entries[i].qty
            /\ entries'[i].balance = entries[i].balance
      BY <1>3, <1>8
    <3>3. entries'[n].pred = c /\ entries'[n].qty \in Int
      BY <1>2, <1>3, <2>7 DEF Entry
    <3>4. /\ c = 0 => entries'[n].balance = entries'[n].qty
          /\ c # 0 => entries'[n].balance = entries[c].balance + entries'[n].qty
      BY <1>2, <1>3, <2>7, <3>3 DEF BalanceAt
    <3>5. n \in Nat /\ \A i \in LiveOf(a) : i \in Nat \ {0} /\ i < n
      BY <1>4, <3>1
    <3>6. OneChain(entries', LiveOf(a) \cup {n})
      <4>1. PICK S, rows, old : S = LiveOf(a) /\ rows = entries' /\ old = entries
        OBVIOUS
      <4>2. /\ n \in Nat /\ \A i \in S : i \in Nat \ {0} /\ i < n
            /\ OneChain(old, S) /\ S \subseteq DOMAIN old /\ S \subseteq DOMAIN rows
            /\ n \in DOMAIN rows
        BY <3>1, <3>5, <4>1
      <4>3. \A i \in S : /\ old[i].qty \in Int
                         /\ rows[i].pred = old[i].pred /\ rows[i].qty = old[i].qty
                         /\ rows[i].balance = old[i].balance
        BY <3>2, <4>1
      <4>4. /\ rows[n].pred = Newest(S) /\ rows[n].qty \in Int
            /\ Newest(S) = 0 => rows[n].balance = rows[n].qty
            /\ Newest(S) # 0 => rows[n].balance = old[Newest(S)].balance + rows[n].qty
        BY <2>7, <3>3, <3>4, <4>1
      <4>5. OneChain(rows, S \cup {n})
        BY <4>2, <4>3, <4>4, ChainGrown
      <4> QED
        BY <4>1, <4>5
    <3> QED
      BY <2>4, <3>6
  <2>9. \A t \in Session : ~Posting(t, a)'
    BY <1>5, <2>5 DEF At
  <2> QED
    BY <2>5, <2>6, <2>8, <2>9 DEF Chained
<1> QED
  BY <1>9, <1>10

\* The end of a transaction takes a whole end of the chain away or leaves it.
LEMMA ChainEnded ==
  ASSUME IInv, NEW a \in Account, Chained(a), NEW s \in Session, Running(s),
         NEW result \in {"committed", "gone"}, NEW outcome \in {"done", "failed"},
         End(s, result, outcome), UNCHANGED order
  PROVE  Chained(a)'
<1>1. /\ DOMAIN entries' = DOMAIN entries
      /\ \A i \in DOMAIN entries :
           /\ entries'[i].state = IF entries[i].state = "pending" /\ entries[i].by = s
                                  THEN result ELSE entries[i].state
           /\ entries'[i].account = entries[i].account
           /\ entries'[i].qty = entries[i].qty
           /\ entries'[i].balance = entries[i].balance
           /\ entries'[i].pred = entries[i].pred
           /\ entries'[i].by = entries[i].by
  <2>1. entries' = Settle(s, result)
    BY DEF End
  <2> QED
    BY <2>1, SettledRows DEF IInv
<1>2. /\ Of(a) \subseteq DOMAIN entries /\ LiveOf(a) \subseteq Of(a)
      /\ Of(a) \subseteq 1..Len(entries) /\ Len(entries) \in Nat
      /\ \A i \in Of(a) : entries[i].qty \in Int /\ i \in Nat \ {0} /\ i <= Len(entries)
  BY AccountRows DEF IInv
<1>3. /\ ~Posting(s, a)'
      /\ \A t \in Session \ {s} :
           (Posting(t, a)' <=> Posting(t, a)) /\ chosen'[t] = chosen[t]
  BY DEF End, Posting, Busy, Running, Here, IInv, TypeOK
<1>4. Of(a)' = Of(a)
  BY <1>1 DEF Of
<1>5. \A t \in Session : At(t, a)' => t # s /\ At(t, a)
  BY <1>1, <1>2, <1>3, <1>4 DEF At
<1>6. \A i \in Of(a) : /\ entries'[i].state = "pending" => entries[i].state = "pending"
                       /\ Live(i)' => Live(i)
                       /\ Committed(i) => Committed(i)' /\ Live(i)
  BY <1>1, <1>2 DEF Live, Committed
<1>7. ASSUME NEW i \in Of(a), Committed(i)', ~Committed(i)
      PROVE  At(s, a)
  <2>1. entries[i].state = "pending" /\ entries[i].by = s
    BY <1>1, <1>2, <1>7 DEF Committed
  <2> QED
    BY <2>1 DEF At
<1>8. ASSUME NEW i \in Of(a), NEW j \in Of(a), entries'[i].state = "pending", Committed(j)'
      PROVE  j < i
  <2>1. entries[i].state = "pending" /\ entries[i].by # s
    BY <1>1, <1>2, <1>8
  <2>2. entries[i].by \in Session /\ At(entries[i].by, a)
    BY <2>1, PendingAt
  <2>3. Committed(j)
    BY <1>7, <1>8, <2>1, <2>2 DEF Chained
  <2> QED
    BY <2>1, <2>3 DEF Chained
<1>9. ASSUME NEW i \in Of(a), Live(i), ~Live(i)'
      PROVE  entries[i].state = "pending" /\ At(s, a)
  <2>1. entries[i].state = "pending" /\ entries[i].by = s
    BY <1>1, <1>2, <1>9 DEF Live
  <2> QED
    BY <2>1 DEF At
<1>10. LiveOf(a)' \subseteq LiveOf(a)
  BY <1>4, <1>6 DEF LiveOf
<1>11. CASE LiveOf(a)' = LiveOf(a)
  <2>1. PICK c : c = Newest(LiveOf(a))
    OBVIOUS
  <2>2. \A t \in Session : Posting(t, a)' => chosen'[t] = c
    BY <1>3, <2>1 DEF Chained
  <2>3. OneChain(entries', LiveOf(a))
    <3>1. \A i \in LiveOf(a), j \in LiveOf(a) : j <= i => j \in LiveOf(a)
      OBVIOUS
    <3>2. OneChain(entries, LiveOf(a)) /\ LiveOf(a) \subseteq DOMAIN entries
          /\ LiveOf(a) \subseteq DOMAIN entries'
          /\ (\A i \in LiveOf(a) : i \in Nat \ {0} /\ i <= Len(entries))
      BY <1>1, <1>2 DEF Chained
    <3>3. \A i \in LiveOf(a) :
            /\ entries[i].qty \in Int
            /\ entries'[i].pred = entries[i].pred /\ entries'[i].qty = entries[i].qty
            /\ entries'[i].balance = entries[i].balance
      BY <1>1, <1>2
    <3> QED
      BY <1>2, <3>1, <3>2, <3>3, ChainKept
  <2> QED
    BY <1>4, <1>5, <1>8, <1>11, <2>1, <2>2, <2>3 DEF Chained
<1>12. CASE LiveOf(a)' # LiveOf(a)
  <2>1. PICK k \in LiveOf(a) : k \notin LiveOf(a)'
    BY <1>10, <1>12
  <2>2. At(s, a)
    BY <1>4, <1>9, <2>1 DEF LiveOf
  <2>3. \A t \in Session : ~At(t, a)'
    BY <1>5, <2>2 DEF Chained
  <2>4. \A i \in Of(a) : entries[i].state = "pending" => entries[i].by = s
    BY <2>2, PendingAt DEF Chained
  <2>5. result = "gone"
    BY <1>1, <1>2, <1>4, <2>1 DEF LiveOf, Live
  <2>6. \A i \in LiveOf(a)' : Committed(i)
    <3> SUFFICES ASSUME NEW i \in LiveOf(a)' PROVE Committed(i)
      OBVIOUS
    <3>1. i \in Of(a) /\ entries'[i].state # "gone" /\ entries[i].state \in {"pending", "committed", "gone"}
      BY <1>4, AccountRows DEF LiveOf, Live, IInv, Entry
    <3>2. entries[i].state # "pending" /\ entries[i].state # "gone"
      BY <1>1, <1>2, <2>4, <2>5, <3>1
    <3> QED
      BY <3>1, <3>2 DEF Committed
  <2>7. \A i \in LiveOf(a)', j \in LiveOf(a) : j <= i => j \in LiveOf(a)'
    <3> SUFFICES ASSUME NEW i \in LiveOf(a)', NEW j \in LiveOf(a), j \notin LiveOf(a)' PROVE ~(j <= i)
      OBVIOUS
    <3>1. entries[j].state = "pending"
      BY <1>2, <1>4, <1>9 DEF LiveOf
    <3>2. i < j
      BY <1>2, <1>10, <2>6, <3>1 DEF Chained
    <3> QED
      BY <1>2, <1>10, <3>2
  <2>8. OneChain(entries', LiveOf(a)')
    <3>1. PICK T : T = LiveOf(a)'
      OBVIOUS
    <3>2. OneChain(entries, LiveOf(a)) /\ LiveOf(a) \subseteq DOMAIN entries
          /\ LiveOf(a) \subseteq DOMAIN entries'
          /\ (\A i \in LiveOf(a) : i \in Nat \ {0} /\ i <= Len(entries))
      BY <1>1, <1>2 DEF Chained
    <3>3. \A i \in LiveOf(a) :
            /\ entries[i].qty \in Int
            /\ entries'[i].pred = entries[i].pred /\ entries'[i].qty = entries[i].qty
            /\ entries'[i].balance = entries[i].balance
      BY <1>1, <1>2
    <3>4. T \subseteq LiveOf(a) /\ \A i \in T, j \in LiveOf(a) : j <= i => j \in T
      BY <1>10, <2>7, <3>1
    <3>5. OneChain(entries', T)
      BY <1>2, <3>2, <3>3, <3>4, ChainKept
    <3> QED
      BY <3>1, <3>5
  <2>9. \A t \in Session : ~Posting(t, a)'
    BY <2>3 DEF At
  <2> QED
    BY <1>4, <1>8, <2>3, <2>8, <2>9 DEF Chained
<1> QED
  BY <1>11, <1>12

THEOREM InitialChains == Init => ChainInv /\ BalanceInv
<1> SUFFICES ASSUME Init PROVE ChainInv /\ BalanceInv
  OBVIOUS
<1>1. IInv
  BY Initial
<1>2. \A i \in DOMAIN entries :
        /\ i \in DOMAIN Opening
        /\ entries[i].account = Opening[i].account /\ entries[i].qty = Opening[i].qty
        /\ entries[i].balance = entries[i].qty /\ entries[i].pred = 0
        /\ entries[i].state = "committed"
  BY DEF Init
<1>3. \A i \in DOMAIN entries : entries[i].qty \in Nat \ {0}
  <2>1. /\ Opening \in Seq([account : Account, qty : Nat \ {0}])
        /\ DOMAIN Opening = 1..Len(Opening)
    BY OpeningAssumption, LenProperties
  <2>2. \A i \in DOMAIN Opening : Opening[i] \in [account : Account, qty : Nat \ {0}]
    BY <2>1, ElementOfSeq
  <2>3. \A i \in DOMAIN Opening : Opening[i].qty \in Nat \ {0}
    BY <2>2
  <2> QED
    BY <1>2, <2>3
<1>4. BalanceInv
  BY <1>2, <1>3 DEF BalanceInv
<1>5. ASSUME NEW a \in Account PROVE Chained(a)
  <2>1. \A t \in Session : ~At(t, a)
    BY <1>2 DEF At, Posting, Busy, Running, Init, Of
  <2>2. \A i, j \in Of(a) : i = j
    BY <1>2, OpeningAssumption DEF Of
  <2>3. LiveOf(a) \subseteq Of(a) /\ Of(a) \subseteq DOMAIN entries
    BY DEF LiveOf, Of
  <2>4. OneChain(entries, LiveOf(a))
    <3> DEFINE f == [k \in DOMAIN entries |-> entries[k].qty]
    <3> SUFFICES ASSUME NEW i \in LiveOf(a)
                 PROVE  /\ entries[i].pred = Newest({j \in LiveOf(a) : j < i})
                        /\ entries[i].balance = SumFunctionOnSet(f, {j \in LiveOf(a) : j <= i})
      BY DEF OneChain
    <3>1. i \in DOMAIN entries /\ i \in Nat
      BY <1>1, <2>3, EntryRows DEF IInv
    <3>2. {j \in LiveOf(a) : j < i} = {} /\ {j \in LiveOf(a) : j <= i} = {} \cup {i}
      BY <2>2, <2>3, <3>1
    <3>3. f[i] = entries[i].qty /\ f[i] \in Int
      BY <1>3, <3>1
    <3> HIDE DEF f
    <3>4. SumFunctionOnSet(f, {} \cup {i}) = SumFunctionOnSet(f, {}) + f[i]
      <4>1. IsFiniteSet({}) /\ i \notin {} /\ \A y \in {} \cup {i} : f[y] \in Int
        BY <3>3, FS_EmptySet
      <4> QED
        BY <4>1, SumAdd
    <3>5. SumFunctionOnSet(f, {} \cup {i}) = f[i]
      BY <3>3, <3>4, SumEmpty
    <3> QED
      BY <1>2, <3>1, <3>2, <3>3, <3>5 DEF Newest
  <2>5. \A i \in Of(a) : entries[i].state # "pending"
    BY <1>2, <2>3
  <2>6. \A t \in Session : ~Posting(t, a)
    BY <2>1 DEF At
  <2> QED
    BY <2>1, <2>4, <2>5, <2>6 DEF Chained
<1> QED
  BY <1>4, <1>5 DEF ChainInv

\* Holds of every step of a ledger that IInv describes.
THEOREM InductiveChains == IInv /\ ChainInv /\ [Next]_vars => ChainInv'
<1> SUFFICES ASSUME IInv, ChainInv, [Next]_vars, NEW a \in Account \ raced' PROVE Chained(a)'
  BY SMTT(30) DEF ChainInv
<1>1. raced \subseteq raced'
  BY ZenonT(60) DEF Next, vars, session, history, Count, BeginOrder, BeginReceipt, BeginAdjustment, Start,
     Work, Select, PostEntry, Reject, Fault, Raise, Abort, Swallow, Commit, Die, DeadlockVictim
<1>2. Chained(a) /\ a \in Account
  BY <1>1 DEF ChainInv
<1>3. ASSUME UNCHANGED <<entries, order, status, pos, chosen, phase>> PROVE Chained(a)'
  BY <1>2, <1>3, ChainUntouched DEF Posting, Busy, Running, Here
<1>4. CASE UNCHANGED vars \/ \E d \in Doc, b \in Counted, n \in Counts : Count(d, b, n)
  BY <1>3, <1>4 DEF vars, session, Count
<1>5. ASSUME NEW s \in Session, NEW o, Start(s, o) PROVE Chained(a)'
  <2>1. /\ entries' = entries /\ status[s] = "idle" /\ UNCHANGED <<pos, phase, chosen>>
        /\ \A t \in Session \ {s} : order'[t] = order[t] /\ status'[t] = status[t]
    BY <1>5, StartedRows DEF IInv, Start
  <2>2. phase[s] = "select"
    BY <2>1 DEF IInv, AtALine, Running
  <2> QED
    BY <1>2, <2>1, <2>2, ChainUntouched DEF Posting, Busy, Running, Here
<1>6. ASSUME NEW s \in Session,
             BeginOrder(s) \/ BeginReceipt(s) \/ \E d \in Doc : BeginAdjustment(s, d)
      PROVE  Chained(a)'
  BY <1>5, <1>6, BegunOrder
<1>7. ASSUME NEW s \in Session, Swallow(s) PROVE Chained(a)'
  <2>1. /\ UNCHANGED <<entries, order, status, chosen>>
        /\ phase'[s] = "select"
        /\ \A t \in Session \ {s} : pos'[t] = pos[t] /\ phase'[t] = phase[t]
    BY <1>7 DEF Swallow, IInv, TypeOK
  <2> QED
    BY <1>2, <2>1, ChainUntouched DEF Posting, Busy, Running, Here
<1>8. ASSUME NEW s \in Session, Commit(s) PROVE Chained(a)'
  BY <1>2, <1>8, ChainEnded DEF Commit
<1>9. ASSUME NEW s \in Session, Running(s), Abort(s) PROVE Chained(a)'
  BY <1>2, <1>9, ChainEnded DEF Abort
<1> QED
  BY <1>2, <1>4, <1>6, <1>7, <1>8, <1>9, StepKinds, ChainSelected, ChainPosted

\* No step makes a balance negative that must not be.
THEOREM InductiveBalances == IInv /\ BalanceInv /\ [Next]_vars => BalanceInv'
<1> SUFFICES ASSUME IInv, BalanceInv, [Next]_vars PROVE BalanceInv'
  OBVIOUS
<1>1. ASSUME entries' = entries PROVE BalanceInv'
  BY <1>1 DEF BalanceInv
<1>2. ASSUME NEW s, NEW result \in {"committed", "gone"}, NEW outcome, End(s, result, outcome)
      PROVE  BalanceInv'
  <2>1. entries' = Settle(s, result)
    BY <1>2 DEF End
  <2>2. /\ DOMAIN entries' = DOMAIN entries
        /\ \A i \in DOMAIN entries : /\ entries'[i].account = entries[i].account
                                     /\ entries'[i].balance = entries[i].balance
    BY <2>1, SettledRows DEF IInv
  <2> QED
    BY <2>2 DEF BalanceInv
<1>3. ASSUME NEW s \in Session, PostEntry(s) PROVE BalanceInv'
  <2>1. PICK e \in Entry :
          /\ entries' = Append(entries, e) /\ e.account = Here(s).account
          /\ e.balance = BalanceAt(chosen[s]) + Here(s).qty
    BY <1>3, PostedEntry DEF IInv
  <2>2. e.balance >= 0 \/ e.account \in Lenient
    BY <1>3, <2>1 DEF PostEntry, Allowed, NewBalance
  <2> PICK n : n = Len(entries) + 1
    OBVIOUS
  <2>3. /\ DOMAIN entries' = (DOMAIN entries) \cup {n} /\ entries'[n] = e
        /\ \A i \in DOMAIN entries : entries'[i] = entries[i]
    BY <2>1, AppendedRow DEF IInv
  <2> QED
    BY <2>2, <2>3 DEF BalanceInv
<1> QED
  BY <1>1, <1>2, <1>3, StepKinds DEF vars, Count, BeginOrder, BeginReceipt, BeginAdjustment, Start,
     Select, Commit, Abort, Swallow

THEOREM ChainsHold == Spec => []ChainInv /\ []BalanceInv
<1> QED
  BY InvariantHolds, InitialChains, InductiveChains, InductiveBalances, PTL DEF Spec

\* An account that no two requests were at together has one chain of entries:
\* each goes on from the newest before it.
THEOREM AloneIsChained == Spec => []ChainedWhenAlone
<1>1. ASSUME IInv, ChainInv PROVE ChainedWhenAlone
  <2> SUFFICES ASSUME NEW i \in DOMAIN entries, NEW a, a = entries[i].account, Committed(i), a \notin raced
               PROVE  entries[i].pred = Newest({j \in Of(a) : Committed(j) /\ j < i})
    BY DEF ChainedWhenAlone
  <2>1. a \in Account /\ i \in Of(a) /\ i \in LiveOf(a)
    BY <1>1, EntryRows DEF IInv, Entry, Of, LiveOf, Live, Committed
  <2>2. Chained(a)
    BY <1>1, <2>1 DEF ChainInv
  <2>3. ASSUME NEW j \in Of(a), j < i PROVE Live(j) <=> Committed(j)
    <3>1. entries[j].state \in {"pending", "committed", "gone"} /\ i \in Nat /\ j \in Nat
      BY <1>1, <2>1, AccountRows DEF IInv, Entry
    <3>2. entries[j].state # "pending"
      BY <2>1, <2>2, <2>3, <3>1 DEF Chained
    <3> QED
      BY <3>1, <3>2 DEF Live, Committed
  <2>4. {j \in LiveOf(a) : j < i} = {j \in Of(a) : Committed(j) /\ j < i}
    BY <2>3 DEF LiveOf
  <2> QED
    BY <2>1, <2>2, <2>4 DEF Chained, OneChain
<1> QED
  BY <1>1, InvariantHolds, ChainsHold, PTL

\* What has left such an account never exceeds what came in, unless its product
\* may go negative: the balance that the check of the code reads is the sum of
\* all movements.
THEOREM OnHandStaysNonNegative == Spec => []OnHandNotNegative
<1>1. ASSUME IInv, ChainInv, BalanceInv PROVE OnHandNotNegative
  <2> SUFFICES ASSUME NEW a \in Account \ (raced \cup Lenient), NEW C,
                      C = {i \in Of(a) : Committed(i)}
               PROVE  SumFunctionOnSet(Quantities, C) >= 0
    BY DEF OnHandNotNegative
  <2>1. Chained(a)
    BY <1>1 DEF ChainInv
  <2>2. CASE C = {}
    BY <2>2, SumEmpty
  <2>3. CASE C # {}
    <3>1. C \subseteq 1..Len(entries) /\ Len(entries) \in Nat /\ C \subseteq LiveOf(a)
      BY <1>1, AccountRows DEF IInv, LiveOf, Live, Committed
    <3>2. PICK m \in C : \A i \in C : i <= m
      BY <2>3, <3>1, NewestEntry
    <3>3. {j \in LiveOf(a) : j <= m} = C
      <4>1. ASSUME NEW j \in LiveOf(a), j <= m PROVE Committed(j)
        <5>1. /\ j \in Of(a) /\ entries[j].state \in {"pending", "committed"}
              /\ j \in Nat /\ m \in Nat /\ m \in Of(a) /\ Committed(m)
          BY <1>1, AccountRows DEF IInv, Entry, LiveOf, Live
        <5>2. entries[j].state # "pending"
          BY <2>1, <4>1, <5>1 DEF Chained
        <5> QED
          BY <5>1, <5>2 DEF Committed
      <4> QED
        BY <3>1, <3>2, <4>1 DEF LiveOf
    <3>4. entries[m].balance = SumFunctionOnSet(Quantities, C)
      BY <2>1, <3>1, <3>2, <3>3 DEF Chained, OneChain, Quantities
    <3>5. m \in DOMAIN entries /\ entries[m].account = a
      BY <3>2 DEF Of
    <3>6. entries[m].balance >= 0
      BY <1>1, <3>5 DEF BalanceInv
    <3> QED
      BY <3>4, <3>6
  <2> QED
    BY <2>2, <2>3
<1> QED
  BY <1>1, InvariantHolds, ChainsHold, PTL

=============================================================================
