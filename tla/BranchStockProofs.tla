-------------------------- MODULE BranchStockProofs --------------------------
(***************************************************************************)
(* The accounts of BranchStock are exact, and BranchStock implements       *)
(* StockAccount, for any branches, products, requests and number of        *)
(* concurrent transactions.                                                *)
(***************************************************************************)
EXTENDS BranchStock, SumLemmas, SequenceTheorems

-----------------------------------------------------------------------------
(* Chains of balances.                                                     *)

\* A ledger's closing balance is an integer.
LEMMA BalanceType ==
  ASSUME NEW base \in Int, NEW s \in Seq(Account!Movement)
  PROVE  Account!Balance(base, s) \in Int
<1>1. CASE s = <<>>
  BY <1>1 DEF Account!Balance
<1>2. CASE s # <<>>
  <2>1. Len(s) \in 1..Len(s)
    BY <1>2
  <2>2. s[Len(s)] \in Account!Movement
    BY <2>1
  <2> QED
    BY <1>2, <2>2 DEF Account!Balance, Account!Movement
<1> QED
  BY <1>1, <1>2

\* A movement that carries the closing balance plus its delta extends a chain,
\* and becomes its closing balance.
LEMMA ChainAppend ==
  ASSUME NEW base \in Int, NEW s \in Seq(Account!Movement), NEW d \in Int,
         Account!Chain(base, s)
  PROVE  LET m == [delta |-> d, balance |-> Account!Balance(base, s) + d]
         IN /\ Append(s, m) \in Seq(Account!Movement)
            /\ Account!Chain(base, Append(s, m))
            /\ Account!Balance(base, Append(s, m)) = Account!Balance(base, s) + d
<1> DEFINE m == [delta |-> d, balance |-> Account!Balance(base, s) + d]
           r == Append(s, m)
<1>1. m \in Account!Movement
  BY BalanceType DEF Account!Movement
<1>2. /\ r \in Seq(Account!Movement) /\ Len(r) = Len(s) + 1
      /\ r # <<>> /\ r[Len(s) + 1] = m
      /\ \A i \in 1..Len(s) : r[i] = s[i]
  BY <1>1
<1>3. Account!Balance(base, r) = Account!Balance(base, s) + d
  BY <1>2 DEF Account!Balance
<1>4. ASSUME NEW i \in 1..Len(r)
      PROVE  r[i].balance = (IF i = 1 THEN base ELSE r[i - 1].balance) + r[i].delta
  <2>1. CASE i \in 1..Len(s)
    <3>1. r[i] = s[i] /\ (i # 1 => r[i - 1] = s[i - 1])
      BY <1>2, <2>1
    <3> QED
      BY <2>1, <3>1 DEF Account!Chain
  <2>2. CASE i = Len(s) + 1
    <3>1. CASE s = <<>>
      BY <1>2, <2>2, <3>1 DEF Account!Balance
    <3>2. CASE s # <<>>
      <4>1. Len(s) \in Nat \ {0}
        BY <3>2
      <4>2. r[i - 1] = s[Len(s)]
        BY <1>2, <2>2, <4>1
      <4> QED
        BY <1>2, <2>2, <3>2, <4>1, <4>2 DEF Account!Balance
    <3> QED
      BY <3>1, <3>2
  <2> QED
    BY <1>2, <2>1, <2>2
<1> HIDE DEF r, m
<1>5. Account!Chain(base, r)
  BY <1>4 DEF Account!Chain
<1> QED
  BY <1>2, <1>3, <1>5 DEF r, m

\* Appending the movements of a transaction to the ledger they chain from
\* gives a chain that ends where the movements end.
LEMMA ChainConcat ==
  ASSUME NEW base \in Int,
         NEW s \in Seq(Account!Movement), NEW u \in Seq(Account!Movement),
         Account!Chain(base, s), Account!Chain(Account!Balance(base, s), u)
  PROVE  /\ s \o u \in Seq(Account!Movement)
         /\ Account!Chain(base, s \o u)
         /\ Account!Balance(base, s \o u)
              = Account!Balance(Account!Balance(base, s), u)
<1> DEFINE r == s \o u
<1>1. /\ r \in Seq(Account!Movement) /\ Len(r) = Len(s) + Len(u)
      /\ \A i \in 1..Len(s) : r[i] = s[i]
      /\ \A i \in 1..Len(u) : r[Len(s) + i] = u[i]
  BY ConcatProperties
<1>2. Len(s) \in Nat /\ Len(u) \in Nat
  OBVIOUS
<1>3. Account!Balance(base, r) = Account!Balance(Account!Balance(base, s), u)
  <2>1. CASE u = <<>>
    <3>1. r = s
      BY <2>1
    <3> QED
      BY <2>1, <3>1 DEF Account!Balance
  <2>2. CASE u # <<>>
    <3>1. Len(u) \in 1..Len(u) /\ Len(u) > 0
      BY <2>2
    <3>2. r # <<>> /\ r[Len(r)] = u[Len(u)]
      BY <1>1, <1>2, <3>1
    <3> QED
      BY <2>2, <3>2 DEF Account!Balance
  <2> QED
    BY <2>1, <2>2
<1>4. ASSUME NEW i \in 1..Len(r)
      PROVE  r[i].balance = (IF i = 1 THEN base ELSE r[i - 1].balance) + r[i].delta
  <2>1. CASE i \in 1..Len(s)
    <3>1. r[i] = s[i] /\ (i # 1 => r[i - 1] = s[i - 1])
      BY <1>1, <2>1
    <3> QED
      BY <2>1, <3>1 DEF Account!Chain
  <2>2. CASE i \notin 1..Len(s)
    <3> DEFINE j == i - Len(s)
    <3>1. j \in 1..Len(u) /\ i = Len(s) + j
      BY <1>1, <1>2, <2>2
    <3>2. u[j].balance = (IF j = 1 THEN Account!Balance(base, s)
                          ELSE u[j - 1].balance) + u[j].delta
      BY <3>1 DEF Account!Chain
    <3>3. r[i] = u[j]
      BY <1>1, <3>1
    <3>4. CASE j = 1
      <4>1. CASE s = <<>>
        <5>1. i = 1
          BY <3>1, <3>4, <4>1
        <5> QED
          BY <3>2, <3>3, <3>4, <4>1, <5>1 DEF Account!Balance
      <4>2. CASE s # <<>>
        <5>1. Len(s) \in 1..Len(s) /\ i # 1 /\ i - 1 = Len(s)
          BY <1>2, <3>1, <3>4, <4>2
        <5>2. r[i - 1] = s[Len(s)]
          BY <1>1, <5>1
        <5> QED
          BY <3>2, <3>3, <3>4, <4>2, <5>1, <5>2 DEF Account!Balance
      <4> QED
        BY <4>1, <4>2
    <3>5. CASE j # 1
      <4>1. j - 1 \in 1..Len(u) /\ i - 1 = Len(s) + (j - 1) /\ i # 1
        BY <1>2, <3>1, <3>5
      <4>2. r[i - 1] = u[j - 1]
        BY <1>1, <4>1
      <4> QED
        BY <3>2, <3>3, <3>5, <4>1, <4>2
    <3> QED
      BY <3>4, <3>5
  <2> QED
    BY <2>1, <2>2
<1>5. Account!Chain(base, r)
  BY <1>4 DEF Account!Chain
<1> QED
  BY <1>1, <1>3, <1>5

-----------------------------------------------------------------------------
(* The inductive invariant.                                                *)

\* Whatever order a handler chooses, it makes a sequence of calls.
LEMMA CallOrderType ==
  ASSUME NEW request \in Requests, NEW calls \in CallOrder(request)
  PROVE  calls \in Seq(Op)
<1>1. request.calls \in Seq(Op)
  BY RequestsAssumption DEF Request
<1>2. calls \in [1..Len(request.calls) -> Range(request.calls)]
  BY <1>1 DEF CallOrder
<1>3. Range(request.calls) \subseteq Op
  BY <1>1 DEF Range
<1>4. calls \in [1..Len(request.calls) -> Op]
  BY <1>2, <1>3
<1>5. Len(request.calls) \in Nat
  BY <1>1
<1> QED
  BY <1>4, <1>5, SeqDef

\* The rows that a sale locks are as many as its products.
LEMMA RowsType ==
  ASSUME NEW calls \in Seq(Op), NEW s \in ByName(Products(calls))
  PROVE  RowsOf(s) \in Seq(ProductRow)
<1>1. Products(calls) \subseteq Product
  <2> SUFFICES ASSUME NEW i \in DOMAIN calls PROVE calls[i].product \in Product
    BY DEF Products
  <2>1. calls[i] \in Op
    OBVIOUS
  <2> QED
    BY <2>1 DEF Op
<1>2. Cardinality(Products(calls)) \in Nat
  BY <1>1, ProductIdAssumption, FS_Subset, FS_CardinalityType
<1>3. PICK n \in Nat : n = Cardinality(Products(calls))
  BY <1>2
<1>4. s \in [1..n -> Product]
  BY <1>1, <1>3 DEF ByName
<1>5. RowsOf(s) \in [1..n -> ProductRow]
  BY <1>4 DEF RowsOf, ProductRow
<1> QED
  BY <1>5, SeqDef

LEMMA LineByLineType ==
  ASSUME NEW calls \in Seq(Op), NEW kind \in {"update", "refer"}
  PROVE  LineByLine(calls, kind) \in Seq(Statement)
<1>1. PICK n \in Nat : n = Len(calls)
  OBVIOUS
<1>2. ASSUME NEW k \in 1..(2 * n)
      PROVE  LineByLine(calls, kind)[k] \in Statement
  <2>1. CASE k % 2 = 1
    <3>1. (k + 1) \div 2 \in 1..n
      BY <1>1, <2>1
    <3>2. calls[(k + 1) \div 2] \in Op
      BY <1>1, <3>1
    <3>3. PICK p \in Product : p = calls[(k + 1) \div 2].product
      BY <3>2 DEF Op
    <3>4. LineByLine(calls, kind)[k] = [kind |-> kind, product |-> p]
      BY <1>1, <2>1, <3>3 DEF LineByLine
    <3> QED
      BY <3>4 DEF Statement, ProductRow
  <2>2. CASE k % 2 # 1
    <3>1. k \div 2 \in 1..n
      BY <1>1, <2>2
    <3>2. calls[k \div 2] \in Op
      BY <1>1, <3>1
    <3>3. LineByLine(calls, kind)[k] = calls[k \div 2]
      BY <1>1, <2>2 DEF LineByLine
    <3> QED
      BY <3>2, <3>3 DEF Statement
  <2> QED
    BY <2>1, <2>2
<1>3. LineByLine(calls, kind) = [k \in 1..(2 * n) |-> LineByLine(calls, kind)[k]]
  BY <1>1 DEF LineByLine
<1>4. LineByLine(calls, kind) \in [1..(2 * n) -> Statement]
  BY <1>2, <1>3
<1> QED
  BY <1>4, SeqDef

LEMMA PapersType ==
  ASSUME NEW d \in Doc
  PROVE  Parent(d) \in Statement /\ Shipment(d) \in Statement
BY DEF Parent, Shipment, Statement, PaperRow, Paper

\* What a handler executes is a sequence of statements.
LEMMA ProgramsType ==
  ASSUME NEW request \in Requests, NEW statements \in Programs(request)
  PROVE  statements \in Seq(Statement)
<1>1. /\ request.kind \in Kind /\ request.calls \in Seq(Op)
      /\ request.kind \in WithPaper => request.doc \in Doc
  BY RequestsAssumption DEF Request
<1>2. Op \subseteq Statement /\ ProductRow \subseteq Statement
  BY DEF Statement
<1>3. request.calls \in Seq(Statement)
  BY <1>1, <1>2
<1>4. CASE request.kind = "sale"
  <2>1. PICK s \in ByName(Products(request.calls)) : statements = RowsOf(s) \o request.calls
    BY <1>4 DEF Programs
  <2>2. RowsOf(s) \in Seq(Statement)
    BY <1>1, <1>2, RowsType
  <2> QED
    BY <1>3, <2>1, <2>2
<1>5. CASE request.kind = "synced"
  <2>1. statements = LineByLine(request.calls, "update")
    BY <1>5 DEF Programs
  <2> QED
    BY <1>1, <2>1, LineByLineType
<1>6. CASE request.kind \in {"device", "transfer"}
  <2>1. statements = LineByLine(request.calls, "refer")
    BY <1>6 DEF Programs
  <2> QED
    BY <1>1, <2>1, LineByLineType
<1>7. CASE request.kind = "dispatch"
  <2>1. PICK calls \in CallOrder(request) : statements = <<Parent(request.doc)>> \o calls
    BY <1>7 DEF Programs
  <2>2. calls \in Seq(Statement)
    BY <1>2, CallOrderType
  <2>3. Parent(request.doc) \in Statement
    BY <1>1, <1>7, PapersType DEF WithPaper
  <2> QED
    BY <2>1, <2>2, <2>3
<1>8. CASE request.kind = "receipt"
  <2>1. PICK calls \in CallOrder(request) :
          statements = Append(<<Shipment(request.doc)>> \o calls, Parent(request.doc))
    BY <1>8 DEF Programs
  <2>2. calls \in Seq(Statement)
    BY <1>2, CallOrderType
  <2>3. Parent(request.doc) \in Statement /\ Shipment(request.doc) \in Statement
    BY <1>1, <1>8, PapersType DEF WithPaper
  <2> QED
    BY <2>1, <2>2, <2>3
<1>9. CASE request.kind = "resolution"
  <2>1. statements = <<Parent(request.doc)>> \o request.calls
    BY <1>9 DEF Programs
  <2>2. Parent(request.doc) \in Statement
    BY <1>1, <1>9, PapersType DEF WithPaper
  <2> QED
    BY <1>3, <2>1, <2>2
<1> QED
  BY <1>1, <1>4, <1>5, <1>6, <1>7, <1>8, <1>9 DEF Kind

LEMMA StatementType ==
  ASSUME TypeOK, NEW t \in Tx, Active(t)
  PROVE  /\ status[t] = "running" /\ prog[t] \in Seq(Statement)
         /\ pos[t] \in DOMAIN prog[t] /\ pos[t] \in Nat \ {0}
         /\ Call(t) \in Statement /\ Call(t) = prog[t][pos[t]]
<1>1. prog[t] \in Seq(Statement) /\ pos[t] \in 1..Len(prog[t]) /\ pos[t] \in Nat \ {0}
  BY DEF TypeOK, Active
<1> QED
  BY <1>1 DEF Call, Active

LEMMA CallType ==
  ASSUME TypeOK, NEW t \in Tx, InCall(t)
  PROVE  Call(t) \in Op
<1>1. Call(t) \in Statement /\ Call(t).kind = "call"
  BY StatementType DEF InCall, At
<1> QED
  BY <1>1 DEF Statement, ProductRow, PaperRow

LEMMA ProductRowType ==
  ASSUME TypeOK, NEW t \in Tx, At(t, "update") \/ At(t, "refer")
  PROVE  Call(t) \in ProductRow
<1>1. Call(t) \in Statement /\ Call(t).kind \in {"update", "refer"}
  BY StatementType DEF At
<1> QED
  BY <1>1 DEF Statement, Op, PaperRow

LEMMA PaperRowType ==
  ASSUME TypeOK, NEW t \in Tx, At(t, "paper")
  PROVE  Call(t) \in PaperRow
<1>1. Call(t) \in Statement /\ Call(t).kind = "paper"
  BY StatementType DEF At
<1> QED
  BY <1>1 DEF Statement, Op, ProductRow

LEMMA ViewType ==
  ASSUME TypeOK, NEW t \in Tx, NEW b \in Branch, NEW p \in Product
  PROVE  View(t, b, p) \in Int
BY BalanceType DEF TypeOK, View

LEMMA InitIInv == Init => IInv
<1> SUFFICES ASSUME Init PROVE IInv
  OBVIOUS
<1>1. <<>> \in Seq(Account!Movement) /\ <<>> \in Seq(Statement)
  OBVIOUS
<1>2. TypeOK
  BY <1>1, OpeningAssumption, DocAssumption DEF Init, TypeOK, NoMoves, Status
<1>3. PendingHeld
  BY DEF Init, PendingHeld, NoMoves, Account!Chain
<1>4. LedgerExplainsStock
  BY DEF Init, LedgerExplainsStock, NoMoves, Account!Chain, Account!Balance
<1> QED
  BY <1>2, <1>3, <1>4 DEF IInv

\* A transaction's own statements leave the committed state alone; applying a
\* call extends its chain of pending movements.
LEMMA ApplyIInv ==
  ASSUME IInv, NEW t \in Tx, LockAndApply(t)
  PROVE  IInv'
<1> DEFINE o == Call(t)
           m == [delta |-> o.delta, balance |-> View(t, o.branch, o.product) + o.delta]
           old == moves[t][o.branch][o.product]
<1>1. TypeOK /\ PendingHeld /\ LedgerExplainsStock
  BY DEF IInv
<1>2. o \in Op /\ InCall(t)
  BY <1>1, CallType DEF LockAndApply
<1>3. /\ o.branch \in Branch /\ o.product \in Product /\ o.delta \in Int
      /\ stock[o.branch][o.product] \in Int
      /\ old \in Seq(Account!Movement)
      /\ Account!Chain(stock[o.branch][o.product], old)
  BY <1>1, <1>2 DEF Op, TypeOK, PendingHeld
<1>4. /\ Append(old, m) \in Seq(Account!Movement)
      /\ Account!Chain(stock[o.branch][o.product], Append(old, m))
  BY <1>3, ChainAppend DEF View
<1>5. /\ rowLock[o.branch][o.product] \in {Free, t}
      /\ rowLock' = [rowLock EXCEPT ![o.branch][o.product] = t]
      /\ moves' = [moves EXCEPT ![t][o.branch][o.product] = Append(old, m)]
      /\ phase' = [phase EXCEPT ![t] = "sum"]
      /\ UNCHANGED <<stock, agg, ledger, sent, prodLock, paperLock, status, prog, asked, pos, total, aggWrite>>
  BY <1>1, <1>3 DEF LockAndApply, RowAvailable, TypeOK, committed, program
<1> HIDE DEF m, o
<1>6. TypeOK'
  BY <1>1, <1>3, <1>4, <1>5 DEF TypeOK
<1>7. PendingHeld'
  <2> SUFFICES ASSUME NEW u \in Tx, NEW b \in Branch, NEW p \in Product
               PROVE  /\ moves'[u][b][p] # <<>> => rowLock'[b][p] = u
                      /\ Account!Chain(stock'[b][p], moves'[u][b][p])
    BY DEF PendingHeld, Account!Chain
  <2>1. CASE b = o.branch /\ p = o.product
    <3>1. CASE u = t
      BY <1>1, <1>3, <1>4, <1>5, <2>1, <3>1 DEF TypeOK
    <3>2. CASE u # t
      <4>1. moves'[u][b][p] = moves[u][b][p]
        BY <1>1, <1>3, <1>5, <3>2 DEF TypeOK
      <4>2. moves[u][b][p] = <<>>
        BY <1>1, <1>5, <2>1, <3>2, FreeAssumption DEF PendingHeld
      <4> QED
        BY <1>1, <1>5, <4>1, <4>2 DEF PendingHeld
    <3> QED
      BY <3>1, <3>2
  <2>2. CASE ~(b = o.branch /\ p = o.product)
    <3> DEFINE held == Append(old, m)
               kept == [moves[t] EXCEPT ![o.branch][o.product] = held]
    <3>1. kept[b][p] = moves[t][b][p]
      BY <1>1, <1>3, <2>2 DEF TypeOK
    <3>2. moves' = [moves EXCEPT ![t] = kept]
      BY <1>1, <1>5 DEF TypeOK
    <3>3. moves'[u][b][p] = moves[u][b][p]
      BY <1>1, <3>1, <3>2 DEF TypeOK
    <3>4. rowLock'[b][p] = rowLock[b][p]
      BY <1>1, <1>3, <1>5, <2>2 DEF TypeOK
    <3>5. moves'[u][b][p] = moves[u][b][p] /\ rowLock'[b][p] = rowLock[b][p]
      BY <3>3, <3>4
    <3> QED
      BY <1>1, <1>5, <3>5 DEF PendingHeld
  <2> QED
    BY <2>1, <2>2
<1>8. LedgerExplainsStock'
  BY <1>1, <1>5 DEF LedgerExplainsStock, Account!Chain
<1> QED
  BY <1>6, <1>7, <1>8 DEF IInv

LEMMA ReleaseType ==
  ASSUME TypeOK, NEW t \in Tx, Release(t)
  PROVE  /\ rowLock' \in [Branch -> [Product -> Tx \cup {Free}]]
         /\ prodLock' \in [Product -> Tx \cup {Free}]
         /\ paperLock' \in [Paper -> Tx \cup {Free}]
         /\ moves' \in [Tx -> [Branch -> [Product -> Seq(Account!Movement)]]]
<1>1. NoMoves \in [Branch -> [Product -> Seq(Account!Movement)]]
  BY DEF NoMoves
<1> QED
  BY <1>1 DEF TypeOK, Release

\* Once t's locks and pending movements are gone, what the other transactions
\* hold is as it was.
LEMMA ReleasePending ==
  ASSUME IInv, NEW t \in Tx, Release(t),
         \A b \in Branch, p \in Product :
           moves[t][b][p] = <<>> => stock'[b][p] = stock[b][p]
  PROVE  PendingHeld'
<1> SUFFICES ASSUME NEW u \in Tx, NEW b \in Branch, NEW p \in Product
             PROVE  /\ moves'[u][b][p] # <<>> => rowLock'[b][p] = u
                    /\ Account!Chain(stock'[b][p], moves'[u][b][p])
  BY DEF PendingHeld, Account!Chain
<1>1. TypeOK /\ PendingHeld
  BY DEF IInv
<1>2. CASE u = t
  <2>1. moves'[u][b][p] = <<>>
    BY <1>1, <1>2 DEF TypeOK, Release, NoMoves
  <2> QED
    BY <2>1 DEF Account!Chain
<1>3. CASE u # t
  <2>1. moves'[u][b][p] = moves[u][b][p]
    BY <1>1, <1>3 DEF TypeOK, Release
  <2>2. CASE moves[u][b][p] = <<>>
    BY <2>1, <2>2 DEF Account!Chain
  <2>3. CASE moves[u][b][p] # <<>>
    <3>1. rowLock[b][p] = u /\ Account!Chain(stock[b][p], moves[u][b][p])
      BY <1>1, <2>3 DEF PendingHeld
    <3>2. moves[t][b][p] = <<>>
      BY <1>1, <1>3, <3>1 DEF PendingHeld
    <3>3. stock'[b][p] = stock[b][p] /\ rowLock'[b][p] = u
      BY <1>3, <3>1, <3>2 DEF Release
    <3> QED
      BY <2>1, <3>1, <3>3
  <2> QED
    BY <2>2, <2>3
<1> QED
  BY <1>2, <1>3

LEMMA CommitIInv ==
  ASSUME IInv, NEW t \in Tx, Commit(t)
  PROVE  IInv'
<1>1. TypeOK /\ PendingHeld /\ LedgerExplainsStock
  BY DEF IInv
<1>2. ASSUME NEW b \in Branch, NEW p \in Product
      PROVE  /\ ledger[b][p] \o moves[t][b][p] \in Seq(Account!Movement)
             /\ Account!Chain(Opening[b][p], ledger[b][p] \o moves[t][b][p])
             /\ View(t, b, p)
                  = Account!Balance(Opening[b][p], ledger[b][p] \o moves[t][b][p])
  <2>1. /\ Opening[b][p] \in Int
        /\ ledger[b][p] \in Seq(Account!Movement)
        /\ moves[t][b][p] \in Seq(Account!Movement)
        /\ Account!Chain(Opening[b][p], ledger[b][p])
        /\ stock[b][p] = Account!Balance(Opening[b][p], ledger[b][p])
        /\ Account!Chain(stock[b][p], moves[t][b][p])
    BY <1>1, OpeningAssumption DEF TypeOK, PendingHeld, LedgerExplainsStock
  <2> QED
    BY <2>1, ChainConcat DEF View
<1>3. TypeOK'
  <2>1. \A b \in Branch, p \in Product : View(t, b, p) \in Int
    BY <1>1, ViewType
  <2>2. stock' \in [Branch -> [Product -> Int]]
    BY <2>1 DEF Commit
  <2>3. ledger' \in [Branch -> [Product -> Seq(Account!Movement)]]
    BY <1>2 DEF Commit
  <2>4. NoMoves \in [Branch -> [Product -> Seq(Account!Movement)]]
    BY DEF NoMoves
  <2>5. sent' \subseteq Doc
    <3>1. CASE asked[t].kind = "dispatch"
      <4>1. asked[t] \in Requests
        BY <1>1, <3>1 DEF TypeOK, NoRequest
      <4>2. asked[t].doc \in Doc
        BY <3>1, <4>1, RequestsAssumption DEF WithPaper
      <4> QED
        BY <1>1, <3>1, <4>2 DEF TypeOK, Commit
    <3>2. CASE asked[t].kind # "dispatch"
      BY <1>1, <3>2 DEF TypeOK, Commit
    <3> QED
      BY <3>1, <3>2
  <2>6. /\ rowLock' \in [Branch -> [Product -> Tx \cup {Free}]]
        /\ prodLock' \in [Product -> Tx \cup {Free}]
        /\ paperLock' \in [Paper -> Tx \cup {Free}]
        /\ moves' \in [Tx -> [Branch -> [Product -> Seq(Account!Movement)]]]
    BY <1>1, <2>4, ReleaseType DEF Commit
  <2>7. /\ status' \in [Tx -> Status] /\ DOMAIN agg' = Product
        /\ UNCHANGED <<prog, asked, pos, phase, total, aggWrite>>
    BY <1>1 DEF TypeOK, Commit, Status, program
  <2> QED
    BY <1>1, <2>2, <2>3, <2>5, <2>6, <2>7 DEF TypeOK
<1>4. PendingHeld'
  <2>1. \A b \in Branch, p \in Product :
          moves[t][b][p] = <<>> => stock'[b][p] = stock[b][p]
    BY DEF Commit, View, Account!Balance
  <2> QED
    BY <2>1, ReleasePending DEF Commit
<1>5. LedgerExplainsStock'
  <2> SUFFICES ASSUME NEW b \in Branch, NEW p \in Product
               PROVE  /\ Account!Chain(Opening[b][p], ledger'[b][p])
                      /\ stock'[b][p] = Account!Balance(Opening[b][p], ledger'[b][p])
    BY DEF LedgerExplainsStock, Account!Chain, Account!Balance
  <2>1. /\ ledger'[b][p] = ledger[b][p] \o moves[t][b][p]
        /\ stock'[b][p] = View(t, b, p)
    BY DEF Commit
  <2> QED
    BY <1>2, <2>1
<1> QED
  BY <1>3, <1>4, <1>5 DEF IInv

LEMMA AbortIInv ==
  ASSUME IInv, NEW t \in Tx, Abort(t)
  PROVE  IInv'
<1>1. TypeOK /\ LedgerExplainsStock /\ UNCHANGED <<stock, agg, ledger, sent>>
  BY DEF IInv, Abort, committed
<1>2. TypeOK'
  <2>1. /\ status' \in [Tx -> Status]
        /\ UNCHANGED <<prog, asked, pos, phase, total, aggWrite>>
    BY <1>1 DEF TypeOK, Abort, Status, program
  <2> QED
    BY <1>1, <2>1, ReleaseType DEF TypeOK, Abort
<1>3. PendingHeld'
  BY <1>1, ReleasePending DEF Abort
<1>4. LedgerExplainsStock'
  BY <1>1 DEF LedgerExplainsStock, Account!Chain
<1> QED
  BY <1>2, <1>3, <1>4 DEF IInv

LEMMA SameAccounts ==
  ASSUME PendingHeld, LedgerExplainsStock, UNCHANGED <<stock, ledger, rowLock, moves>>
  PROVE  PendingHeld' /\ LedgerExplainsStock'
<1>1. PendingHeld'
  <2> SUFFICES ASSUME NEW t \in Tx, NEW b \in Branch, NEW p \in Product
               PROVE  /\ moves'[t][b][p] # <<>> => rowLock'[b][p] = t
                      /\ Account!Chain(stock'[b][p], moves'[t][b][p])
    BY DEF PendingHeld, Account!Chain
  <2> QED
    BY DEF PendingHeld
<1>2. LedgerExplainsStock'
  <2> SUFFICES ASSUME NEW b \in Branch, NEW p \in Product
               PROVE  /\ Account!Chain(Opening[b][p], ledger'[b][p])
                      /\ stock'[b][p] = Account!Balance(Opening[b][p], ledger'[b][p])
    BY DEF LedgerExplainsStock, Account!Chain, Account!Balance
  <2> QED
    BY DEF LedgerExplainsStock
<1> QED
  BY <1>1, <1>2

\* The other statements touch no account.
Quiet(t) ==
  \/ Begin(t) \/ ReadTotal(t) \/ WriteProduct(t) \/ LockProduct(t) \/ ReferToProduct(t)
  \/ LockPaper(t) /\ ~Refused(t)

LEMMA QuietIInv ==
  ASSUME IInv, NEW t \in Tx, Quiet(t)
  PROVE  IInv'
<1>1. TypeOK /\ PendingHeld /\ LedgerExplainsStock
  BY DEF IInv
<1>2. UNCHANGED <<stock, ledger, sent, rowLock, moves>>
  BY DEF Quiet, Begin, ReadTotal, WriteProduct, LockProduct, ReferToProduct, LockPaper, committed, locks
<1>3. TypeOK'
  <2>1. CASE Begin(t)
    <3>1. PICK request \in Requests :
            /\ \E statements \in Programs(request) : prog' = [prog EXCEPT ![t] = statements]
            /\ asked' = [asked EXCEPT ![t] = request]
      BY <2>1 DEF Begin
    <3>2. PICK statements \in Seq(Statement) : prog' = [prog EXCEPT ![t] = statements]
      BY <3>1, ProgramsType
    <3>3. prog' \in [Tx -> Seq(Statement)] /\ asked' \in [Tx -> Requests \cup {NoRequest}]
      BY <1>1, <3>1, <3>2 DEF TypeOK
    <3> QED
      BY <1>1, <1>2, <2>1, <3>3 DEF TypeOK, Begin, Status, committed, locks
  <2>2. CASE ReadTotal(t)
    BY <1>1, <1>2, <2>2 DEF TypeOK, ReadTotal, committed, locks, program
  <2>3. CASE WriteProduct(t)
    <3>1. Call(t).product \in Product
      BY <1>1, <2>3, CallType DEF WriteProduct, Op
    <3> QED
      BY <1>1, <1>2, <2>3, <3>1 DEF TypeOK, WriteProduct, NextCall, committed, program
  <2>4. CASE LockProduct(t)
    <3>1. Call(t).product \in Product
      BY <1>1, <2>4, ProductRowType DEF LockProduct, ProductRow
    <3> QED
      BY <1>1, <1>2, <2>4, <3>1 DEF TypeOK, LockProduct, NextCall, committed, program
  <2>5. CASE ReferToProduct(t)
    BY <1>1, <1>2, <2>5 DEF TypeOK, ReferToProduct, NextCall, committed, locks, program
  <2>6. CASE LockPaper(t) /\ ~Refused(t)
    <3>1. Call(t).paper \in Paper
      BY <1>1, <2>6, PaperRowType DEF LockPaper, PaperRow
    <3>2. /\ paperLock' = [paperLock EXCEPT ![Call(t).paper] = t]
          /\ pos' = [pos EXCEPT ![t] = @ + 1]
          /\ UNCHANGED <<agg, prodLock, status, prog, asked, phase, total, aggWrite>>
      BY ZenonT(60), <2>6 DEF LockPaper, NextCall, committed, program
    <3>3. paperLock' \in [Paper -> Tx \cup {Free}] /\ pos' \in [Tx -> Nat \ {0}]
      BY <1>1, <3>1, <3>2 DEF TypeOK
    <3> QED
      BY <1>1, <1>2, <3>2, <3>3 DEF TypeOK
  <2> QED
    BY <2>1, <2>2, <2>3, <2>4, <2>5, <2>6 DEF Quiet
<1>4. PendingHeld' /\ LedgerExplainsStock'
  BY <1>1, <1>2, SameAccounts
<1> QED
  BY <1>3, <1>4 DEF IInv

\* A step of a transaction is quiet, a call's first part, or its end.
LEMMA StepCases ==
  ASSUME NEW t \in Tx, Begin(t) \/ Step(t) \/ Rollback(t) \/ DeadlockVictim(t)
  PROVE  Quiet(t) \/ LockAndApply(t) \/ Commit(t) \/ Abort(t)
BY DEF Quiet, Step, Rollback, DeadlockVictim, LockPaper

LEMMA NextIInv == IInv /\ [Next]_vars => IInv'
<1> SUFFICES ASSUME IInv, [Next]_vars PROVE IInv'
  OBVIOUS
<1>1. CASE Next
  <2>1. PICK t \in Tx : Begin(t) \/ Step(t) \/ Rollback(t) \/ DeadlockVictim(t)
    BY <1>1 DEF Next
  <2>2. CASE Quiet(t)
    BY <2>2, QuietIInv
  <2>3. CASE LockAndApply(t)
    BY <2>3, ApplyIInv
  <2>4. CASE Commit(t)
    BY <2>4, CommitIInv
  <2>5. CASE Abort(t)
    BY <2>5, AbortIInv
  <2> QED
    BY <2>1, <2>2, <2>3, <2>4, <2>5, StepCases
<1>2. CASE UNCHANGED vars
  <2>1. UNCHANGED <<stock, agg, ledger, sent, rowLock, prodLock, paperLock, status, prog, asked,
                    pos, phase, total, moves, aggWrite>>
    BY <1>2 DEF vars, committed, locks, program, local
  <2>2. PendingHeld' /\ LedgerExplainsStock'
    BY <2>1, SameAccounts DEF IInv
  <2>3. TypeOK'
    BY <2>1 DEF IInv, TypeOK
  <2> QED
    BY <2>2, <2>3 DEF IInv
<1> QED
  BY <1>1, <1>2

\* The inductive invariant holds in every reachable state.
THEOREM InvariantHolds == Spec => []IInv
BY InitIInv, NextIInv, PTL DEF Spec

\* Type correctness of the stock engine.
THEOREM TypeCorrect == Spec => []TypeOK
<1>1. IInv => TypeOK
  BY DEF IInv
<1> QED
  BY <1>1, InvariantHolds, PTL

\* No receive or deduct is lost, doubled or applied to a stale balance: the
\* committed quantity of every account is what its ledger adds up to.
THEOREM LedgerExact == Spec => []LedgerExplainsStock
<1>1. IInv => LedgerExplainsStock
  BY DEF IInv
<1> QED
  BY <1>1, InvariantHolds, PTL

-----------------------------------------------------------------------------
(* Dispatches and receipts never wait for each other in a circle.          *)

\* The calls of a handler that sorts are in the order of the product ids, and
\* on one branch.
LEMMA CallOrderSorted ==
  ASSUME NEW request \in Requests, request.kind \in Sorting, NEW calls \in CallOrder(request)
  PROVE  /\ CallsInOrder(calls)
         /\ \A i \in DOMAIN calls : calls[i].kind = "call"
<1>1. Ascending(calls) /\ Range(calls) = Range(request.calls) /\ calls \in Seq(Op)
  BY CallOrderType DEF CallOrder
<1>2. OneBranch(request.calls)
  BY RequestsAssumption
<1>3. ASSUME NEW i \in DOMAIN calls, NEW j \in DOMAIN calls
      PROVE  calls[i].branch = calls[j].branch
  <2>1. calls[i] \in Range(request.calls) /\ calls[j] \in Range(request.calls)
    BY <1>1 DEF Range
  <2>2. PICK k \in DOMAIN request.calls, l \in DOMAIN request.calls :
          calls[i] = request.calls[k] /\ calls[j] = request.calls[l]
    BY <2>1 DEF Range
  <2> QED
    BY <1>2, <2>2 DEF OneBranch
<1>4. ASSUME NEW i \in DOMAIN calls PROVE calls[i].kind = "call"
  <2>1. calls[i] \in Op
    BY <1>1
  <2> QED
    BY <2>1 DEF Op
<1> QED
  BY <1>1, <1>3, <1>4 DEF CallsInOrder, Ascending

LEMMA DispatchShape ==
  ASSUME NEW request \in Requests, request.kind = "dispatch",
         NEW statements \in Programs(request)
  PROVE  CallsInOrder(statements) /\ IsDispatch(statements, request.doc)
<1>1. PICK calls \in CallOrder(request) : statements = <<Parent(request.doc)>> \o calls
  BY DEF Programs
<1>2. /\ calls \in Seq(Op) /\ CallsInOrder(calls)
      /\ \A i \in DOMAIN calls : calls[i].kind = "call"
  BY CallOrderType, CallOrderSorted DEF Sorting
<1>3. PICK n \in Nat : n = Len(calls) /\ DOMAIN calls = 1..n
  BY <1>2
<1>4. /\ DOMAIN statements = 1..(n + 1) /\ statements # <<>>
      /\ statements[1] = Parent(request.doc)
      /\ \A i \in 2..(n + 1) : statements[i] = calls[i - 1]
  BY <1>1, <1>2, <1>3
<1>5. statements[1].kind # "call"
  BY <1>4 DEF Parent
<1>6. ASSUME NEW i \in DOMAIN statements, i # 1
      PROVE  i - 1 \in DOMAIN calls /\ statements[i] = calls[i - 1]
  BY <1>3, <1>4, <1>6
<1>7. IsDispatch(statements, request.doc)
  BY <1>2, <1>4, <1>6 DEF IsDispatch
<1>8. CallsInOrder(statements)
  <2> SUFFICES ASSUME NEW i \in DOMAIN statements, NEW j \in DOMAIN statements,
                      statements[i].kind = "call", statements[j].kind = "call"
               PROVE  /\ statements[i].branch = statements[j].branch
                      /\ i < j => ProductId[statements[i].product] <= ProductId[statements[j].product]
    BY DEF CallsInOrder
  <2>1. i # 1 /\ j # 1
    BY <1>5
  <2>2. /\ i - 1 \in DOMAIN calls /\ statements[i] = calls[i - 1]
        /\ j - 1 \in DOMAIN calls /\ statements[j] = calls[j - 1]
    BY <1>6, <2>1
  <2>3. i < j => i - 1 < j - 1
    BY <1>4
  <2> QED
    BY <1>2, <2>2, <2>3 DEF CallsInOrder
<1> QED
  BY <1>7, <1>8

LEMMA ReceiptShape ==
  ASSUME NEW request \in Requests, request.kind = "receipt",
         NEW statements \in Programs(request)
  PROVE  CallsInOrder(statements) /\ IsReceipt(statements, request.doc)
<1>1. PICK calls \in CallOrder(request) :
        statements = Append(<<Shipment(request.doc)>> \o calls, Parent(request.doc))
  BY DEF Programs
<1>2. /\ calls \in Seq(Op) /\ CallsInOrder(calls)
      /\ \A i \in DOMAIN calls : calls[i].kind = "call"
  BY CallOrderType, CallOrderSorted DEF Sorting
<1>3. PICK n \in Nat : n = Len(calls) /\ DOMAIN calls = 1..n
  BY <1>2
<1>4. /\ DOMAIN statements = 1..(n + 2) /\ Len(statements) = n + 2 /\ statements # <<>>
      /\ statements[1] = Shipment(request.doc)
      /\ statements[n + 2] = Parent(request.doc)
      /\ \A i \in 2..(n + 1) : statements[i] = calls[i - 1]
  BY <1>1, <1>2, <1>3
<1>5. statements[1].kind # "call" /\ statements[n + 2].kind # "call"
  BY <1>4 DEF Parent, Shipment
<1>6. ASSUME NEW i \in DOMAIN statements, i # 1, i # n + 2
      PROVE  i - 1 \in DOMAIN calls /\ statements[i] = calls[i - 1]
  BY <1>3, <1>4, <1>6
<1>7. IsReceipt(statements, request.doc)
  BY <1>2, <1>4, <1>6 DEF IsReceipt
<1>8. CallsInOrder(statements)
  <2> SUFFICES ASSUME NEW i \in DOMAIN statements, NEW j \in DOMAIN statements,
                      statements[i].kind = "call", statements[j].kind = "call"
               PROVE  /\ statements[i].branch = statements[j].branch
                      /\ i < j => ProductId[statements[i].product] <= ProductId[statements[j].product]
    BY DEF CallsInOrder
  <2>1. i # 1 /\ j # 1 /\ i # n + 2 /\ j # n + 2
    BY <1>5
  <2>2. /\ i - 1 \in DOMAIN calls /\ statements[i] = calls[i - 1]
        /\ j - 1 \in DOMAIN calls /\ statements[j] = calls[j - 1]
    BY <1>6, <2>1
  <2>3. i < j => i - 1 < j - 1
    BY <1>4
  <2> QED
    BY <1>2, <2>2, <2>3 DEF CallsInOrder
<1> QED
  BY <1>7, <1>8

LEMMA InitLockInv == Init => LockInv
<1> SUFFICES ASSUME Init PROVE LockInv
  OBVIOUS
<1>1. LocksFollowCalls
  BY FreeAssumption DEF Init, LocksFollowCalls, LocksFollow, HoldsRow, HoldsProduct, HoldsPaper
<1>2. SortedPrograms
  BY DEF Init, SortedPrograms, NoRequest, Sorting
<1>3. SentInTime
  BY DEF Init, SentInTime
<1> QED
  BY <1>1, <1>2, <1>3 DEF LockInv

\* The locks of a transaction follow its statements as long as neither changes.
LEMMA Undisturbed ==
  ASSUME NEW u \in Tx, LocksFollow(u),
         status'[u] = status[u], prog'[u] = prog[u], pos'[u] = pos[u], phase'[u] = phase[u],
         \A b \in Branch, p \in Product : rowLock'[b][p] = u <=> rowLock[b][p] = u,
         \A p \in Product : prodLock'[p] = u <=> prodLock[p] = u,
         \A x \in Paper : paperLock'[x] = u <=> paperLock[x] = u
  PROVE  LocksFollow(u)'
<1>1. Done(u)' = Done(u) /\ Locked(u)' = Locked(u) /\ Call(u)' = Call(u)
  BY DEF Done, Locked, Call
<1>2. \A b \in Branch, p \in Product : HoldsRow(u, b, p)' <=> HoldsRow(u, b, p)
  BY <1>1 DEF HoldsRow
<1>3. \A p \in Product : HoldsProduct(u, p)' <=> HoldsProduct(u, p)
  BY <1>1 DEF HoldsProduct
<1>4. \A x \in Paper : HoldsPaper(u, x)' <=> HoldsPaper(u, x)
  BY <1>1 DEF HoldsPaper
<1> QED
  BY <1>1, <1>2, <1>3, <1>4 DEF LocksFollow

\* Programs and documents are as they were.
LEMMA SameSorting ==
  ASSUME SortedPrograms, UNCHANGED <<prog, asked>>
  PROVE  SortedPrograms'
BY DEF SortedPrograms

\* A request that begins holds no lock, and has come to no statement.
LEMMA BeginLockInv ==
  ASSUME IInv, LockInv, NEW t \in Tx, Begin(t)
  PROVE  LockInv'
<1>1. TypeOK /\ LocksFollowCalls /\ SortedPrograms /\ SentInTime
  BY DEF IInv, LockInv
<1>2. PICK request \in Requests :
        /\ \E statements \in Programs(request) : prog' = [prog EXCEPT ![t] = statements]
        /\ asked' = [asked EXCEPT ![t] = request]
  BY DEF Begin
<1>3. PICK statements \in Programs(request) : prog' = [prog EXCEPT ![t] = statements]
  BY <1>2
<1>4. /\ status[t] = "idle" /\ status' = [status EXCEPT ![t] = "running"]
      /\ UNCHANGED <<sent, rowLock, prodLock, paperLock, pos, phase>>
  BY DEF Begin, locks, committed
<1>5. /\ statements \in Seq(Statement) /\ prog'[t] = statements /\ asked'[t] = request
      /\ status'[t] = "running"
      /\ \A u \in Tx : u # t => /\ prog'[u] = prog[u] /\ asked'[u] = asked[u]
                                /\ status'[u] = status[u]
  BY <1>1, <1>2, <1>3, <1>4, ProgramsType DEF TypeOK
<1>6. pos'[t] = 1 /\ phase'[t] = "lock"
  BY <1>1, <1>4 DEF LocksFollowCalls, LocksFollow
<1>7. LocksFollow(t)'
  <2>1. DOMAIN statements \subseteq Nat \ {0}
    BY <1>5
  <2>2. Locked(t)' = {} /\ Done(t)' = {}
    BY <1>5, <1>6, <2>1 DEF Locked, Done
  <2>3. /\ \A b \in Branch, p \in Product : rowLock[b][p] # t
        /\ \A p \in Product : prodLock[p] # t
        /\ \A x \in Paper : paperLock[x] # t
    BY <1>1, <1>4 DEF LocksFollowCalls, LocksFollow, HoldsRow, HoldsProduct, HoldsPaper
  <2> QED
    BY <1>4, <1>6, <2>2, <2>3 DEF LocksFollow, HoldsRow, HoldsProduct, HoldsPaper
<1>8. LocksFollowCalls'
  <2> SUFFICES ASSUME NEW u \in Tx PROVE LocksFollow(u)'
    BY DEF LocksFollowCalls
  <2>1. CASE u # t
    BY <1>1, <1>4, <1>5, <2>1, Undisturbed DEF LocksFollowCalls
  <2> QED
    BY <1>7, <2>1
<1>9. SortedPrograms'
  <2> SUFFICES ASSUME NEW u \in Tx
               PROVE  /\ asked'[u].kind \in Sorting =>
                           CallsInOrder(prog'[u]) /\ asked'[u].doc \in Doc
                      /\ asked'[u].kind = "dispatch" => IsDispatch(prog'[u], asked'[u].doc)
                      /\ asked'[u].kind = "receipt" => IsReceipt(prog'[u], asked'[u].doc)
    BY DEF SortedPrograms
  <2>1. CASE u = t
    <3>1. request.kind \in Sorting => request.doc \in Doc
      BY RequestsAssumption DEF Sorting, WithPaper
    <3>2. request.kind = "dispatch" =>
            CallsInOrder(statements) /\ IsDispatch(statements, request.doc)
      BY DispatchShape
    <3>3. request.kind = "receipt" =>
            CallsInOrder(statements) /\ IsReceipt(statements, request.doc)
      BY ReceiptShape
    <3> QED
      BY <1>5, <2>1, <3>1, <3>2, <3>3 DEF Sorting
  <2>2. CASE u # t
    BY <1>1, <1>5, <2>2 DEF SortedPrograms
  <2> QED
    BY <2>1, <2>2
<1>10. SentInTime'
  BY <1>1, <1>4, <1>5, <1>6 DEF SentInTime
<1> QED
  BY <1>8, <1>9, <1>10 DEF LockInv

\* A call locks its row before it goes on to its second part.
LEMMA ApplyLockInv ==
  ASSUME IInv, LockInv, NEW t \in Tx, LockAndApply(t)
  PROVE  LockInv'
<1> DEFINE o == Call(t)
<1>1. TypeOK /\ LocksFollowCalls /\ SortedPrograms /\ SentInTime
  BY DEF IInv, LockInv
<1>2. InCall(t) /\ phase[t] = "lock" /\ Active(t)
  BY DEF LockAndApply, InCall, At
<1>3. /\ o \in Op /\ status[t] = "running" /\ prog[t] \in Seq(Statement)
      /\ pos[t] \in DOMAIN prog[t] /\ prog[t][pos[t]] = o /\ pos[t] \in Nat
      /\ o.branch \in Branch /\ o.product \in Product /\ o.kind = "call"
  BY <1>1, <1>2, CallType, StatementType DEF Op
<1>4. /\ rowLock[o.branch][o.product] \in {Free, t}
      /\ rowLock' = [rowLock EXCEPT ![o.branch][o.product] = t]
      /\ phase' = [phase EXCEPT ![t] = "sum"]
      /\ UNCHANGED <<sent, prodLock, paperLock, status, prog, asked, pos>>
  BY DEF LockAndApply, RowAvailable, program, committed
<1> HIDE DEF o
<1>5. /\ phase'[t] = "sum" /\ \A u \in Tx : u # t => phase'[u] = phase[u]
      /\ \A b \in Branch, p \in Product :
           rowLock'[b][p] = IF b = o.branch /\ p = o.product THEN t ELSE rowLock[b][p]
  BY <1>1, <1>3, <1>4 DEF TypeOK
<1>6. Locked(t)' = Locked(t) \cup {pos[t]} /\ Done(t)' = Done(t)
  BY <1>1, <1>2, <1>3, <1>4, <1>5 DEF Locked, Done
<1>7. LocksFollow(t)
  BY <1>1 DEF LocksFollowCalls
<1>8. ASSUME NEW b \in Branch, NEW p \in Product
      PROVE  rowLock'[b][p] = t <=> HoldsRow(t, b, p)'
  <2>1. rowLock[b][p] = t <=> HoldsRow(t, b, p)
    BY <1>7 DEF LocksFollow
  <2>2. HoldsRow(t, b, p)' <=> HoldsRow(t, b, p) \/ (b = o.branch /\ p = o.product)
    BY <1>3, <1>4, <1>6 DEF HoldsRow
  <2> QED
    BY <1>5, <2>1, <2>2
<1>9. LocksFollow(t)'
  <2>1. /\ \A p \in Product : prodLock'[p] = t <=> HoldsProduct(t, p)'
        /\ \A x \in Paper : paperLock'[x] = t <=> HoldsPaper(t, x)'
    BY <1>4, <1>6, <1>7 DEF LocksFollow, HoldsProduct, HoldsPaper
  <2>2. pos'[t] \in DOMAIN prog'[t] /\ Call(t)'.kind = "call" /\ status'[t] = "running"
    BY <1>3, <1>4 DEF Call
  <2> QED
    BY <1>8, <2>1, <2>2 DEF LocksFollow
<1>10. ASSUME NEW u \in Tx, u # t PROVE LocksFollow(u)'
  <2>1. \A b \in Branch, p \in Product : rowLock'[b][p] = u <=> rowLock[b][p] = u
    BY <1>4, <1>5, <1>10, FreeAssumption
  <2> QED
    BY <1>1, <1>4, <1>5, <1>10, <2>1, Undisturbed DEF LocksFollowCalls
<1>11. LocksFollowCalls'
  BY <1>9, <1>10 DEF LocksFollowCalls
<1>12. SortedPrograms' /\ SentInTime'
  BY <1>1, <1>4, SameSorting DEF SentInTime
<1> QED
  BY <1>11, <1>12 DEF LockInv

\* Reading the sum takes no lock.
LEMMA ReadLockInv ==
  ASSUME IInv, LockInv, NEW t \in Tx, ReadTotal(t)
  PROVE  LockInv'
<1>1. TypeOK /\ LocksFollowCalls /\ SortedPrograms /\ SentInTime
  BY DEF IInv, LockInv
<1>2. /\ status[t] = "running" /\ phase[t] = "sum"
      /\ phase' = [phase EXCEPT ![t] = "product"]
      /\ UNCHANGED <<sent, rowLock, prodLock, paperLock, status, prog, asked, pos>>
  BY DEF ReadTotal, InCall, At, Active, locks, program, committed
<1>3. phase'[t] = "product" /\ \A u \in Tx : u # t => phase'[u] = phase[u]
  BY <1>1, <1>2 DEF TypeOK
<1>4. LocksFollow(t)'
  <2>1. LocksFollow(t)
    BY <1>1 DEF LocksFollowCalls
  <2>2. Locked(t)' = Locked(t) /\ Done(t)' = Done(t) /\ Call(t)' = Call(t)
    BY <1>2, <1>3 DEF Locked, Done, Call
  <2>3. /\ \A b \in Branch, p \in Product : HoldsRow(t, b, p)' <=> HoldsRow(t, b, p)
        /\ \A p \in Product : HoldsProduct(t, p)' <=> HoldsProduct(t, p)
        /\ \A x \in Paper : HoldsPaper(t, x)' <=> HoldsPaper(t, x)
    BY <1>2, <2>2 DEF HoldsRow, HoldsProduct, HoldsPaper
  <2> QED
    BY <1>2, <1>3, <2>1, <2>2, <2>3 DEF LocksFollow
<1>5. ASSUME NEW u \in Tx, u # t PROVE LocksFollow(u)'
  BY <1>1, <1>2, <1>3, <1>5, Undisturbed DEF LocksFollowCalls
<1>6. LocksFollowCalls'
  BY <1>4, <1>5 DEF LocksFollowCalls
<1>7. SortedPrograms' /\ SentInTime'
  BY <1>1, <1>2, SameSorting DEF SentInTime
<1> QED
  BY <1>6, <1>7 DEF LockInv

\* t ends the statement it is in.
GoesOn(t) ==
  /\ Active(t) /\ pos' = [pos EXCEPT ![t] = @ + 1]
  /\ phase' = [phase EXCEPT ![t] = "lock"]
  /\ Call(t).kind # "call" => phase[t] = "lock"
  /\ Call(t).kind = "call" => phase[t] = "product"
  /\ UNCHANGED <<sent, rowLock, status, prog, asked>>

\* A statement that ends has locked what its kind tells, and nothing else.
LEMMA StatementEnds ==
  ASSUME IInv, LockInv, NEW t \in Tx, GoesOn(t),
         \A p \in Product : prodLock'[p] # prodLock[p] => prodLock[p] = Free,
         \A x \in Paper : paperLock'[x] # paperLock[x] => paperLock[x] = Free,
         \A p \in Product :
           prodLock'[p] = IF Call(t).kind \in {"call", "update"} /\ p = Call(t).product
                          THEN t ELSE prodLock[p],
         \A x \in Paper :
           paperLock'[x] = IF Call(t).kind = "paper" /\ x = Call(t).paper
                           THEN t ELSE paperLock[x]
  PROVE  LocksFollowCalls' /\ SortedPrograms'
<1> DEFINE o == Call(t)
<1>1. TypeOK /\ LocksFollowCalls /\ SortedPrograms
  BY DEF IInv, LockInv
<1>2. /\ status[t] = "running" /\ prog[t] \in Seq(Statement)
      /\ pos[t] \in DOMAIN prog[t] /\ prog[t][pos[t]] = o /\ pos[t] \in Nat
      /\ DOMAIN prog[t] \subseteq Nat
  <2>1. status[t] = "running" /\ prog[t] \in Seq(Statement) /\ pos[t] \in DOMAIN prog[t]
        /\ prog[t][pos[t]] = o /\ pos[t] \in Nat
    BY <1>1, StatementType DEF GoesOn
  <2>2. DOMAIN prog[t] \subseteq Nat
    BY <2>1
  <2> QED
    BY <2>1, <2>2
<1>3. /\ pos'[t] = pos[t] + 1 /\ phase'[t] = "lock" /\ status'[t] = "running"
      /\ prog'[t] = prog[t]
      /\ \A u \in Tx : u # t => /\ pos'[u] = pos[u] /\ phase'[u] = phase[u]
                                /\ status'[u] = status[u] /\ prog'[u] = prog[u]
  BY <1>1, <1>2 DEF TypeOK, GoesOn
<1> HIDE DEF o
<1>4. Done(t)' = Done(t) \cup {pos[t]}
  BY <1>2, <1>3 DEF Done
<1>5. Locked(t)' = Done(t) \cup {pos[t]}
  BY <1>2, <1>3 DEF Locked, Done
<1>6. IF o.kind = "call" THEN Locked(t) = Done(t) \cup {pos[t]} ELSE Locked(t) = Done(t)
  BY <1>2 DEF Locked, Done, GoesOn, o
<1>7. LocksFollow(t)
  BY <1>1 DEF LocksFollowCalls
<1>8. ASSUME NEW b \in Branch, NEW p \in Product
      PROVE  rowLock'[b][p] = t <=> HoldsRow(t, b, p)'
  <2>1. rowLock[b][p] = t <=> HoldsRow(t, b, p)
    BY <1>7 DEF LocksFollow
  <2>2. HoldsRow(t, b, p)' <=> HoldsRow(t, b, p)
    BY <1>2, <1>3, <1>5, <1>6 DEF HoldsRow
  <2> QED
    BY <2>1, <2>2 DEF GoesOn
<1>9. ASSUME NEW p \in Product
      PROVE  prodLock'[p] = t <=> HoldsProduct(t, p)'
  <2>1. prodLock[p] = t <=> HoldsProduct(t, p)
    BY <1>7 DEF LocksFollow
  <2>2. HoldsProduct(t, p)' <=>
          HoldsProduct(t, p) \/ (o.kind \in {"call", "update"} /\ p = o.product)
    BY <1>2, <1>3, <1>4 DEF HoldsProduct
  <2> QED
    BY <2>1, <2>2 DEF o
<1>10. ASSUME NEW x \in Paper
       PROVE  paperLock'[x] = t <=> HoldsPaper(t, x)'
  <2>1. paperLock[x] = t <=> HoldsPaper(t, x)
    BY <1>7 DEF LocksFollow
  <2>2. HoldsPaper(t, x)' <=> HoldsPaper(t, x) \/ (o.kind = "paper" /\ x = o.paper)
    BY <1>2, <1>3, <1>4 DEF HoldsPaper
  <2> QED
    BY <2>1, <2>2 DEF o
<1>11. LocksFollow(t)'
  BY <1>3, <1>8, <1>9, <1>10 DEF LocksFollow
<1>12. ASSUME NEW u \in Tx, u # t PROVE LocksFollow(u)'
  <2>1. \A p \in Product : prodLock'[p] = u <=> prodLock[p] = u
    BY <1>12, FreeAssumption
  <2>2. \A x \in Paper : paperLock'[x] = u <=> paperLock[x] = u
    BY <1>12, FreeAssumption
  <2>3. \A b \in Branch, p \in Product : rowLock'[b][p] = u <=> rowLock[b][p] = u
    BY DEF GoesOn
  <2>4. LocksFollow(u)
    BY <1>1 DEF LocksFollowCalls
  <2> QED
    BY <1>3, <1>12, <2>1, <2>2, <2>3, <2>4, Undisturbed
<1>13. LocksFollowCalls'
  BY <1>11, <1>12 DEF LocksFollowCalls
<1>14. SortedPrograms'
  BY <1>1, SameSorting DEF GoesOn
<1> QED
  BY <1>13, <1>14

\* A handler that sorts is past its first statement only with a document that
\* was approved, or shipped, when it locked it; others cannot change that.
LEMMA SentInTimeKept ==
  ASSUME IInv, LockInv, NEW t \in Tx, GoesOn(t),
         Call(t).kind = "paper" => ~Refused(t)
  PROVE  SentInTime'
<1>1. TypeOK /\ SortedPrograms /\ SentInTime
  BY DEF IInv, LockInv
<1>2. /\ status[t] = "running" /\ pos[t] \in DOMAIN prog[t] /\ prog[t][pos[t]] = Call(t)
      /\ pos[t] \in Nat \ {0}
  BY <1>1, StatementType DEF GoesOn
<1> SUFFICES ASSUME NEW u \in Tx, status'[u] = "running", pos'[u] > 1
             PROVE  /\ asked'[u].kind = "dispatch" => asked'[u].doc \notin sent'
                    /\ asked'[u].kind = "receipt" => asked'[u].doc \in sent'
  BY DEF SentInTime
<1>3. CASE u # t
  <2>1. pos'[u] = pos[u] /\ status'[u] = status[u] /\ asked'[u] = asked[u] /\ sent' = sent
    BY <1>1, <1>3 DEF GoesOn, TypeOK
  <2> QED
    BY <1>1, <2>1 DEF SentInTime
<1>4. CASE u = t /\ pos[t] > 1
  BY <1>1, <1>2, <1>4 DEF SentInTime, GoesOn
<1>5. CASE u = t /\ pos[t] = 1
  <2>1. asked[t].kind = "dispatch" => Call(t) = Parent(asked[t].doc)
    BY <1>1, <1>2, <1>5 DEF SortedPrograms, IsDispatch
  <2>2. asked[t].kind = "receipt" => Call(t) = Shipment(asked[t].doc)
    BY <1>1, <1>2, <1>5 DEF SortedPrograms, IsReceipt
  <2>3. asked[t].kind \in Sorting => Call(t).kind = "paper"
    BY <2>1, <2>2 DEF Sorting, Parent, Shipment
  <2>4. asked[t].kind = "dispatch" => asked[t].doc \notin sent
    BY <2>3 DEF Refused, Sorting
  <2>5. asked[t].kind = "receipt" => asked[t].doc \in sent
    BY <2>3 DEF Refused, Sorting
  <2> QED
    BY <1>5, <2>4, <2>5 DEF GoesOn
<1> QED
  BY <1>2, <1>3, <1>4, <1>5

\* The statements that end: a call, with its product locked; a product, locked
\* for a sale or referred to; a document.
LEMMA EndsLockInv ==
  ASSUME IInv, LockInv, NEW t \in Tx,
         WriteProduct(t) \/ LockProduct(t) \/ ReferToProduct(t) \/ (LockPaper(t) /\ ~Refused(t))
  PROVE  LockInv'
<1>1. TypeOK /\ LocksFollow(t)
  BY DEF IInv, LockInv, LocksFollowCalls
<1>2. Call(t).kind # "call" => phase[t] = "lock"
  BY <1>1 DEF LocksFollow
<1>3. phase[t] = "lock" => phase = [phase EXCEPT ![t] = "lock"]
  BY <1>1 DEF TypeOK
<1>4. CASE WriteProduct(t)
  <2>1. Call(t) \in Op /\ InCall(t) /\ Active(t)
    BY <1>1, <1>4, CallType DEF WriteProduct, InCall, At
  <2>2. Call(t).product \in Product /\ Call(t).kind = "call"
    BY <2>1 DEF Op
  <2>3. /\ prodLock[Call(t).product] \in {Free, t}
        /\ prodLock' = [prodLock EXCEPT ![Call(t).product] = t]
        /\ UNCHANGED paperLock
    BY <1>4 DEF WriteProduct, ProductAvailable
  <2>4. GoesOn(t)
    BY <1>4, <2>1, <2>2 DEF GoesOn, WriteProduct, NextCall, program, committed
  <2>5. \A p \in Product : prodLock'[p] = IF p = Call(t).product THEN t ELSE prodLock[p]
    BY <1>1, <2>2, <2>3 DEF TypeOK
  <2>6. LocksFollowCalls' /\ SortedPrograms'
    BY <2>2, <2>3, <2>4, <2>5, StatementEnds
  <2>7. SentInTime'
    BY <2>2, <2>4, SentInTimeKept
  <2> QED
    BY <2>6, <2>7 DEF LockInv
<1>5. CASE LockProduct(t)
  <2>1. Call(t) \in ProductRow /\ Active(t) /\ Call(t).kind = "update"
    BY <1>1, <1>5, ProductRowType DEF LockProduct, At
  <2>2. Call(t).product \in Product
    BY <2>1 DEF ProductRow
  <2>3. /\ prodLock[Call(t).product] \in {Free, t}
        /\ prodLock' = [prodLock EXCEPT ![Call(t).product] = t]
        /\ UNCHANGED paperLock
    BY <1>5 DEF LockProduct, ProductAvailable
  <2>4. GoesOn(t)
    BY <1>2, <1>3, <1>5, <2>1 DEF GoesOn, LockProduct, NextCall, program, committed
  <2>5. \A p \in Product : prodLock'[p] = IF p = Call(t).product THEN t ELSE prodLock[p]
    BY <1>1, <2>2, <2>3 DEF TypeOK
  <2>6. LocksFollowCalls' /\ SortedPrograms'
    BY <2>1, <2>3, <2>4, <2>5, StatementEnds
  <2>7. SentInTime'
    BY <2>1, <2>4, SentInTimeKept
  <2> QED
    BY <2>6, <2>7 DEF LockInv
<1>6. CASE ReferToProduct(t)
  <2>1. Active(t) /\ Call(t).kind = "refer" /\ UNCHANGED <<prodLock, paperLock>>
    BY <1>6 DEF ReferToProduct, At, locks
  <2>2. GoesOn(t)
    BY <1>2, <1>3, <1>6, <2>1 DEF GoesOn, ReferToProduct, NextCall, program, committed, locks
  <2>3. LocksFollowCalls' /\ SortedPrograms'
    BY <2>1, <2>2, StatementEnds
  <2>4. SentInTime'
    BY <2>1, <2>2, SentInTimeKept
  <2> QED
    BY <2>3, <2>4 DEF LockInv
<1>7. CASE LockPaper(t) /\ ~Refused(t)
  <2>1. Call(t) \in PaperRow /\ Active(t) /\ Call(t).kind = "paper"
    BY <1>1, <1>7, PaperRowType DEF LockPaper, At
  <2>2. Call(t).paper \in Paper
    BY <2>1 DEF PaperRow
  <2>3. /\ paperLock[Call(t).paper] \in {Free, t}
        /\ paperLock' = [paperLock EXCEPT ![Call(t).paper] = t]
        /\ pos' = [pos EXCEPT ![t] = @ + 1]
        /\ UNCHANGED <<sent, rowLock, prodLock, status, prog, asked, phase>>
    BY ZenonT(60), <1>7 DEF LockPaper, PaperAvailable, NextCall, committed, program
  <2>4. GoesOn(t)
    BY <1>2, <1>3, <2>1, <2>3 DEF GoesOn
  <2>5. \A x \in Paper : paperLock'[x] = IF x = Call(t).paper THEN t ELSE paperLock[x]
    BY <1>1, <2>2, <2>3 DEF TypeOK
  <2>6. LocksFollowCalls' /\ SortedPrograms'
    BY <2>1, <2>3, <2>4, <2>5, StatementEnds
  <2>7. SentInTime'
    BY <1>7, <2>4, SentInTimeKept
  <2> QED
    BY <2>6, <2>7 DEF LockInv
<1> QED
  BY <1>4, <1>5, <1>6, <1>7

\* The end of a transaction, one way or the other, gives up its locks.  A
\* document that is dispatched by it is locked by no other dispatch.
LEMMA EndLockInv ==
  ASSUME IInv, LockInv, NEW t \in Tx, Commit(t) \/ Abort(t)
  PROVE  LockInv'
<1>1. TypeOK /\ LocksFollowCalls /\ SortedPrograms /\ SentInTime
  BY DEF IInv, LockInv
<1>2. /\ Release(t) /\ UNCHANGED <<prog, asked, pos, phase>>
      /\ \/ status' = [status EXCEPT ![t] = "committed"]
         \/ status' = [status EXCEPT ![t] = "aborted"]
  BY DEF Commit, Abort, program
<1>3. /\ status'[t] # "running" /\ status'[t] # "idle"
      /\ \A u \in Tx : u # t => status'[u] = status[u]
  BY <1>1, <1>2 DEF TypeOK
<1>4. ASSUME NEW u \in Tx
      PROVE  /\ \A b \in Branch, p \in Product : rowLock'[b][p] = u <=> u # t /\ rowLock[b][p] = u
             /\ \A p \in Product : prodLock'[p] = u <=> u # t /\ prodLock[p] = u
             /\ \A x \in Paper : paperLock'[x] = u <=> u # t /\ paperLock[x] = u
  BY <1>2, FreeAssumption DEF Release
<1>5. LocksFollow(t)'
  <2>1. Call(t)' = Call(t)
    BY <1>2 DEF Call
  <2>2. phase'[t] # "lock" => pos'[t] \in DOMAIN prog'[t] /\ Call(t)'.kind = "call"
    BY <1>1, <1>2, <2>1 DEF LocksFollowCalls, LocksFollow
  <2> QED
    BY <1>3, <1>4, <2>2 DEF LocksFollow, HoldsRow, HoldsProduct, HoldsPaper
<1>6. ASSUME NEW u \in Tx, u # t PROVE LocksFollow(u)'
  BY <1>1, <1>2, <1>3, <1>4, <1>6, Undisturbed DEF LocksFollowCalls
<1>7. LocksFollowCalls'
  BY <1>5, <1>6 DEF LocksFollowCalls
<1>8. SortedPrograms'
  BY <1>1, <1>2, SameSorting
<1>9. SentInTime'
  <2> SUFFICES ASSUME NEW u \in Tx, status'[u] = "running", pos'[u] > 1
               PROVE  /\ asked'[u].kind = "dispatch" => asked'[u].doc \notin sent'
                      /\ asked'[u].kind = "receipt" => asked'[u].doc \in sent'
    BY DEF SentInTime
  <2>1. u # t /\ status[u] = "running" /\ pos[u] > 1 /\ asked'[u] = asked[u]
    BY <1>2, <1>3
  <2>2. /\ asked[u].kind = "dispatch" => asked[u].doc \notin sent
        /\ asked[u].kind = "receipt" => asked[u].doc \in sent
    BY <1>1, <2>1 DEF SentInTime
  <2>3. CASE sent' = sent
    BY <2>1, <2>2, <2>3
  <2>4. CASE sent' # sent
    <3>1. /\ asked[t].kind = "dispatch" /\ sent' = sent \cup {asked[t].doc}
          /\ status[t] = "running" /\ pos[t] > Len(prog[t])
      BY <2>4 DEF Commit, Abort, committed
    <3>2. ASSUME asked[u].kind = "dispatch", asked[u].doc = asked[t].doc PROVE FALSE
      <4> DEFINE x == [doc |-> asked[t].doc, part |-> "parent"]
      <4>1. asked[t].doc \in Doc /\ x \in Paper
        BY <1>1, <3>1 DEF SortedPrograms, Sorting, Paper
      <4>2. /\ prog[t] # <<>> /\ prog[t][1] = Parent(asked[t].doc)
            /\ prog[u] # <<>> /\ prog[u][1] = Parent(asked[t].doc)
        BY <1>1, <3>1, <3>2 DEF SortedPrograms, IsDispatch
      <4>3. /\ prog[t] \in Seq(Statement) /\ prog[u] \in Seq(Statement)
            /\ pos[t] \in Nat /\ pos[u] \in Nat
        BY <1>1 DEF TypeOK
      <4>4. 1 \in Done(t) /\ 1 \in Done(u)
        <5>1. Len(prog[t]) \in Nat \ {0} /\ 1 \in DOMAIN prog[t] /\ 1 \in DOMAIN prog[u]
          BY <4>2, <4>3
        <5> QED
          BY <2>1, <3>1, <4>3, <5>1 DEF Done
      <4>5. HoldsPaper(t, x) /\ HoldsPaper(u, x)
        BY <2>1, <3>1, <4>2, <4>4 DEF HoldsPaper, Parent
      <4>6. paperLock[x] = t /\ paperLock[x] = u
        BY <1>1, <4>1, <4>5 DEF LocksFollowCalls, LocksFollow
      <4> QED
        BY <2>1, <4>6
    <3> QED
      BY <2>1, <2>2, <3>1, <3>2
  <2> QED
    BY <2>3, <2>4
<1> QED
  BY <1>7, <1>8, <1>9 DEF LockInv

LEMMA NextLockInv == IInv /\ LockInv /\ [Next]_vars => LockInv'
<1> SUFFICES ASSUME IInv, LockInv, [Next]_vars PROVE LockInv'
  OBVIOUS
<1>1. CASE Next
  <2>1. PICK t \in Tx : Begin(t) \/ Step(t) \/ Rollback(t) \/ DeadlockVictim(t)
    BY <1>1 DEF Next
  <2>2. CASE Begin(t)
    BY <2>2, BeginLockInv
  <2>3. CASE LockAndApply(t)
    BY <2>3, ApplyLockInv
  <2>4. CASE ReadTotal(t)
    BY <2>4, ReadLockInv
  <2>5. CASE WriteProduct(t) \/ LockProduct(t) \/ ReferToProduct(t) \/ (LockPaper(t) /\ ~Refused(t))
    BY <2>5, EndsLockInv
  <2>6. CASE Commit(t) \/ Abort(t)
    BY <2>6, EndLockInv
  <2> QED
    BY <2>1, <2>2, <2>3, <2>4, <2>5, <2>6, StepCases DEF Quiet
<1>2. CASE UNCHANGED vars
  <2>1. UNCHANGED <<sent, rowLock, prodLock, paperLock, status, prog, asked, pos, phase>>
    BY <1>2 DEF vars, committed, locks, program, local
  <2>2. SortedPrograms' /\ SentInTime'
    BY <2>1, SameSorting DEF LockInv, SentInTime
  <2>3. ASSUME NEW u \in Tx PROVE LocksFollow(u)'
    BY <2>1, Undisturbed DEF LockInv, LocksFollowCalls
  <2> QED
    BY <2>2, <2>3 DEF LockInv, LocksFollowCalls
<1> QED
  BY <1>1, <1>2

\* A running transaction holds exactly the rows of the statements it has come
\* to, and its document is dispatched no sooner and no later than it takes it to
\* be.
THEOREM LocksAreTheCalls == Spec => []LockInv
<1>1. Init => IInv /\ LockInv
  BY InitIInv, InitLockInv
<1>2. (IInv /\ LockInv) /\ [Next]_vars => (IInv /\ LockInv)'
  BY NextIInv, NextLockInv
<1> QED
  BY <1>1, <1>2, PTL DEF Spec

\* Where a dispatch or a receipt can wait: at its first paper, in a call, or, a
\* receipt, at its document.
Entering(t, u) ==
  /\ pos[t] = 1 /\ Call(t).kind = "paper" /\ paperLock[Call(t).paper] = u
Calling(t, u) ==
  /\ Call(t).kind = "call"
  /\ \/ phase[t] = "lock" /\ rowLock[Call(t).branch][Call(t).product] = u
     \/ phase[t] = "product" /\ prodLock[Call(t).product] = u
Leaving(t, u) ==
  /\ asked[t].kind = "receipt" /\ pos[t] > 1
  /\ Call(t) = Parent(asked[t].doc) /\ paperLock[Call(t).paper] = u

\* A statement of a handler that sorts is a call or locks a paper, and only a
\* receipt locks one after its calls.
LEMMA SortingStatement ==
  ASSUME TypeOK, LockInv, NEW t \in Tx, asked[t].kind \in Sorting, NEW i \in DOMAIN prog[t]
  PROVE  /\ i \in Nat /\ i >= 1 /\ i <= Len(prog[t])
         /\ prog[t][i] \in Op \/ prog[t][i] \in PaperRow
         /\ prog[t][i] \in Op <=> prog[t][i].kind = "call"
         /\ asked[t].kind = "dispatch" /\ prog[t][i].kind = "paper" =>
              i = 1 /\ prog[t][i] = Parent(asked[t].doc)
         /\ asked[t].kind = "receipt" /\ prog[t][i].kind = "paper" =>
              \/ i = 1 /\ prog[t][i] = Shipment(asked[t].doc)
              \/ i = Len(prog[t]) /\ prog[t][i] = Parent(asked[t].doc)
<1>1. /\ prog[t] \in Seq(Statement) /\ asked[t].doc \in Doc
      /\ asked[t].kind = "dispatch" => IsDispatch(prog[t], asked[t].doc)
      /\ asked[t].kind = "receipt" => IsReceipt(prog[t], asked[t].doc)
  BY DEF TypeOK, LockInv, SortedPrograms
<1>2. /\ i \in Nat /\ i >= 1 /\ i <= Len(prog[t]) /\ prog[t][i] \in Statement
  BY <1>1
<1>3. /\ Parent(asked[t].doc).kind = "paper" /\ Shipment(asked[t].doc).kind = "paper"
  BY DEF Parent, Shipment
<1>4. asked[t].kind = "dispatch" =>
        \/ prog[t][i].kind = "call"
        \/ i = 1 /\ prog[t][i] = Parent(asked[t].doc)
  <2> SUFFICES ASSUME asked[t].kind = "dispatch"
               PROVE  prog[t][i].kind = "call" \/ (i = 1 /\ prog[t][i] = Parent(asked[t].doc))
    OBVIOUS
  <2>1. prog[t][1] = Parent(asked[t].doc) /\ (i # 1 => prog[t][i].kind = "call")
    BY <1>1 DEF IsDispatch
  <2> QED
    BY <2>1
<1>5. asked[t].kind = "receipt" =>
        \/ prog[t][i].kind = "call"
        \/ i = 1 /\ prog[t][i] = Shipment(asked[t].doc)
        \/ i = Len(prog[t]) /\ prog[t][i] = Parent(asked[t].doc)
  BY <1>1 DEF IsReceipt
<1>6. prog[t][i].kind = "call" \/ prog[t][i].kind = "paper"
  BY <1>3, <1>4, <1>5 DEF Sorting
<1>7. prog[t][i] \in Op \/ prog[t][i] \in PaperRow
  BY <1>2, <1>6 DEF Statement, Op, ProductRow, PaperRow
<1>8. prog[t][i] \in Op <=> prog[t][i].kind = "call"
  BY <1>7 DEF Op, PaperRow
<1>9. prog[t][i].kind = "paper" => prog[t][i].kind # "call"
  OBVIOUS
<1> QED
  BY <1>2, <1>4, <1>5, <1>7, <1>8, <1>9

LEMMA WaitingSorted ==
  ASSUME TypeOK, LockInv, NEW t \in Tx, asked[t].kind \in Sorting, NEW u \in Tx, WaitsFor(t, u)
  PROVE  /\ t # u /\ status[t] = "running" /\ pos[t] \in DOMAIN prog[t] /\ pos[t] \in Nat
         /\ Entering(t, u) \/ Calling(t, u) \/ Leaving(t, u)
<1>1. t # u /\ Active(t) /\ pos[t] \in Nat \ {0} /\ prog[t] \in Seq(Statement)
  BY DEF WaitsFor, InCall, At, TypeOK
<1>2. status[t] = "running" /\ pos[t] \in DOMAIN prog[t]
  BY <1>1 DEF Active
<1>3. /\ prog[t][pos[t]].kind = "call" \/ prog[t][pos[t]].kind = "paper"
      /\ prog[t][pos[t]].kind = "paper" /\ pos[t] # 1 =>
           asked[t].kind = "receipt" /\ prog[t][pos[t]] = Parent(asked[t].doc)
  BY <1>2, SortingStatement DEF Sorting, Op, PaperRow
<1>4. CASE Call(t).kind = "call"
  <2>1. Calling(t, u)
    BY <1>4 DEF WaitsFor, At, Calling
  <2> QED
    BY <1>1, <1>2, <2>1
<1>5. CASE Call(t).kind = "paper"
  <2>1. paperLock[Call(t).paper] = u
    BY <1>5 DEF WaitsFor, InCall, At
  <2>2. CASE pos[t] = 1
    BY <1>1, <1>2, <1>5, <2>1, <2>2 DEF Entering
  <2>3. CASE pos[t] # 1
    <3>1. asked[t].kind = "receipt" /\ Call(t) = Parent(asked[t].doc) /\ pos[t] > 1
      BY <1>1, <1>3, <1>5, <2>3 DEF Call
    <3> QED
      BY <1>1, <1>2, <2>1, <3>1 DEF Leaving
  <2> QED
    BY <2>2, <2>3
<1> QED
  BY <1>3, <1>4, <1>5 DEF Call

\* The holder of a paper has executed the statement that locked it.
LEMMA PaperHolder ==
  ASSUME TypeOK, LockInv, NEW u \in Tx, NEW x \in Paper, paperLock[x] = u
  PROVE  \E i \in DOMAIN prog[u] : i < pos[u] /\ prog[u][i].kind = "paper" /\ prog[u][i].paper = x
BY DEF LockInv, LocksFollowCalls, LocksFollow, HoldsPaper, Done

\* A receipt that comes to its document does not find it held by another handler
\* that sorts and waits: a receipt that has locked it is at its end, and a
\* dispatch of the same document would have been refused.
LEMMA NobodyLeaves ==
  ASSUME TypeOK, LockInv,
         NEW t \in Tx, asked[t].kind \in Sorting, NEW u \in Tx, asked[u].kind \in Sorting,
         NEW v \in Tx, WaitsFor(t, u), WaitsFor(u, v), Leaving(t, u)
  PROVE  FALSE
<1> DEFINE d == asked[t].doc
           x == [doc |-> d, part |-> "parent"]
<1>1. /\ asked[t].kind = "receipt" /\ pos[t] > 1 /\ status[t] = "running"
      /\ d \in Doc /\ x \in Paper /\ Parent(d) = [kind |-> "paper", paper |-> x]
      /\ Call(t) = Parent(d) /\ paperLock[Call(t).paper] = u
  BY WaitingSorted DEF Leaving, LockInv, SortedPrograms, Paper, Parent
<1>2. paperLock[x] = u
  BY <1>1
<1>3. PICK i \in DOMAIN prog[u] : i < pos[u] /\ prog[u][i].kind = "paper" /\ prog[u][i].paper = x
  BY <1>1, <1>2, PaperHolder
<1>4. /\ status[u] = "running" /\ pos[u] \in DOMAIN prog[u] /\ pos[u] \in Nat
      /\ pos[u] <= Len(prog[u]) /\ i \in Nat /\ i >= 1 /\ Len(prog[u]) \in Nat
  <2>1. prog[u] \in Seq(Statement)
    BY DEF TypeOK
  <2> QED
    BY <1>3, <2>1, WaitingSorted, SortingStatement
<1>5. asked[u].kind # "receipt"
  <2> SUFFICES ASSUME asked[u].kind = "receipt" PROVE FALSE
    OBVIOUS
  <2>1. i # Len(prog[u])
    BY <1>3, <1>4
  <2>2. prog[u][i] = Shipment(asked[u].doc)
    BY <1>3, <2>1, SortingStatement
  <2>3. prog[u][i].paper.part = "shipment"
    BY <2>2 DEF Shipment
  <2> QED
    BY <1>3, <2>3
<1>6. asked[u].kind = "dispatch" /\ prog[u][i] = Parent(asked[u].doc)
  BY <1>3, <1>5, SortingStatement DEF Sorting
<1>7. asked[u].doc = d
  BY <1>3, <1>6 DEF Parent
<1>8. pos[u] > 1
  BY <1>3, <1>4
<1> QED
  BY <1>1, <1>4, <1>6, <1>7, <1>8 DEF LockInv, SentInTime

\* A handler that waits in a call for another that waits in one: it stands at a
\* product that comes no later, and at the same product in an earlier phase.
LEMMA CallingUphill ==
  ASSUME TypeOK, LockInv,
         NEW t \in Tx, asked[t].kind \in Sorting, NEW u \in Tx, asked[u].kind \in Sorting,
         NEW v \in Tx, WaitsFor(t, u), WaitsFor(u, v), Calling(t, u), Calling(u, v)
  PROVE  /\ ProductId[Call(t).product] <= ProductId[Call(u).product]
         /\ ProductId[Call(t).product] = ProductId[Call(u).product] =>
              phase[t] = "lock" /\ phase[u] = "product"
<1> DEFINE b == Call(t).branch
           p == Call(t).product
           c == Call(u).branch
           q == Call(u).product
<1>1. /\ b \in Branch /\ p \in Product /\ c \in Branch /\ q \in Product
      /\ status[u] = "running" /\ pos[u] \in DOMAIN prog[u] /\ prog[u][pos[u]] = Call(u)
      /\ pos[u] \in Nat /\ prog[u][pos[u]].kind = "call" /\ u # v
  <2>1. /\ pos[t] \in DOMAIN prog[t] /\ pos[u] \in DOMAIN prog[u] /\ pos[u] \in Nat
        /\ status[u] = "running" /\ u # v
    BY WaitingSorted
  <2>2. Call(t) \in Op /\ Call(u) \in Op
    BY <2>1, SortingStatement DEF Calling, Call
  <2> QED
    BY <2>1, <2>2 DEF Op, Call, Calling
<1>2. /\ \/ phase[t] = "lock" /\ rowLock[b][p] = u
         \/ phase[t] = "product" /\ prodLock[p] = u
      /\ \/ phase[u] = "lock" /\ rowLock[c][q] = v
         \/ phase[u] = "product" /\ prodLock[q] = v
  BY DEF Calling
<1>3. /\ rowLock[b][p] = u <=> HoldsRow(u, b, p)
      /\ rowLock[c][p] = u <=> HoldsRow(u, c, p)
      /\ prodLock[p] = u <=> HoldsProduct(u, p)
  BY <1>1 DEF LockInv, LocksFollowCalls, LocksFollow
<1>4. ProductId[p] \in Nat /\ ProductId[q] \in Nat /\ (ProductId[p] = ProductId[q] => p = q)
  BY <1>1, ProductIdAssumption
<1> HIDE DEF b, p, c, q
<1>5. ASSUME NEW i \in DOMAIN prog[u], i < pos[u], prog[u][i].kind = "call", prog[u][i].product = p
      PROVE  ProductId[p] <= ProductId[q] /\ prog[u][i].branch = c
  <2>1. CallsInOrder(prog[u])
    BY DEF LockInv, SortedPrograms
  <2> QED
    BY <1>1, <1>5, <2>1 DEF CallsInOrder, c, q
<1>6. CASE phase[t] = "lock" /\ rowLock[b][p] = u
  <2>1. PICK i \in Locked(u) :
          prog[u][i].kind = "call" /\ prog[u][i].branch = b /\ prog[u][i].product = p
    BY <1>3, <1>6 DEF HoldsRow
  <2>2. CASE i = pos[u]
    <3>1. q = p /\ phase[u] = "product"
      BY <1>1, <1>2, <2>1, <2>2 DEF Locked, q
    <3> QED
      BY <1>4, <1>6, <3>1 DEF p, q
  <2>3. CASE i # pos[u]
    <3>1. i \in DOMAIN prog[u] /\ i < pos[u]
      BY <2>1, <2>3 DEF Locked
    <3>2. ProductId[p] <= ProductId[q] /\ b = c
      BY <1>5, <2>1, <3>1
    <3>3. ProductId[p] = ProductId[q] => phase[u] # "lock"
      BY <1>1, <1>2, <1>4, <1>6, <3>2
    <3> QED
      BY <1>2, <1>6, <3>2, <3>3 DEF p, q
  <2> QED
    BY <2>2, <2>3
<1>7. CASE phase[t] = "product" /\ prodLock[p] = u
  <2>1. PICK i \in DOMAIN prog[u] :
          i < pos[u] /\ prog[u][i].kind \in {"call", "update"} /\ prog[u][i].product = p
    BY <1>3, <1>7 DEF HoldsProduct, Done
  <2>2. prog[u][i].kind = "call"
    BY <2>1, SortingStatement DEF Op, PaperRow
  <2>3. ProductId[p] <= ProductId[q] /\ prog[u][i].branch = c
    BY <1>5, <2>1, <2>2
  <2>4. rowLock[c][p] = u
    BY <1>1, <1>3, <2>1, <2>2, <2>3 DEF HoldsRow, Locked
  <2>5. ProductId[p] = ProductId[q] => phase[u] = "product"
    BY <1>1, <1>2, <1>4, <2>4
  <2>6. ProductId[p] # ProductId[q]
    <3> SUFFICES ASSUME ProductId[p] = ProductId[q] PROVE FALSE
      OBVIOUS
    <3>1. p = q /\ phase[u] = "product" /\ prodLock[q] = v
      BY <1>2, <1>4, <2>5
    <3> QED
      BY <1>1, <1>7, <3>1
  <2> QED
    BY <2>3, <2>6 DEF p, q
<1> QED
  BY <1>2, <1>6, <1>7

LEMMA SortedNeverCircle ==
  ASSUME TypeOK, LockInv
  PROVE  NoWaitCycle
<1> SUFFICES ASSUME NEW S \in SUBSET {t \in Tx : TakesRowsInOrder(t)}, WaitCycle(S)
             PROVE  FALSE
  BY DEF NoWaitCycle
<1>1. /\ S # {}
      /\ \A t \in S : t \in Tx /\ asked[t].kind \in Sorting /\ \E u \in S : WaitsFor(t, u)
  BY DEF WaitCycle, TakesRowsInOrder
<1>2. PICK bound \in Nat : \A p \in Product : ProductId[p] <= bound
  BY FiniteBound, ProductIdAssumption
<1> DEFINE Height(t) ==
             IF Call(t).kind = "call"
             THEN 1 + 2 * ProductId[Call(t).product] + (IF phase[t] = "product" THEN 1 ELSE 0)
             ELSE IF pos[t] = 1 THEN 0 ELSE 2 * bound + 3
           rank == [t \in S |-> Height(t)]
<1>3. ASSUME NEW t \in S, Call(t).kind = "call"
      PROVE  ProductId[Call(t).product] \in Nat /\ ProductId[Call(t).product] <= bound
  <2>1. PICK u \in S : WaitsFor(t, u)
    BY <1>1
  <2>2. pos[t] \in DOMAIN prog[t]
    BY <1>1, <2>1, WaitingSorted
  <2>3. Call(t) \in Op
    BY <1>1, <1>3, <2>2, SortingStatement DEF Call
  <2> QED
    BY <1>2, <2>3, ProductIdAssumption DEF Op
<1>4. \A t \in S : Height(t) \in Nat /\ Height(t) <= 2 * bound + 3
  <2> SUFFICES ASSUME NEW t \in S PROVE Height(t) \in Nat /\ Height(t) <= 2 * bound + 3
    OBVIOUS
  <2>1. CASE Call(t).kind = "call"
    BY <1>3, <2>1
  <2>2. CASE Call(t).kind # "call"
    BY <2>2
  <2> QED
    BY <2>1, <2>2
<1>5. PICK t \in S : \A u \in S : Height(u) <= Height(t)
  <2> HIDE DEF Height
  <2>1. rank \in [S -> Nat] /\ \A x \in S : rank[x] <= 2 * bound + 3
    BY <1>4
  <2>2. 2 * bound + 3 \in Nat
    OBVIOUS
  <2>3. \E m \in S : \A x \in S : rank[x] <= rank[m]
    <3> HIDE DEF rank
    <3> QED
      BY <1>1, <2>1, <2>2, GreatestRank
  <2> QED
    BY <2>3
<1>6. PICK u \in S : WaitsFor(t, u)
  BY <1>1
<1>7. PICK v \in S : WaitsFor(u, v)
  BY <1>1
<1>8. /\ t \in Tx /\ u \in Tx /\ v \in Tx /\ asked[t].kind \in Sorting /\ asked[u].kind \in Sorting
      /\ Height(u) <= Height(t)
  BY <1>1, <1>5
<1> HIDE DEF rank
<1>9. /\ Entering(t, u) \/ Calling(t, u) \/ Leaving(t, u)
      /\ Entering(u, v) \/ Calling(u, v) \/ Leaving(u, v)
      /\ pos[t] \in DOMAIN prog[t] /\ pos[t] \in Nat /\ pos[u] \in DOMAIN prog[u] /\ pos[u] \in Nat
  <2> HIDE DEF Height
  <2> QED
    BY <1>6, <1>7, <1>8, WaitingSorted
<1>10. CASE Entering(t, u)
  <2>1. Call(t).paper \in Paper /\ paperLock[Call(t).paper] = u
    <3>1. Call(t) \in PaperRow
      BY <1>8, <1>9, <1>10, SortingStatement DEF Entering, Call, Op
    <3> QED
      BY <1>10, <3>1 DEF Entering, PaperRow
  <2>2. PICK i \in DOMAIN prog[u] : i < pos[u]
    BY <1>8, <2>1, PaperHolder
  <2>3. pos[u] # 1
    BY <1>8, <1>9, <2>2, SortingStatement
  <2>4. Height(t) = 0
    BY <1>10 DEF Entering
  <2>5. Height(u) > 0
    BY <1>3, <2>3
  <2>6. Height(u) <= Height(t) /\ Height(u) \in Nat
    BY <1>4, <1>8
  <2> HIDE DEF Height
  <2> QED
    BY <2>4, <2>5, <2>6
<1>11. CASE Leaving(t, u)
  <2> HIDE DEF Height
  <2> QED
    BY <1>6, <1>7, <1>8, <1>11, NobodyLeaves
<1>12. CASE Calling(t, u)
  <2>1. Height(t) <= 2 * bound + 2
    BY <1>3, <1>12 DEF Calling
  <2>2. pos[u] # 1
    <3>1. Call(t) \in Op
      BY <1>8, <1>9, <1>12, SortingStatement DEF Calling, Call
    <3>2. \/ rowLock[Call(t).branch][Call(t).product] = u
          \/ prodLock[Call(t).product] = u
      BY <1>12 DEF Calling
    <3>3. \/ HoldsRow(u, Call(t).branch, Call(t).product)
          \/ HoldsProduct(u, Call(t).product)
      BY <1>8, <3>1, <3>2 DEF LockInv, LocksFollowCalls, LocksFollow, Op
    <3>4. PICK i \in DOMAIN prog[u] : i < pos[u] \/ (i = pos[u] /\ prog[u][i].kind = "call")
      BY <3>3 DEF HoldsRow, HoldsProduct, Locked, Done
    <3> SUFFICES ASSUME pos[u] = 1 PROVE FALSE
      OBVIOUS
    <3>5. 1 \in DOMAIN prog[u] /\ prog[u][1].kind = "call"
      BY <1>8, <1>9, <3>4, SortingStatement
    <3>6. prog[u][1].kind = "paper"
      <4>1. /\ asked[u].kind = "dispatch" => IsDispatch(prog[u], asked[u].doc)
            /\ asked[u].kind = "receipt" => IsReceipt(prog[u], asked[u].doc)
        BY <1>8 DEF LockInv, SortedPrograms
      <4>2. prog[u][1] = Parent(asked[u].doc) \/ prog[u][1] = Shipment(asked[u].doc)
        BY <1>8, <4>1 DEF Sorting, IsDispatch, IsReceipt
      <4> QED
        BY <4>2 DEF Parent, Shipment
    <3> QED
      BY SMTT(30), <3>5, <3>6
  <2>3. Calling(u, v)
    <3>1. CASE Leaving(u, v)
      <4>1. Call(u).kind = "paper" /\ pos[u] # 1
        BY <2>2, <3>1 DEF Leaving, Parent
      <4>2. Height(u) = 2 * bound + 3
        BY <4>1
      <4>3. Height(u) <= Height(t) /\ Height(t) \in Nat
        BY <1>4, <1>8
      <4> HIDE DEF Height
      <4> QED
        BY <2>1, <4>2, <4>3
    <3> QED
      BY <1>9, <2>2, <3>1 DEF Entering
  <2>4. /\ ProductId[Call(t).product] <= ProductId[Call(u).product]
        /\ ProductId[Call(t).product] = ProductId[Call(u).product] =>
             phase[t] = "lock" /\ phase[u] = "product"
    <3> HIDE DEF Height
    <3> QED
      BY <1>6, <1>7, <1>8, <1>12, <2>3, CallingUphill
  <2>5. /\ Call(t).kind = "call" /\ Call(u).kind = "call"
        /\ ProductId[Call(t).product] \in Nat /\ ProductId[Call(u).product] \in Nat
    BY <1>3, <1>12, <2>3 DEF Calling
  <2>6. Height(u) > Height(t)
    <3> DEFINE p == ProductId[Call(t).product]
               q == ProductId[Call(u).product]
    <3>1. /\ Height(t) = 1 + 2 * p + (IF phase[t] = "product" THEN 1 ELSE 0)
          /\ Height(u) = 1 + 2 * q + (IF phase[u] = "product" THEN 1 ELSE 0)
          /\ p \in Nat /\ q \in Nat /\ p <= q
          /\ p = q => phase[t] = "lock" /\ phase[u] = "product"
      BY <2>4, <2>5
    <3> HIDE DEF Height, p, q
    <3> QED
      BY <3>1
  <2>7. Height(u) <= Height(t) /\ Height(u) \in Nat /\ Height(t) \in Nat
    BY <1>4, <1>8
  <2> HIDE DEF Height
  <2> QED
    BY <2>6, <2>7
<1> QED
  BY <1>9, <1>10, <1>11, <1>12

\* Dispatches and receipts, which sort their lines by product id, never wait for
\* each other in a circle (branch_services.py 563, 618 and 700), whatever
\* documents, shipments, products and rows they meet on.
THEOREM SortedLockingHasNoDeadlock == Spec => []NoWaitCycle
<1>1. IInv /\ LockInv => NoWaitCycle
  BY SortedNeverCircle DEF IInv
<1> QED
  BY <1>1, InvariantHolds, LocksAreTheCalls, PTL

-----------------------------------------------------------------------------
(* BranchStock implements StockAccount.                                    *)

\* What follows the first Len(s) elements of s \o u is u.
LEMMA SuffixOfConcat ==
  ASSUME NEW S, NEW s \in Seq(S), NEW u \in Seq(S)
  PROVE  SubSeq(s \o u, Len(s) + 1, Len(s \o u)) = u
<1> DEFINE r == s \o u
           v == SubSeq(r, Len(s) + 1, Len(r))
<1>1. /\ r \in Seq(S) /\ Len(r) = Len(s) + Len(u)
      /\ \A i \in 1..Len(u) : r[Len(s) + i] = u[i]
  BY ConcatProperties
<1>2. Len(s) \in Nat /\ Len(u) \in Nat
  OBVIOUS
<1>3. \A i \in Len(s) + 1..Len(r) : r[i] \in S
  BY <1>1, <1>2
<1>4. /\ v \in Seq(S)
      /\ Len(v) = (IF Len(s) + 1 <= Len(r) THEN Len(r) - (Len(s) + 1) + 1 ELSE 0)
      /\ \A i \in 1..Len(r) - (Len(s) + 1) + 1 : v[i] = r[Len(s) + 1 + i - 1]
  <2> DEFINE m == Len(s) + 1
             n == Len(r)
  <2>1. m \in Int /\ n \in Int
    BY <1>1, <1>2
  <2>2. \A i \in m..n : r[i] \in S
    BY <1>3
  <2> HIDE DEF r, m, n
  <2>3. /\ SubSeq(r, m, n) \in Seq(S)
        /\ Len(SubSeq(r, m, n)) = IF m <= n THEN n - m + 1 ELSE 0
        /\ \A i \in 1..n - m + 1 : SubSeq(r, m, n)[i] = r[m + i - 1]
    BY <2>1, <2>2, SubSeqProperties
  <2> QED
    BY <2>3 DEF m, n
<1> HIDE DEF r, v
<1>5. Len(v) = Len(u)
  BY <1>1, <1>2, <1>4
<1>6. \A i \in 1..Len(v) : v[i] = u[i]
  <2> SUFFICES ASSUME NEW i \in 1..Len(v) PROVE v[i] = u[i]
    OBVIOUS
  <2>1. i \in 1..Len(r) - (Len(s) + 1) + 1 /\ Len(s) + 1 + i - 1 = Len(s) + i
    BY <1>1, <1>2, <1>5
  <2> QED
    BY <1>1, <1>4, <1>5, <2>1
<1> QED
  BY <1>4, <1>5, <1>6, SeqEqual DEF r, v

LEMMA CommitPosts ==
  ASSUME IInv, NEW t \in Tx, Commit(t), NEW b \in Branch, NEW p \in Product
  PROVE  Account!Post(b, p)
<1>1. /\ ledger[b][p] \in Seq(Account!Movement)
      /\ moves[t][b][p] \in Seq(Account!Movement)
      /\ Account!Chain(stock[b][p], moves[t][b][p])
  BY DEF IInv, TypeOK, PendingHeld
<1>2. /\ ledger'[b][p] = ledger[b][p] \o moves[t][b][p]
      /\ stock'[b][p] = Account!Balance(stock[b][p], moves[t][b][p])
  BY DEF Commit, View
<1>3. Account!Added(b, p) = moves[t][b][p]
  BY <1>1, <1>2, SuffixOfConcat DEF Account!Added
<1>4. /\ Len(ledger'[b][p]) >= Len(ledger[b][p])
      /\ \A i \in 1..Len(ledger[b][p]) : ledger'[b][p][i] = ledger[b][p][i]
  <2> DEFINE s == ledger[b][p]
             u == moves[t][b][p]
  <2>1. /\ s \in Seq(Account!Movement) /\ u \in Seq(Account!Movement)
        /\ ledger'[b][p] = s \o u
    BY <1>1, <1>2
  <2> HIDE DEF s, u
  <2>2. Len(s \o u) >= Len(s) /\ \A i \in 1..Len(s) : (s \o u)[i] = s[i]
    BY <2>1
  <2> QED
    BY <2>1, <2>2 DEF s
<1> QED
  BY <1>1, <1>2, <1>3, <1>4 DEF Account!Post

\* Every commit posts its movements atomically and every other step leaves the
\* accounts alone: the engine implements the append-only account.
THEOREM Implementation == Spec => ImplementsAccount
<1>1. Init => Account!Init
  BY DEF Init, Account!Init, NoMoves
<1>2. IInv /\ [Next]_vars => [Account!Next]_Account!vars
  <2> SUFFICES ASSUME IInv, [Next]_vars
               PROVE  Account!Next \/ UNCHANGED <<stock, ledger>>
    BY DEF Account!vars
  <2>1. CASE \E t \in Tx : Commit(t)
    BY SMTT(30), <2>1, CommitPosts DEF Account!Next
  <2>2. CASE ~\E t \in Tx : Commit(t)
    BY ZenonT(60), <2>2 DEF Next, Step, Begin, LockAndApply, ReadTotal, WriteProduct, LockProduct,
                ReferToProduct, LockPaper, Rollback, DeadlockVictim, Abort, vars, committed
  <2> QED
    BY <2>1, <2>2
<1> QED
  BY <1>1, <1>2, InvariantHolds, PTL DEF Spec, ImplementsAccount, Account!Spec

=============================================================================
