----------------------------- MODULE BranchStock -----------------------------
(***************************************************************************)
(* The per-branch stock engine of pos/models.py: BranchStock.receive and   *)
(* BranchStock.deduct as database transactions run them.                   *)
(*                                                                         *)
(* A transaction (one request's handler) makes a sequence of receive and   *)
(* deduct calls, each of which                                             *)
(*   locks its BranchStock row (SELECT .. FOR UPDATE) and writes it,       *)
(*   sums the product's rows over the branches of the business,            *)
(*   writes that sum to the Product row, and                               *)
(*   inserts a StockMovement.                                              *)
(* Before, between and after its calls it locks other rows: a branch's     *)
(* sale its products, a dispatch the document it dispatches, a receipt its *)
(* shipment and, at the end, the document.                                 *)
(* The database runs at READ COMMITTED: a statement sees what was          *)
(* committed when it began and its own transaction's writes; a row lock,   *)
(* taken by FOR UPDATE or by an UPDATE, is held to the end of the          *)
(* transaction.                                                            *)
(***************************************************************************)
EXTENDS Integers, Sequences, FiniteSets, Functions

CONSTANTS
  Branch,     \* the branches of one business
  Product,    \* its products
  Tx,         \* the transactions; each handles one request
  Free,       \* no transaction holds the row
  Opening,    \* BranchStock.quantity at the start
  ProductId,  \* Product.id, the order of the sorted handlers
  NameRank,   \* the place of Product.name in the order of names
  Doc, NoDoc, \* requisitions and transfer requests
  Shipped,    \* the documents that have been dispatched at the start
  Requests    \* what a handler may be asked to do

\* The statements of a handler.  One call of receive (delta > 0) or deduct
\* (delta < 0).
Op == [kind : {"call"}, branch : Branch, product : Product, delta : Int \ {0}]

\* SELECT .. FOR UPDATE of a Product row; and an insertion that refers to the
\* row, which locks it FOR KEY SHARE.
ProductRow == [kind : {"update", "refer"}, product : Product]

\* SELECT .. FOR UPDATE of a document, or of its shipment.
Paper == [doc : Doc, part : {"parent", "shipment"}]
PaperRow == [kind : {"paper"}, paper : Paper]

Statement == Op \cup ProductRow \cup PaperRow

\* A request is a handler, the document it is about, and its calls, one for
\* each line.  The handlers are complete_sale, the synchronisation of offline
\* sales (synced) and of terminals (device), the direct transfer, and the three
\* of the distribution that move stock.
Kind == {"sale", "synced", "device", "transfer", "dispatch", "receipt", "resolution"}
Sorting == {"dispatch", "receipt"}
WithPaper == {"dispatch", "receipt", "resolution"}
Request == [kind : Kind, doc : Doc \cup {NoDoc}, calls : Seq(Op)]
NoRequest == [kind |-> "none", doc |-> NoDoc, calls |-> <<>>]

ASSUME OpeningAssumption == Opening \in [Branch -> [Product -> Int]]
\* The handlers that sort their lines work on the stock of one branch: the
\* source of a dispatch, the destination of a receipt.
OneBranch(calls) == \A i, j \in DOMAIN calls : calls[i].branch = calls[j].branch

ASSUME RequestsAssumption ==
  /\ Requests \subseteq Request
  /\ \A request \in Requests :
       /\ request.kind \in WithPaper => request.doc \in Doc
       /\ request.kind \in Sorting => OneBranch(request.calls)

\* Product.id is the primary key of the product table.
ASSUME ProductIdAssumption ==
  /\ IsFiniteSet(Product)
  /\ ProductId \in [Product -> Nat]
  /\ \A p, q \in Product : ProductId[p] = ProductId[q] => p = q
ASSUME NameAssumption == NameRank \in [Product -> Nat]
ASSUME DocAssumption == Shipped \subseteq Doc /\ NoDoc \notin Doc
ASSUME FreeAssumption == Free \notin Tx

VARIABLES
  stock,      \* committed BranchStock.quantity
  agg,        \* committed Product.stock_quantity
  ledger,     \* committed StockMovement rows per account, oldest first
  sent,       \* the documents whose dispatch is committed
  rowLock,    \* the transaction that holds a BranchStock row
  prodLock,   \* the transaction that holds a Product row
  paperLock,  \* the transaction that holds a document's row or its shipment's
  status,     \* of a transaction
  asked,      \* its request
  prog,       \* the statements it makes, in order
  pos,        \* the statement it is in
  phase,      \* the part of a call it executes next
  total,      \* the sum it read
  moves,      \* the movements it wrote and has not committed
  aggWrite    \* the Product.stock_quantity it wrote and has not committed

committed == <<stock, agg, ledger, sent>>
locks == <<rowLock, prodLock, paperLock>>
program == <<prog, asked>>
local == <<program, pos, phase, total, moves, aggWrite>>
vars == <<committed, locks, status, local>>

\* The abstract account: the committed rows and the committed movements.
Account == INSTANCE StockAccount WITH stock <- stock, ledger <- ledger

NoMoves == [b \in Branch |-> [p \in Product |-> <<>>]]

-----------------------------------------------------------------------------
(* What the handlers execute.                                              *)

\* The orders in which a request's calls may be made.
AsSent(request) == {request.calls}
Ascending(calls) ==
  \A i, j \in DOMAIN calls :
    i < j => ProductId[calls[i].product] <= ProductId[calls[j].product]
CallOrder(request) ==
  {s \in [DOMAIN request.calls -> Range(request.calls)] :
     Range(s) = Range(request.calls) /\ Ascending(s)}

\* A branch's sale locks all its products, in the order of their names.
Products(calls) == {calls[i].product : i \in DOMAIN calls}
ByName(S) ==
  {s \in [1..Cardinality(S) -> S] :
     Range(s) = S /\ \A i, j \in DOMAIN s : i < j => NameRank[s[i]] <= NameRank[s[j]]}
RowsOf(s) == [i \in DOMAIN s |-> [kind |-> "update", product |-> s[i]]]

\* Other sales and the direct transfer come to the product of each line before
\* its call: the synchronised sale locks it, the others insert a row that
\* refers to it.
LineByLine(calls, kind) ==
  [k \in 1..(2 * Len(calls)) |->
     IF k % 2 = 1 THEN [kind |-> kind, product |-> calls[(k + 1) \div 2].product]
     ELSE calls[k \div 2]]

Parent(d) == [kind |-> "paper", paper |-> [doc |-> d, part |-> "parent"]]
Shipment(d) == [kind |-> "paper", paper |-> [doc |-> d, part |-> "shipment"]]

Programs(request) ==
  CASE request.kind = "sale" ->
         {RowsOf(s) \o request.calls : s \in ByName(Products(request.calls))}
    [] request.kind = "synced" -> {LineByLine(request.calls, "update")}
    [] request.kind \in {"device", "transfer"} -> {LineByLine(request.calls, "refer")}
    [] request.kind = "dispatch" ->
         {<<Parent(request.doc)>> \o calls : calls \in CallOrder(request)}
    [] request.kind = "receipt" ->
         {Append(<<Shipment(request.doc)>> \o calls, Parent(request.doc)) :
            calls \in CallOrder(request)}
    [] request.kind = "resolution" -> {<<Parent(request.doc)>> \o request.calls}

\* The statement that t executes.
Call(t) == prog[t][pos[t]]
Active(t) == status[t] = "running" /\ pos[t] <= Len(prog[t])
At(t, kind) == Active(t) /\ Call(t).kind = kind
InCall(t) == At(t, "call")

\* The quantity of a row as transaction t sees it.
View(t, b, p) == Account!Balance(stock[b][p], moves[t][b][p])

\* SELECT .. FOR UPDATE of a BranchStock row returns at once or waits.
AlwaysAvailable(t, b, p) == TRUE
RowAvailable(t, b, p) == rowLock[b][p] \in {Free, t}

\* So does the UPDATE of a Product row.
ProductAvailable(t, p) == prodLock[p] \in {Free, t}

\* FOR UPDATE and FOR KEY SHARE of a Product row exclude each other; an UPDATE
\* of the row's quantity excludes the first alone.
Executed(t, kind, p) ==
  status[t] = "running" /\ \E i \in DOMAIN prog[t] :
    i < pos[t] /\ prog[t][i].kind = kind /\ prog[t][i].product = p
Referring(t, p) == {u \in Tx \ {t} : Executed(u, "refer", p)}
ForUpdate(t, p) == {u \in Tx \ {t} : Executed(u, "update", p)}

\* SUM(quantity) over the branches: the rows that other transactions hold
\* count with their committed quantity.
SumSeen(t, p) == SumFunctionOnSet([b \in Branch |-> View(t, b, p)], Branch)

-----------------------------------------------------------------------------
Init ==
  /\ stock = Opening
  /\ agg = [p \in Product |->
             SumFunctionOnSet([b \in Branch |-> Opening[b][p]], Branch)]
  /\ ledger = NoMoves
  /\ sent = Shipped
  /\ rowLock = [b \in Branch |-> [p \in Product |-> Free]]
  /\ prodLock = [p \in Product |-> Free]
  /\ paperLock = [x \in Paper |-> Free]
  /\ status = [t \in Tx |-> "idle"]
  /\ prog = [t \in Tx |-> <<>>]
  /\ asked = [t \in Tx |-> NoRequest]
  /\ pos = [t \in Tx |-> 1]
  /\ phase = [t \in Tx |-> "lock"]
  /\ total = [t \in Tx |-> 0]
  /\ moves = [t \in Tx |-> NoMoves]
  /\ aggWrite = [t \in Tx |-> [p \in Product |-> 0]]

Begin(t) ==
  /\ status[t] = "idle"
  /\ status' = [status EXCEPT ![t] = "running"]
  /\ \E request \in Requests :
       /\ \E statements \in Programs(request) : prog' = [prog EXCEPT ![t] = statements]
       /\ asked' = [asked EXCEPT ![t] = request]
  /\ UNCHANGED <<committed, locks, pos, phase, total, moves, aggWrite>>

\* The row is locked and written; the movement that the call inserts once the
\* product is updated is recorded here, where its balance_after is computed.
\* Nobody else sees it before the commit.
LockAndApply(t) ==
  /\ InCall(t) /\ phase[t] = "lock"
  /\ LET o == Call(t)
         new == View(t, o.branch, o.product) + o.delta
     IN /\ RowAvailable(t, o.branch, o.product)
        /\ rowLock' = [rowLock EXCEPT ![o.branch][o.product] = t]
        /\ moves' = [moves EXCEPT ![t][o.branch][o.product] =
                       Append(@, [delta |-> o.delta, balance |-> new])]
  /\ phase' = [phase EXCEPT ![t] = "sum"]
  /\ UNCHANGED <<committed, prodLock, paperLock, status, program, pos, total, aggWrite>>

ReadTotal(t) ==
  /\ InCall(t) /\ phase[t] = "sum"
  /\ total' = [total EXCEPT ![t] = SumSeen(t, Call(t).product)]
  /\ phase' = [phase EXCEPT ![t] = "product"]
  /\ UNCHANGED <<committed, locks, status, program, pos, moves, aggWrite>>

\* The handler goes on with its next statement.
NextCall(i) == i + 1

\* UPDATE pos_product SET stock_quantity: waits for the Product row.
WriteProduct(t) ==
  /\ InCall(t) /\ phase[t] = "product"
  /\ LET p == Call(t).product
     IN /\ ProductAvailable(t, p)
        /\ prodLock' = [prodLock EXCEPT ![p] = t]
        /\ aggWrite' = [aggWrite EXCEPT ![t][p] = total[t]]
  /\ pos' = [pos EXCEPT ![t] = NextCall(@)]
  /\ phase' = [phase EXCEPT ![t] = "lock"]
  /\ UNCHANGED <<committed, rowLock, paperLock, status, program, total, moves>>

\* SELECT .. FOR UPDATE of a product by a sale: what it writes to the row then
\* is overwritten by the sum that its call writes.
LockProduct(t) ==
  /\ At(t, "update")
  /\ LET p == Call(t).product
     IN /\ ProductAvailable(t, p) /\ Referring(t, p) = {}
        /\ prodLock' = [prodLock EXCEPT ![p] = t]
        /\ aggWrite' = [aggWrite EXCEPT ![t][p] = IF prodLock[p] = t THEN @ ELSE agg[p]]
  /\ pos' = [pos EXCEPT ![t] = NextCall(@)]
  /\ UNCHANGED <<committed, rowLock, paperLock, status, program, phase, total, moves>>

\* The insertion of a SaleItem or StockTransfer waits for a FOR UPDATE of its
\* product.
ReferToProduct(t) ==
  /\ At(t, "refer") /\ ForUpdate(t, Call(t).product) = {}
  /\ pos' = [pos EXCEPT ![t] = NextCall(@)]
  /\ UNCHANGED <<committed, locks, status, program, phase, total, moves, aggWrite>>

\* Every lock of t is released and its uncommitted writes are gone.
Release(t) ==
  /\ rowLock' = [b \in Branch |-> [p \in Product |->
                   IF rowLock[b][p] = t THEN Free ELSE rowLock[b][p]]]
  /\ prodLock' = [p \in Product |->
                    IF prodLock[p] = t THEN Free ELSE prodLock[p]]
  /\ paperLock' = [x \in Paper |->
                     IF paperLock[x] = t THEN Free ELSE paperLock[x]]
  /\ moves' = [moves EXCEPT ![t] = NoMoves]

Commit(t) ==
  /\ status[t] = "running" /\ pos[t] > Len(prog[t])
  /\ stock' = [b \in Branch |-> [p \in Product |-> View(t, b, p)]]
  /\ ledger' = [b \in Branch |-> [p \in Product |->
                  ledger[b][p] \o moves[t][b][p]]]
  /\ agg' = [p \in Product |->
               IF prodLock[p] = t THEN aggWrite[t][p] ELSE agg[p]]
  /\ sent' = IF asked[t].kind = "dispatch" THEN sent \cup {asked[t].doc} ELSE sent
  /\ Release(t)
  /\ status' = [status EXCEPT ![t] = "committed"]
  /\ UNCHANGED <<program, pos, phase, total, aggWrite>>

Abort(t) ==
  /\ Release(t)
  /\ status' = [status EXCEPT ![t] = "aborted"]
  /\ UNCHANGED <<committed, program, pos, phase, total, aggWrite>>

\* The handler raises (a validation of a later item, a failing payment) or its
\* process dies: transaction.atomic rolls everything back.
Rollback(t) == status[t] = "running" /\ Abort(t)

\* A document is dispatched while it is approved and not thereafter; before, it
\* has no shipment to be received and no discrepancy to be resolved.
Refused(t) ==
  CASE asked[t].kind = "dispatch" -> asked[t].doc \in sent
    [] asked[t].kind = "receipt" -> asked[t].doc \notin sent
    [] asked[t].kind = "resolution" -> asked[t].doc \notin sent

PaperAvailable(t, x) == paperLock[x] \in {Free, t}

LockPaper(t) ==
  /\ At(t, "paper") /\ PaperAvailable(t, Call(t).paper)
  /\ \/ Refused(t) /\ Abort(t)
     \/ /\ ~Refused(t)
        /\ paperLock' = [paperLock EXCEPT ![Call(t).paper] = t]
        /\ pos' = [pos EXCEPT ![t] = NextCall(@)]
        /\ UNCHANGED <<committed, rowLock, prodLock, status, program, phase, total, moves, aggWrite>>

\* t waits for a row that u holds.
WaitsFor(t, u) ==
  /\ t # u
  /\ \/ InCall(t) /\ phase[t] = "lock" /\ rowLock[Call(t).branch][Call(t).product] = u
     \/ InCall(t) /\ phase[t] = "product" /\ prodLock[Call(t).product] = u
     \/ At(t, "update") /\ (prodLock[Call(t).product] = u \/ u \in Referring(t, Call(t).product))
     \/ At(t, "refer") /\ u \in ForUpdate(t, Call(t).product)
     \/ At(t, "paper") /\ paperLock[Call(t).paper] = u

WaitCycle(S) == S # {} /\ \A t \in S : \E u \in S : WaitsFor(t, u)

\* A handler that starts its transaction again when it was the victim.
VictimRetries(t) ==
  /\ \E S \in SUBSET Tx : t \in S /\ WaitCycle(S)
  /\ Release(t)
  /\ pos' = [pos EXCEPT ![t] = 1]
  /\ phase' = [phase EXCEPT ![t] = "lock"]
  /\ UNCHANGED <<committed, status, program, total, aggWrite>>

\* PostgreSQL finds the cycle after deadlock_timeout and raises in one of them; no
\* view tries again.
DeadlockVictim(t) ==
  /\ \E S \in SUBSET Tx : t \in S /\ WaitCycle(S)
  /\ Abort(t)

Step(t) ==
  \/ LockAndApply(t) \/ ReadTotal(t) \/ WriteProduct(t)
  \/ LockProduct(t) \/ ReferToProduct(t) \/ LockPaper(t)
  \/ Commit(t)

Next == \E t \in Tx : Begin(t) \/ Step(t) \/ Rollback(t) \/ DeadlockVictim(t)

\* A running request keeps executing and the database resolves deadlocks;
\* nobody has to start a request or to roll one back.
Fairness ==
  /\ \A t \in Tx : WF_vars(Step(t))
  /\ WF_vars(\E t \in Tx : DeadlockVictim(t))

Spec == Init /\ [][Next]_vars
FairSpec == Spec /\ Fairness

-----------------------------------------------------------------------------
Status == {"idle", "running", "committed", "aborted"}

\* The values of agg and total are sums over Branch; only their domains are
\* stated, as nothing rests on their values.
TypeOK ==
  /\ stock \in [Branch -> [Product -> Int]]
  /\ ledger \in [Branch -> [Product -> Seq(Account!Movement)]]
  /\ sent \subseteq Doc
  /\ rowLock \in [Branch -> [Product -> Tx \cup {Free}]]
  /\ prodLock \in [Product -> Tx \cup {Free}]
  /\ paperLock \in [Paper -> Tx \cup {Free}]
  /\ status \in [Tx -> Status]
  /\ prog \in [Tx -> Seq(Statement)]
  /\ asked \in [Tx -> Requests \cup {NoRequest}]
  /\ pos \in [Tx -> Nat \ {0}]
  /\ phase \in [Tx -> {"lock", "sum", "product"}]
  /\ moves \in [Tx -> [Branch -> [Product -> Seq(Account!Movement)]]]
  /\ DOMAIN agg = Product /\ DOMAIN total = Tx /\ DOMAIN aggWrite = Tx

\* The committed quantity of every account is the balance its ledger ends at,
\* and the ledger is an unbroken chain of balances from the opening quantity:
\* no receive or deduct is lost or counted twice, however the transactions that
\* run them interleave, wait, roll back or die (models.py 5599-5779).
LedgerExplainsStock ==
  \A b \in Branch, p \in Product :
    /\ Account!Chain(Opening[b][p], ledger[b][p])
    /\ stock[b][p] = Account!Balance(Opening[b][p], ledger[b][p])

\* What LedgerExplainsStock rests on: uncommitted movements belong to the
\* running holder of the row, and chain from its committed quantity.
PendingHeld ==
  \A t \in Tx, b \in Branch, p \in Product :
    /\ moves[t][b][p] # <<>> => rowLock[b][p] = t
    /\ Account!Chain(stock[b][p], moves[t][b][p])

\* Inductive: between statements, what is pending belongs to a row's holder.
IInv == TypeOK /\ PendingHeld /\ LedgerExplainsStock

\* The statements that t has executed, and those that have locked their first
\* row: the one it is in counts once its BranchStock row is locked.
Done(t) == {i \in DOMAIN prog[t] : i < pos[t]}
Locked(t) == {i \in DOMAIN prog[t] : i < pos[t] \/ (i = pos[t] /\ phase[t] # "lock")}

HoldsRow(t, b, p) ==
  status[t] = "running" /\ \E i \in Locked(t) :
    prog[t][i].kind = "call" /\ prog[t][i].branch = b /\ prog[t][i].product = p
HoldsProduct(t, p) ==
  status[t] = "running" /\ \E i \in Done(t) :
    prog[t][i].kind \in {"call", "update"} /\ prog[t][i].product = p
HoldsPaper(t, x) ==
  status[t] = "running" /\ \E i \in Done(t) :
    prog[t][i].kind = "paper" /\ prog[t][i].paper = x

\* What NoWaitCycle rests on.  A running transaction holds the rows of the
\* statements it has got to, and no others: locks are taken as the statements
\* come, kept to the end of the transaction, and given up there.
LocksFollow(t) ==
  /\ status[t] = "idle" => pos[t] = 1 /\ phase[t] = "lock"
  /\ phase[t] # "lock" => pos[t] \in DOMAIN prog[t] /\ Call(t).kind = "call"
  /\ \A b \in Branch, p \in Product : rowLock[b][p] = t <=> HoldsRow(t, b, p)
  /\ \A p \in Product : prodLock[p] = t <=> HoldsProduct(t, p)
  /\ \A x \in Paper : paperLock[x] = t <=> HoldsPaper(t, x)
LocksFollowCalls == \A t \in Tx : LocksFollow(t)

\* The statements of a handler that sorts: a dispatch locks its document and
\* makes its calls; a receipt locks its shipment, makes its calls, and locks
\* the document.  The calls are on one branch, in the order of the product ids.
CallsInOrder(s) ==
  \A i, j \in DOMAIN s :
    s[i].kind = "call" /\ s[j].kind = "call" =>
      /\ s[i].branch = s[j].branch
      /\ i < j => ProductId[s[i].product] <= ProductId[s[j].product]
IsDispatch(s, d) ==
  /\ s # <<>> /\ s[1] = Parent(d)
  /\ \A i \in DOMAIN s : i # 1 => s[i].kind = "call"
IsReceipt(s, d) ==
  /\ s # <<>> /\ s[1] = Shipment(d) /\ s[Len(s)] = Parent(d)
  /\ \A i \in DOMAIN s : i # 1 /\ i # Len(s) => s[i].kind = "call"

SortedPrograms ==
  \A t \in Tx :
    /\ asked[t].kind \in Sorting => CallsInOrder(prog[t]) /\ asked[t].doc \in Doc
    /\ asked[t].kind = "dispatch" => IsDispatch(prog[t], asked[t].doc)
    /\ asked[t].kind = "receipt" => IsReceipt(prog[t], asked[t].doc)

\* A document whose dispatch is under way is not dispatched, and one whose
\* shipment is being received is.
SentInTime ==
  \A t \in Tx :
    status[t] = "running" /\ pos[t] > 1 =>
      /\ asked[t].kind = "dispatch" => asked[t].doc \notin sent
      /\ asked[t].kind = "receipt" => asked[t].doc \in sent

\* Inductive with IInv: the locks that exist are those the programs came to.
LockInv == LocksFollowCalls /\ SortedPrograms /\ SentInTime

\* t's handler sorts its lines before it makes the calls.
TakesRowsInOrder(t) == asked[t].kind \in Sorting

\* Dispatches and receipts, which sort their lines "to avoid DB deadlocks on
\* concurrent transfers" (branch_services.py 563, 618 and 700), never wait for
\* each other in a circle, whatever documents, shipments and rows they meet on.
\* With the other handlers they do: sales lock products first, and a resolution
\* or a direct transfer calls in an order of its own.
NoWaitCycle == ~\E S \in SUBSET {t \in Tx : TakesRowsInOrder(t)} : WaitCycle(S)

\* Stock and ledger change together, append-only, at commit only.
ImplementsAccount == Account!Spec

\* Every request that began ends: lock waits are finite, because each holder
\* commits, rolls back or is chosen as the victim of a deadlock.
EveryTxEnds ==
  \A t \in Tx : status[t] = "running" ~> status[t] \in {"committed", "aborted"}

=============================================================================
