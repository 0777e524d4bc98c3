----------------------------- MODULE StockLedger -----------------------------
(***************************************************************************)
(* The append-only stock ledger of the inventory module and the requests   *)
(* that post to it: warehouse transfers, counts and their adjustments,     *)
(* delivery notes, and purchase receipts through the POS adapter.          *)
(*                                                                         *)
(* Every request is one database transaction at READ COMMITTED.  A         *)
(* movement selects the newest entry of its account (warehouse, product)   *)
(* FOR UPDATE, computes the new balance from it and inserts an entry.  The *)
(* row lock is on the entry that was selected: whoever waits for it goes   *)
(* on with that same entry, because entries are never updated, and does    *)
(* not see the entries that the holder inserted meanwhile.                 *)
(***************************************************************************)
EXTENDS Integers, Sequences, FiniteSets, Functions

CONSTANTS
  Account,     \* a product in a warehouse
  Product,
  ProductOf,   \* the product of an account
  Session,     \* requests, each in its own transaction
  Doc,         \* stock adjustment documents, of one line each
  Voucher,     \* purchases whose receipt is synchronised
  Orders,      \* what each request other than a count may be asked to do
  Posters,     \* the requests that may post an adjustment
  Counted,     \* the accounts that are counted
  Counts,      \* quantities that a physical count may find
  Lenient,     \* accounts of products with allow_negative_stock
  Opening,     \* the opening entries, at most one of an account
  None,
  MaxRunning   \* bound on the requests that are under way at one time

\* "resave" is a later save of a purchase that has been received.
Kind == {"transfer", "adjustment", "delivery", "receipt", "resave"}

\* A request posts the movements of its lines, one after the other, under the
\* name of its document.
Line == [account : Account, qty : Int \ {0}]
Order == [kind : Kind, doc : Doc \cup Voucher \cup {None}, lines : Seq(Line)]

\* Purchases are received; nothing else carries their number.
ASSUME OrdersAssumption ==
  /\ Orders \in [Session -> SUBSET Order]
  /\ \A s \in Session : \A o \in Orders[s] :
       o.doc \in IF o.kind = "receipt" THEN Voucher ELSE {None}
ASSUME PostersAssumption == Posters \subseteq Session
ASSUME ProductOfAssumption == ProductOf \in [Account -> Product]
ASSUME OpeningAssumption ==
  /\ Opening \in Seq([account : Account, qty : Nat \ {0}])
  /\ \A i, j \in DOMAIN Opening :
       Opening[i].account = Opening[j].account => i = j
ASSUME CountsAssumption == Counted \subseteq Account /\ Counts \subseteq Nat
ASSUME DocAssumption == Doc \cap Voucher = {}
ASSUME NoneAssumption == None \notin Doc \cup Voucher \cup Session

VARIABLES
  entries,   \* StockLedgerEntry rows in the order of posting_time and id
  sheets,    \* the adjustment documents
  order,     \* what a session was asked to do
  status,    \* of a session
  pos,       \* the line it is at
  chosen,    \* the entry its SELECT .. FOR UPDATE returned or waits for, or 0
  phase,     \* "select" or "post"
  held,      \* the entries it has locked
  raced,     \* history: accounts that two sessions posted to at one time
  twice      \* history: documents that two sessions were posting at one time

session == <<order, status, pos, chosen, phase, held>>
history == <<raced, twice>>
vars == <<entries, sheets, session, history>>

NoOrder == [kind |-> "transfer", doc |-> None, lines |-> <<>>]
Blank == [status |-> "none"]

Live(i) == entries[i].state # "gone"
Committed(i) == entries[i].state = "committed"
Visible(s, i) == Committed(i) \/ (entries[i].state = "pending" /\ entries[i].by = s)

Of(a) == {i \in DOMAIN entries : entries[i].account = a}

\* order_by('-posting_time', '-id').first() among the entries in S; 0: no row.
Newest(S) == IF S = {} THEN 0 ELSE CHOOSE i \in S : \A j \in S : j <= i

OldestFirst(s, a) ==
  LET S == {i \in Of(a) : Visible(s, i)}
  IN IF S = {} THEN 0 ELSE CHOOSE i \in S : \A j \in S : i <= j
Latest(s, a) == Newest({i \in Of(a) : Visible(s, i)})

BalanceAt(i) == IF i = 0 THEN 0 ELSE entries[i].balance

Running(s) == status[s] = "running"
Busy(s) == Running(s) /\ pos[s] <= Len(order[s].lines)
Here(s) == order[s].lines[pos[s]]

\* The session is between the selection and the end of its transaction on a.
Posting(s, a) == Busy(s) /\ phase[s] = "post" /\ Here(s).account = a
At(s, a) ==
  \/ Posting(s, a)
  \/ \E i \in Of(a) : entries[i].state = "pending" /\ entries[i].by = s

\* The Product rows that a transaction has locked: a delivery takes them line
\* by line and a receipt all of them before it posts.
HoldsProduct(s, p) ==
  /\ Running(s)
  /\ \E i \in DOMAIN order[s].lines :
       /\ ProductOf[order[s].lines[i].account] = p
       /\ \/ order[s].kind = "receipt"
          \/ /\ order[s].kind = "delivery"
             /\ i < pos[s] \/ (i = pos[s] /\ phase[s] = "post")

Init ==
  /\ entries = [i \in DOMAIN Opening |->
       [account |-> Opening[i].account, qty |-> Opening[i].qty,
        balance |-> Opening[i].qty, pred |-> 0, by |-> None, doc |-> None,
        line |-> 1, state |-> "committed"]]
  /\ sheets = [d \in Doc |-> Blank]
  /\ order = [s \in Session |-> NoOrder]
  /\ status = [s \in Session |-> "idle"]
  /\ pos = [s \in Session |-> 1]
  /\ chosen = [s \in Session |-> 0]
  /\ phase = [s \in Session |-> "select"]
  /\ held = [s \in Session |-> {}]
  /\ raced = {} /\ twice = {}

-----------------------------------------------------------------------------
\* create_stock_adjustment: the count is set against the newest committed
\* balance, read without a lock, and the difference is stored.
Shortage(counted, system) == system - counted
Variance(counted, system) == counted - system

Count(d, a, counted) ==
  /\ sheets[d].status = "none"
  /\ LET at == Newest({i \in Of(a) : Committed(i)})
     IN sheets' = [sheets EXCEPT ![d] =
          [status |-> "draft", account |-> a, counted |-> counted, at |-> at,
           variance |-> Variance(counted, BalanceAt(at))]]
  /\ UNCHANGED <<entries, session, history>>

\* The adapter posts nothing for a voucher that has entries already.
Known(v) == \E i \in DOMAIN entries : Committed(i) /\ entries[i].doc = v
EveryLine(o) == o.lines
ReceiptLines(o) == IF Known(o.doc) THEN <<>> ELSE o.lines

Start(s, o) ==
  /\ status[s] = "idle"
  /\ Cardinality({t \in Session : Running(t)}) < MaxRunning
  /\ order' = [order EXCEPT ![s] = o]
  /\ status' = [status EXCEPT ![s] = "running"]
  /\ UNCHANGED <<entries, sheets, pos, chosen, phase, held, raced>>

\* Transfers and dispatched delivery notes.
BeginOrder(s) ==
  /\ \E o \in Orders[s] : o.kind \in {"transfer", "delivery"} /\ Start(s, o)
  /\ UNCHANGED twice

Handles(s, o) == Running(s) /\ order[s].doc = o.doc
Received(v) == \E s \in Session : status[s] = "done" /\ order[s].doc = v

\* mark_as_received locks the purchase, updates the rows of its products, and
\* only then saves the status, which calls the adapter.  A purchase that was
\* received is saved again by a maintenance command, one at a time.
BeginReceipt(s) ==
  /\ \E o \in Orders[s] :
       /\ o.kind = "receipt"
       /\ ~\E t \in Session : Handles(t, o)
       /\ \/ /\ ~Received(o.doc)
             /\ \A t \in Session, i \in DOMAIN o.lines :
                  ~HoldsProduct(t, ProductOf[o.lines[i].account])
             /\ Start(s, [o EXCEPT !.lines = ReceiptLines(o)])
          \/ /\ Received(o.doc)
             /\ Start(s, [o EXCEPT !.lines = ReceiptLines(o), !.kind = "resave"])
  /\ UNCHANGED twice

\* post_stock_adjustment tests the status of the document that the view read.
Postable(d) == sheets[d].status = "draft"

BeginAdjustment(s, d) ==
  /\ s \in Posters /\ Postable(d)
  /\ LET v == sheets[d].variance
         o == [kind |-> "adjustment", doc |-> d,
               lines |-> IF v = 0 THEN <<>>
                         ELSE <<[account |-> sheets[d].account, qty |-> v]>>]
     IN /\ Start(s, o)
        /\ twice' = IF \E t \in Session : Handles(t, o)
                    THEN twice \cup {d} ELSE twice

\* SELECT .. FOR UPDATE chooses its row when the statement begins.
\* A delivery locks the product's row before it posts the line.
ProductFree(s) ==
  order[s].kind = "delivery" =>
    \A t \in Session \ {s} : ~HoldsProduct(t, ProductOf[Here(s).account])

Select(s) ==
  /\ Busy(s) /\ phase[s] = "select"
  /\ ProductFree(s)
  /\ chosen' = [chosen EXCEPT ![s] = Latest(s, Here(s).account)]
  /\ phase' = [phase EXCEPT ![s] = "post"]
  /\ raced' = IF \E t \in Session \ {s} : At(t, Here(s).account)
              THEN raced \cup {Here(s).account} ELSE raced
  /\ UNCHANGED <<entries, sheets, order, status, pos, held, twice>>

LockFree(s) == \A t \in Session \ {s} : chosen[s] \notin held[t]

NewBalance(s) == BalanceAt(chosen[s]) + Here(s).qty

\* The non-negative check of step 3.
AnyBalance(s) == TRUE
Allowed(s) == NewBalance(s) >= 0 \/ Here(s).account \in Lenient

NextLine(i) == i + 1

Advance(s) ==
  /\ pos' = [pos EXCEPT ![s] = NextLine(@)]
  /\ phase' = [phase EXCEPT ![s] = "select"]

PostEntry(s) ==
  /\ Busy(s) /\ phase[s] = "post"
  /\ LockFree(s) /\ Allowed(s)
  /\ held' = [held EXCEPT ![s] = IF chosen[s] = 0 THEN @ ELSE @ \cup {chosen[s]}]
  /\ entries' = Append(entries,
       [account |-> Here(s).account, qty |-> Here(s).qty, balance |-> NewBalance(s),
        pred |-> chosen[s], by |-> s, doc |-> order[s].doc, line |-> pos[s],
        state |-> "pending"])
  /\ Advance(s)
  /\ UNCHANGED <<sheets, order, status, chosen, history>>

Settle(s, result) ==
  [i \in DOMAIN entries |->
     IF entries[i].state = "pending" /\ entries[i].by = s
     THEN [entries[i] EXCEPT !.state = result] ELSE entries[i]]

\* The locals of a request are gone with it.
End(s, result, outcome) ==
  /\ entries' = Settle(s, result)
  /\ status' = [status EXCEPT ![s] = outcome]
  /\ held' = [held EXCEPT ![s] = {}]
  /\ pos' = [pos EXCEPT ![s] = 1]
  /\ chosen' = [chosen EXCEPT ![s] = 0]
  /\ phase' = [phase EXCEPT ![s] = "select"]

Abort(s) ==
  /\ End(s, "gone", "failed")
  /\ UNCHANGED <<sheets, order, history>>

\* What the callers do when post_stock_movement raises.  A transfer and an
\* adjustment let it through.  A delivery note logs it and goes on with its
\* next line; the adapter's handler is around its loop, so that the lines
\* after the failing one are left out.
OnlyAdjustments(s) == order[s].kind = "adjustment"
LetsThrough(s) == order[s].kind \in {"transfer", "adjustment"}
RetrySameLine(s) == pos[s]
Resume(s) ==
  IF order[s].kind = "delivery" THEN pos[s] + 1 ELSE Len(order[s].lines) + 1

Swallow(s) ==
  /\ pos' = [pos EXCEPT ![s] = Resume(s)]
  /\ phase' = [phase EXCEPT ![s] = "select"]
  /\ UNCHANGED <<entries, sheets, order, status, chosen, held, history>>

Raise(s) == IF LetsThrough(s) THEN Abort(s) ELSE Swallow(s)

Reject(s) ==
  /\ Busy(s) /\ phase[s] = "post"
  /\ LockFree(s) /\ ~Allowed(s)
  /\ Raise(s)

\* A statement of post_stock_movement fails for a reason of its own.
Fault(s) == Busy(s) /\ phase[s] = "post" /\ Raise(s)

\* The end of the request's transaction.atomic block.  An adjustment's last
\* write is its status.
Commit(s) ==
  /\ Running(s) /\ ~Busy(s)
  /\ End(s, "committed", "done")
  /\ sheets' = IF order[s].kind = "adjustment"
               THEN [sheets EXCEPT ![order[s].doc].status = "posted"] ELSE sheets
  /\ UNCHANGED <<order, history>>

\* A worker that dies loses its connection, and with it the transaction.
Die(s) == Running(s) /\ Abort(s)

WaitsFor(s, t) ==
  /\ Busy(s) /\ s # t
  /\ \/ phase[s] = "post" /\ chosen[s] \in held[t]
     \/ /\ phase[s] = "select" /\ order[s].kind = "delivery"
        /\ HoldsProduct(t, ProductOf[Here(s).account])

Cycle(S) == S # {} /\ \A s \in S : \E t \in S : WaitsFor(s, t)

\* PostgreSQL makes the statement of one of them fail.  In post_stock_movement
\* its savepoint is rolled back and the caller sees an exception.
DeadlockVictim(s) ==
  /\ \E S \in SUBSET Session : s \in S /\ Cycle(S)
  /\ IF phase[s] = "post" THEN Raise(s) ELSE Abort(s)

Work(s) == Select(s) \/ PostEntry(s) \/ Reject(s) \/ Commit(s)

Next ==
  \/ \E d \in Doc, a \in Counted, n \in Counts : Count(d, a, n)
  \/ \E s \in Session :
       \/ BeginOrder(s) \/ BeginReceipt(s)
       \/ \E d \in Doc : BeginAdjustment(s, d)
       \/ Work(s) \/ Fault(s) \/ Die(s) \/ DeadlockVictim(s)

\* A request that runs goes on, and the database resolves deadlocks.
Fairness ==
  /\ \A s \in Session : WF_vars(Work(s))
  /\ WF_vars(\E s \in Session : DeadlockVictim(s))

Spec == Init /\ [][Next]_vars /\ Fairness

-----------------------------------------------------------------------------
Entry ==
  [account : Account, qty : Int, balance : Int, pred : Nat,
   by : Session \cup {None}, doc : Doc \cup Voucher \cup {None}, line : Nat,
   state : {"pending", "committed", "gone"}]

Sheet ==
  {Blank} \cup
  [status : {"draft", "posted"}, account : Counted, counted : Counts,
   at : Nat, variance : Int]

TypeOK ==
  /\ entries \in Seq(Entry)
  /\ sheets \in [Doc -> Sheet]
  /\ order \in [Session -> [kind : Kind, doc : Doc \cup Voucher \cup {None},
                            lines : Seq(Line)]]
  /\ status \in [Session -> {"idle", "running", "done", "failed"}]
  /\ pos \in [Session -> Nat \ {0}]
  /\ chosen \in [Session -> Nat]
  /\ phase \in [Session -> {"select", "post"}]
  /\ held \in [Session -> SUBSET Nat]
  /\ raced \subseteq Account /\ twice \subseteq Doc

\* As long as no two transactions post to an account at one time, its entries
\* form one chain, so that the newest balance counts every movement ("sequential
\* balance calculation", stock_ledger_service.py 44).
ChainedWhenAlone ==
  \A i \in DOMAIN entries :
    Committed(i) /\ entries[i].account \notin raced =>
      entries[i].pred =
        Newest({j \in Of(entries[i].account) : Committed(j) /\ j < i})

Quantities == [i \in DOMAIN entries |-> entries[i].qty]

\* Without a race, what has left an account never exceeds what came in, unless
\* its product may go negative (stock_ledger_service.py 45 and 73-78).
OnHandNotNegative ==
  \A a \in Account \ (raced \cup Lenient) :
    SumFunctionOnSet(Quantities, {i \in Of(a) : Committed(i)}) >= 0

\* A transfer's quantity leaves one warehouse if and only if it enters another
\* (stock_transfer_service.py 28-30), also when a line is refused, a deadlock
\* is resolved or the worker dies.
TransferWhole ==
  \A s \in Session :
    order[s].kind = "transfer" =>
      LET ids == {i \in DOMAIN entries : Committed(i) /\ entries[i].by = s}
      IN ids # {} => {entries[i].line : i \in ids} = DOMAIN order[s].lines

\* A posted document has its one entry, and no other document has any, unless
\* the document was posted by two requests at a time; and when nothing moved
\* between count and post, the post leaves what was counted
\* (stock_adjustment_service.py 57-62 and 94-115).
CountTakesEffect ==
  \A d \in Doc :
    LET ids == {i \in DOMAIN entries : Committed(i) /\ entries[i].doc = d}
    IN /\ d \notin twice =>
            Cardinality(ids) =
              IF sheets[d].status = "posted" /\ sheets[d].variance # 0 THEN 1 ELSE 0
       /\ \A i \in ids :
            entries[i].pred = sheets[d].at =>
              entries[i].balance = sheets[d].counted

\* The lines of a purchase enter the ledger at most once, and none after one
\* that failed: once some are in, no later save adds the rest
\* (pos_inventory_adapter.py 177-202).
ReceiptIsPrefix ==
  \A v \in Voucher :
    LET ids == {i \in DOMAIN entries : Committed(i) /\ entries[i].doc = v}
        lines == {entries[i].line : i \in ids}
    IN /\ Cardinality(ids) = Cardinality(lines)
       /\ lines = 1..Cardinality(lines)

\* No request waits for ever: lock holders end, and the database breaks the
\* circles that opposite transfers form.
EverySessionEnds ==
  \A s \in Session : status[s] = "running" ~> status[s] \in {"done", "failed"}

-----------------------------------------------------------------------------
(* What these rest on.                                                     *)

Posted(s) == {i \in DOMAIN entries : entries[i].by = s}
PostedLines(s) == {entries[i].line : i \in Posted(s)}

\* A request starts at its first line and goes on from line to line.
AtALine ==
  \A s \in Session :
    /\ ~Running(s) => pos[s] = 1 /\ phase[s] = "select"
    /\ pos[s] <= Len(order[s].lines) + 1
    /\ chosen[s] <= Len(entries)

\* Its entries are those of its lines, each once, in the state of its
\* transaction.  The opening entries belong to nobody.
EntriesFollowOrders ==
  \A i \in DOMAIN entries :
    LET e == entries[i]
        s == e.by
    IN IF s = None THEN e.state = "committed" /\ e.doc = None
       ELSE /\ (e.state = "pending") = (status[s] = "running")
            /\ (e.state = "committed") = (status[s] = "done")
            /\ (e.state = "gone") = (status[s] = "failed")
            /\ e.line \in DOMAIN order[s].lines /\ (Running(s) => e.line < pos[s])
            /\ e.doc = order[s].doc
            /\ e.account = order[s].lines[e.line].account
            /\ e.qty = order[s].lines[e.line].qty
            /\ \A j \in Posted(s) : entries[j].line = e.line => j = i

\* Only a delivery goes on after a line that failed; a transfer and an
\* adjustment are at the line after the ones that are posted.
LinesInOrder ==
  \A s \in Session : order[s].kind # "delivery" =>
    \E n \in 0..Len(order[s].lines) :
      /\ PostedLines(s) = 1..n
      /\ Running(s) => \/ pos[s] = n + 1
                       \/ pos[s] = Len(order[s].lines) + 1 /\ ~LetsThrough(s)
      /\ status[s] = "done" /\ LetsThrough(s) => n = Len(order[s].lines)

\* Each kind of request has its kind of document.
KindsOfDocs ==
  \A s \in Session :
    order[s].doc \in
      CASE order[s].kind = "adjustment" -> {d \in Doc : sheets[d].status # "none"}
        [] order[s].kind \in {"receipt", "resave"} -> Voucher
        [] OTHER -> {None}

\* An entry's balance counts its predecessor's and its own quantity.
BalancesAdded ==
  \A i \in DOMAIN entries :
    /\ entries[i].pred < i
    /\ entries[i].balance = BalanceAt(entries[i].pred) + entries[i].qty

\* Inductive: requests and the entries they have made agree.
IInv ==
  TypeOK /\ AtALine /\ EntriesFollowOrders /\ LinesInOrder /\ KindsOfDocs /\ BalancesAdded

\* One request at a time posts lines of a purchase, and only if none are in.
ReceiptInv ==
  \A v \in Voucher :
    /\ \A s, t \in Session :
         Running(s) /\ Running(t) /\ order[s].doc = v /\ order[t].doc = v => s = t
    /\ \A i, j \in DOMAIN entries :
         Live(i) /\ Live(j) /\ entries[i].doc = v /\ entries[j].doc = v =>
           entries[i].by = entries[j].by
    /\ \A s \in Session, i \in DOMAIN entries :
         Running(s) /\ order[s].doc = v /\ order[s].lines # <<>> /\ Live(i)
           /\ entries[i].doc = v => entries[i].by = s

\* The movement that a document asks for.
DocLines(d) ==
  IF sheets[d].variance = 0 THEN <<>>
  ELSE <<[account |-> sheets[d].account, qty |-> sheets[d].variance]>>

\* A document says what its requests post, and has been posted by one of them.
SheetFollowed(d) ==
  /\ sheets[d].status # "none" =>
       /\ sheets[d].at <= Len(entries)
       /\ sheets[d].variance = Variance(sheets[d].counted, BalanceAt(sheets[d].at))
  /\ \A s \in Session : order[s].doc = d =>
       /\ sheets[d].status # "none"
       /\ order[s].lines = DocLines(d)
       /\ d \notin twice /\ Running(s) => sheets[d].status = "draft"
       /\ status[s] = "done" => sheets[d].status = "posted"
  /\ d \notin twice =>
       \A s, t \in Session :
         /\ order[s].doc = d /\ order[t].doc = d
         /\ status[s] = status[t] /\ status[s] \in {"running", "done"}
         => s = t
  /\ sheets[d].status = "posted" => \E s \in Session : status[s] = "done" /\ order[s].doc = d

SheetInv == \A d \in Doc : SheetFollowed(d)

\* The entries of an account, without those of transactions rolled back.
LiveOf(a) == {i \in Of(a) : Live(i)}

\* The rows in S are one chain: each continues the one before it, and its
\* balance is what they sum up to.
OneChain(rows, S) ==
  \A i \in S :
    /\ rows[i].pred = Newest({j \in S : j < i})
    /\ rows[i].balance =
         SumFunctionOnSet([k \in DOMAIN rows |-> rows[k].qty], {j \in S : j <= i})

\* An account that was never raced for: one request is at it at a time, and the
\* entry it continues is the newest there is.
Chained(a) ==
  /\ \A s, t \in Session : At(s, a) /\ At(t, a) => s = t
  /\ \A i, j \in Of(a) : entries[i].state = "pending" /\ Committed(j) => j < i
  /\ \A s \in Session : Posting(s, a) => chosen[s] = Newest(LiveOf(a))
  /\ OneChain(entries, LiveOf(a))

ChainInv == \A a \in Account \ raced : Chained(a)

\* No entry makes a balance negative that must not be.
BalanceInv == \A i \in DOMAIN entries : entries[i].account \notin Lenient => entries[i].balance >= 0

=============================================================================
