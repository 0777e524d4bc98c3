---------------------------- MODULE OfflineSales ----------------------------
(***************************************************************************)
(* Sales made without a connection: a device keeps them in its outbox and  *)
(* its pages send the outbox until the server has acknowledged every sale. *)
(*                                                                         *)
(* There are two such pairs.  A terminal (offline-terminal-sync.js) talks  *)
(* to TerminalSyncService.process_sync, the front office (offline-db.js,   *)
(* sync-manager.js) to sync_offline_sales_view.  Both handlers give each   *)
(* sale of the batch a transaction of its own; they differ in how they     *)
(* number it and in the order in which they lock.  All is of one branch    *)
(* and one day: that is as far as printed numbers can collide.             *)
(***************************************************************************)
EXTENDS Integers, Sequences, FiniteSets, FiniteSetsExt

CONSTANTS
  Device, Terminal,  \* devices with an outbox; those that are terminals
  Page, DeviceOf,    \* browser pages, and the device each runs on
  Worker,            \* web workers of the server
  Sale,              \* idempotency keys, in the order of IndexedDB
  Product,
  Home, Lines,       \* the device a sale is made on, and its products, line by line
  Tendered,          \* sales with a list of payments
  Earlier,           \* sales of the business outside the day's sequence
  Nobody,
  MaxFaults          \* bound: deaths, lost answers, failed commits

ASSUME OfflineAssumption ==
  /\ Sale \subseteq Nat /\ Terminal \subseteq Device /\ Tendered \subseteq Sale
  /\ DeviceOf \in [Page -> Device] /\ Home \in [Sale -> Device]
  /\ Lines \in [Sale -> Seq(Product)]
  /\ Earlier \in Nat /\ MaxFaults \in Nat /\ Nobody \notin Worker

VARIABLES
  outbox,  \* each device's pending sales
  pages,   \* each page's request: the worker it waits for, the answer it has
  work,    \* each worker's request and transaction
  sales,   \* Sale rows: idempotency_key, invoice_number, lines taken from BranchStock
  issued,  \* DocumentSequence.current_number
  made,    \* history: sales that were made
  torn,    \* history: sales whose commit failed after they were acknowledged
  faults   \* counts up to MaxFaults

vars == <<outbox, pages, work, sales, issued, made, torn, faults>>

Quiet == [at |-> "idle", server |-> Nobody, acked |-> {}]
Free == [at |-> "idle", client |-> Nobody, todo |-> {}, acked |-> {},
         number |-> 0, line |-> 1, moved |-> {}, held |-> {}]

Init ==
  /\ outbox = [d \in Device |-> {}]
  /\ pages = [p \in Page |-> Quiet]
  /\ work = [w \in Worker |-> Free]
  /\ sales = {} /\ issued = 0
  /\ made = {} /\ torn = {} /\ faults = 0

At(w, place) == work[w].at = place
Becomes(w, request) == work' = [work EXCEPT ![w] = request]
Fault == faults < MaxFaults /\ faults' = faults + 1

Keys == {r.key : r \in sales}
Numbers == {r.number : r \in sales}

-----------------------------------------------------------------------------
(* The device.                                                             *)

MakeSale(k) ==
  /\ k \notin made
  /\ outbox' = [outbox EXCEPT ![Home[k]] = @ \cup {k}]
  /\ made' = made \cup {k}
  /\ UNCHANGED <<pages, work, sales, issued, torn, faults>>

\* One request with all that is pending; a page has one request at a time.
Send(p, w) ==
  LET pending == outbox[DeviceOf[p]] IN
  /\ pages[p].at = "idle" /\ pending # {} /\ At(w, "idle")
  /\ pages' = [pages EXCEPT ![p] = [Quiet EXCEPT !.at = "wait", !.server = w]]
  /\ Becomes(w, [Free EXCEPT !.at = "look", !.client = p, !.todo = pending])
  /\ UNCHANGED <<outbox, sales, issued, made, torn, faults>>

\* What is acknowledged leaves the outbox: a terminal deletes it in one
\* transaction, the front office one sale after the other.
Forget(p) ==
  LET answer == pages[p].acked  d == DeviceOf[p] IN
  /\ pages[p].at = "answer"
  /\ IF answer = {} THEN pages' = [pages EXCEPT ![p] = Quiet] /\ UNCHANGED outbox
     ELSE \E S \in (IF d \in Terminal THEN {answer} ELSE {{k} : k \in answer}) :
            /\ outbox' = [outbox EXCEPT ![d] = @ \ S]
            /\ pages' = [pages EXCEPT ![p].acked = @ \ S]
  /\ UNCHANGED <<work, sales, issued, made, torn, faults>>

Serves(w, p) == ~At(w, "idle") /\ work[w].client = p /\ pages[p].server = w

\* The worker died, or its answer failed: fetch throws.
NoAnswer(p) ==
  /\ pages[p].at = "wait" /\ ~\E w \in Worker : Serves(w, p)
  /\ pages' = [pages EXCEPT ![p] = Quiet]
  /\ UNCHANGED <<outbox, work, sales, issued, made, torn, faults>>

\* The connection breaks or the page is loaded again while the server works
\* for it, or while it deletes.
Break(p) ==
  /\ pages[p].at # "idle" /\ Fault
  /\ pages' = [pages EXCEPT ![p] = Quiet]
  /\ UNCHANGED <<outbox, work, sales, issued, made, torn>>

-----------------------------------------------------------------------------
(* The server: sale by sale.                                               *)

Current(r) == Min(r.todo)
OnTerminal(r) == Home[Current(r)] \in Terminal
Basket(r) == Lines[Current(r)]

\* On to the next sale of the batch; what the transaction held is released.
Passed(r, acked) ==
  [Free EXCEPT !.at = "look", !.client = r.client, !.todo = r.todo \ {Current(r)}, !.acked = acked]
Acknowledged(r) == Passed(r, r.acked \cup {Current(r)})
BatchFailed(r) == [Passed(r, r.acked) EXCEPT !.todo = {}]
FailedDropped(r) == Passed(r, r.acked \cup {Current(r)})
Failed(r) == Passed(r, r.acked)

Continue(w, request) ==
  Becomes(w, request) /\ UNCHANGED <<outbox, pages, sales, issued, made, torn, faults>>
Fail(w) == Continue(w, Failed(work[w]))

\* The look-up by key sees what is committed.
LookUp(w) ==
  LET r == work[w] IN
  /\ At(w, "look") /\ r.todo # {}
  /\ Continue(w, IF Current(r) \in Keys THEN Acknowledged(r) ELSE [r EXCEPT !.at = "number"])

Available(w, row) == \A v \in Worker \ {w} : row \notin work[v].held
Sequence == <<"sequence", 0>>

\* A terminal's sale takes the next number of the sequence, whose row it keeps;
\* the front office counts the sales.
Number(w) ==
  LET r == work[w] IN
  /\ At(w, "number")
  /\ IF OnTerminal(r)
     THEN /\ Available(w, Sequence)
          /\ Continue(w, [r EXCEPT !.at = "insert", !.number = issued + 1, !.held = {Sequence}])
     ELSE Continue(w, [r EXCEPT !.at = "insert", !.number = Earlier + Cardinality(sales) + 1])

\* Key and number are unique; the insertion waits for a transaction that has
\* inserted the same and has not ended.
UniqueRows(r) == {<<"key", Current(r)>>, <<"number", r.number>>}
NumberTaken(r) == r.number \in Numbers
Taken(r) == Current(r) \in Keys \/ r.number \in Numbers

Insert(w) ==
  LET r == work[w] IN
  /\ At(w, "insert") /\ \A row \in UniqueRows(r) : Available(w, row)
  /\ IF Taken(r) THEN Fail(w)
     ELSE Continue(w, [r EXCEPT !.at = "line", !.held = @ \cup UniqueRows(r)])

\* Each line locks the branch's stock and the product: a terminal's sale in
\* this order, the front office in the other.
RowOf(r, which) ==
  LET table == IF OnTerminal(r) = (which = 1) THEN "stock" ELSE "product"
  IN <<table, Basket(r)[r.line]>>

LockFirst(w) ==
  LET r == work[w] IN
  /\ At(w, "line") /\ r.line \in DOMAIN Basket(r) /\ Available(w, RowOf(r, 1))
  /\ Continue(w, [r EXCEPT !.at = "second", !.held = @ \cup {RowOf(r, 1)}])

Deduct(w) ==
  LET r == work[w] IN
  /\ At(w, "second") /\ Available(w, RowOf(r, 2))
  /\ Continue(w, [r EXCEPT !.at = "line", !.held = @ \cup {RowOf(r, 2)},
                           !.moved = @ \cup {r.line}, !.line = @ + 1])

Complete(w) == At(w, "line") /\ work[w].line \notin DOMAIN Basket(work[w])

\* The front office names a payment's reference by a field that does not exist.
PaymentRaises(r) == ~OnTerminal(r) /\ Current(r) \in Tendered

Pay(w) == Complete(w) /\ PaymentRaises(work[w]) /\ Fail(w)

Row(r) == [key |-> Current(r), number |-> r.number, moved |-> r.moved]

\* The sale is acknowledged before its transaction commits.
Commit(w) ==
  LET r == work[w] IN
  /\ Complete(w) /\ ~PaymentRaises(r)
  /\ sales' = sales \cup {Row(r)}
  /\ issued' = IF OnTerminal(r) THEN r.number ELSE issued
  /\ Becomes(w, Acknowledged(r)) /\ UNCHANGED <<outbox, pages, made, torn, faults>>

CommitFails(w) ==
  LET r == work[w] IN
  /\ Complete(w) /\ ~PaymentRaises(r) /\ Fault
  /\ torn' = torn \cup {Current(r)}
  /\ Becomes(w, Acknowledged(r)) /\ UNCHANGED <<outbox, pages, sales, issued, made>>

\* The answer reaches the page if it still waits for it.
Answer(w) ==
  LET p == work[w].client IN
  /\ At(w, "look") /\ work[w].todo = {}
  /\ pages' = IF Serves(w, p) /\ pages[p].at = "wait"
              THEN [pages EXCEPT ![p] = [Quiet EXCEPT !.at = "answer", !.acked = work[w].acked]]
              ELSE pages
  /\ Becomes(w, Free) /\ UNCHANGED <<outbox, sales, issued, made, torn, faults>>

Die(w) ==
  /\ ~At(w, "idle") /\ Fault /\ Becomes(w, Free)
  /\ UNCHANGED <<outbox, pages, sales, issued, made, torn>>

\* PostgreSQL breaks a circle of waiting transactions.
Wanted(w) ==
  LET r == work[w] IN
  IF At(w, "line") /\ ~Complete(w) THEN {RowOf(r, 1)}
  ELSE IF At(w, "second") THEN {RowOf(r, 2)} ELSE {}
WaitsFor(w, v) == w # v /\ Wanted(w) \cap work[v].held # {}
Circle(S) == S # {} /\ \A w \in S : \E v \in S : WaitsFor(w, v)
Deadlock == \E S \in SUBSET Worker : Circle(S)

\* The front office deducts from the branch's stock in a savepoint and swallows
\* what it raises: the sale goes on without.
DeadlockVictim(w) ==
  LET r == work[w] IN
  /\ \E S \in SUBSET Worker : w \in S /\ Circle(S)
  /\ IF At(w, "second") /\ ~OnTerminal(r)
     THEN Continue(w, [r EXCEPT !.at = "line", !.line = @ + 1])
     ELSE Fail(w)

-----------------------------------------------------------------------------
PageStep(p) == (\E w \in Worker : Send(p, w)) \/ Forget(p) \/ NoAnswer(p)
Step(w) ==
  \/ LookUp(w) \/ Number(w) \/ Insert(w) \/ LockFirst(w) \/ Deduct(w)
  \/ Pay(w) \/ Commit(w) \/ Answer(w)

Next ==
  \/ \E k \in Sale : MakeSale(k)
  \/ \E p \in Page : PageStep(p) \/ Break(p)
  \/ \E w \in Worker : Step(w) \/ CommitFails(w) \/ Die(w) \/ DeadlockVictim(w)

\* Pages send on a timer and use the answer; a worker that runs goes on, and
\* gets a row it waits for in turn; the database breaks circles.
Fairness ==
  /\ \A p \in Page : WF_vars(PageStep(p))
  /\ \A w \in Worker : SF_vars(Step(w))
  /\ WF_vars(\E w \in Worker : DeadlockVictim(w))

Spec == Init /\ [][Next]_vars
FairSpec == Spec /\ Fairness

-----------------------------------------------------------------------------
Place == {"idle", "look", "number", "insert", "line", "second"}
Rows == ({"sequence", "key", "number"} \X Nat) \cup
        ({"stock", "product"} \X Product)
Request == [at : Place, client : Page \cup {Nobody}, todo : SUBSET Sale, acked : SUBSET Sale,
            number : Nat, line : Nat \ {0}, moved : SUBSET Nat, held : SUBSET Rows]
Waiting == [at : {"idle", "wait", "answer"}, server : Worker \cup {Nobody}, acked : SUBSET Sale]

TypeOK ==
  /\ outbox \in [Device -> SUBSET Sale]
  /\ pages \in [Page -> Waiting] /\ work \in [Worker -> Request]
  /\ sales \subseteq [key : Sale, number : Nat, moved : SUBSET Nat]
  /\ issued \in Nat /\ faults \in 0..MaxFaults
  /\ made \subseteq Sale /\ torn \subseteq Sale

\* However often and by whatever pages a sale is sent, one row records it, with
\* a number of its own; and all lines of a terminal's sale have left the stock.
\* (process_sync and sync_offline_sales_view, whose look-up holds nothing.)
RecordedOnce ==
  /\ \A q, r \in sales : q.key = r.key \/ q.number = r.number => q = r
  /\ \A r \in sales : Home[r.key] \in Terminal => r.moved = DOMAIN Lines[r.key]

\* A sale that was made is pending on its device or recorded by the server,
\* whatever dies and whatever answers are lost, unless its commit failed after
\* it was acknowledged.
\* (applySyncResponse and sync, which delete what the answer names.)
NothingLost == \A k \in made : k \in outbox[Home[k]] \cup Keys \cup torn

\* Again and again there is nothing left to send: every sale made by then has
\* reached the server and left its outbox, whatever other sales of its batch
\* fail, as long as deadlocks do not go on for ever.  Not so for a sale of the
\* front office with payments, and for a terminal's when a counted number has
\* taken the one it is due.
\* (The pages' timers and the batch loops of the two handlers.)
Arrived(k) == k \in Keys /\ k \notin outbox[Home[k]]
Barred(k) ==
  \/ k \in torn
  \/ Home[k] \notin Terminal /\ k \in Tendered
  \/ Home[k] \in Terminal /\ issued + 1 \in Numbers
EverySaleArrives == []<>(Deadlock \/ \A k \in made : Arrived(k) \/ Barred(k))

=============================================================================
