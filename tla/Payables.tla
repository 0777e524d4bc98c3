------------------------------ MODULE Payables ------------------------------
(***************************************************************************)
(* What a business owes one supplier: invoices and received purchases that *)
(* have no invoice, the payments allocated to them, the credits applied to *)
(* them or refunded, and the reversal of payments.                         *)
(*                                                                         *)
(* Each operation is one transaction at READ COMMITTED.  None of them      *)
(* locks a bill or a credit before it decides on its balance.  What keeps  *)
(* some payments apart, and some refunds, is their number:                 *)
(* next_document_number locks a sequence row, and they hold it until they  *)
(* commit.  The row is the first there is for the year of the entered      *)
(* date; when there is none it is created, perhaps by several at once; and *)
(* a number that cannot be had there is made up without any lock.          *)
(***************************************************************************)
EXTENDS Integers, FiniteSets, FiniteSetsExt, Functions

CONSTANTS
  Connection,   \* database connections, each with one transaction at a time
  Bill,         \* numbered in the order in which they are due
  Invoice,      \* the bills that are SupplierInvoices; the others are Purchases
  Due,          \* amount of each bill
  Payment,      \* the SupplierPayments that can be made
  Year,         \* fiscal years
  RowId,        \* DocumentSequence.id of the rows of a kind and year
  Started,      \* the sequence rows that there are at the start
  Entries,      \* what may be entered for a payment
  Credit,
  CreditAmount, \* amount of each credit
  Uses,         \* amounts in which credits are applied or refunded, and dates
  MaxCrossed    \* bound: balances on which transactions meet

ASSUME PayablesAssumption ==
  /\ Bill \subseteq Nat /\ Invoice \subseteq Bill /\ Due \in [Bill -> Nat]
  /\ \A b \in Invoice : Due[b] > 0  \* create_invoice refuses any other
  /\ IsFiniteSet(Bill) /\ IsFiniteSet(Payment) /\ IsFiniteSet(Credit)
  /\ Payment \subseteq Nat /\ RowId \subseteq Nat /\ CreditAmount \in [Credit -> Nat]
  /\ Uses \subseteq [amount : Nat \ {0}, year : Year]
  /\ MaxCrossed \in Nat
  /\ Entries \subseteq [form : {"invoices", "purchases"}, amount : Nat \ {0},
                        asked : [Bill -> Nat], year : Year]

SequenceRow == [of : {"payment", "refund"}, year : Year, id : RowId]
ASSUME StartedAssumption == Started \subseteq SequenceRow

VARIABLES
  payments,  \* the SupplierPayments: amount, and whether reversed
  paid,      \* PaymentAllocation of a payment to a bill
  credited,  \* SupplierCreditApplication of a credit to a bill
  refunded,  \* SupplierRefund of a credit
  allocated, \* SupplierCredit.allocated_amount
  invoiceStatus, \* SupplierInvoice.status
  sequences, \* the DocumentSequence rows for payments and for refunds
  tx,        \* each session's transaction: what it has read and not yet committed
  crossed    \* history: bills and credits on whose balance two transactions
             \* that no sequence row keeps apart worked at the same time, and
             \* credits used after a view had read them

payablesVars ==
  <<payments, paid, credited, refunded, allocated, invoiceStatus, sequences, tx, crossed>>

Zero == [b \in Bill |-> 0]
NoPayment == [amount |-> 0, reversed |-> FALSE]
NoEntry == [form |-> "none", amount |-> 0, asked |-> Zero, year |-> 0]
NoTx == [at |-> "idle", kind |-> "none", entry |-> NoEntry, year |-> 0, numbered |-> {},
         payment |-> 0, credit |-> "none", amount |-> 0, copy |-> 0, total |-> 0,
         todo |-> {}, bill |-> 0, alloc |-> Zero,
         verdict |-> "none", marks |-> [b \in {} |-> "none"],
         held |-> {}, used |-> {}]

PayablesInit ==
  /\ payments = [p \in Payment |-> NoPayment]
  /\ paid = [p \in Payment |-> Zero]
  /\ credited = [c \in Credit |-> Zero]
  /\ refunded = [c \in Credit |-> 0]
  /\ allocated = [c \in Credit |-> 0]
  /\ invoiceStatus = [b \in Invoice |-> "unpaid"]
  /\ sequences = Started
  /\ tx = [s \in Connection |-> NoTx]
  /\ crossed = {}

tables == <<payments, paid, credited, refunded, allocated, invoiceStatus, sequences>>

AtStage(s, place) == tx[s].at = place
Step(s, w) == tx' = [tx EXCEPT ![s] = w] /\ UNCHANGED <<tables, crossed>>
Rollback(s) == Step(s, NoTx)

SumOver(S, f(_)) == SumFunctionOnSet([x \in S |-> f(x)], S)
Paid(b) == SumOver(Payment, LAMBDA p : paid[p][b])
Credited(b) == SumOver(Credit, LAMBDA c : credited[c][b])
Used(c) == refunded[c] + SumOver(Bill, LAMBDA b : credited[c][b])
AtLeastZero(n) == IF n < 0 THEN 0 ELSE n

\* What a session's transaction sees: what is committed and what it wrote.
Deleted(w, b) ==
  IF w.kind = "reversal" /\ w.at \notin {"list", "delete"} THEN paid[w.payment][b] ELSE 0
SeenPaid(w, b) ==
  Paid(b) - Deleted(w, b) + (IF w.kind = "payment" THEN w.alloc[b] ELSE 0)
SeenCredited(w, b) == Credited(b) + (IF w.kind = "apply" THEN w.alloc[b] ELSE 0)
RemainingUncredited(w, b) == AtLeastZero(Due[b] - SeenPaid(w, b))
Remaining(w, b) == AtLeastZero(Due[b] - SeenPaid(w, b) - SeenCredited(w, b))

\* recalculate_status.
StatusFor(due, settled) ==
  IF settled >= due THEN "paid" ELSE IF settled > 0 THEN "partially_paid" ELSE "unpaid"

\* Rows: they are locked from the write to the end of the transaction.
Row(table, key) == <<table, key>>
Free(s, row) == \A o \in Connection \ {s} : row \notin tx[o].held

-----------------------------------------------------------------------------
(* next_document_number.                                                   *)

Committed(of, year) == {r \in sequences : r.of = of /\ r.year = year}
Fresh == SequenceRow \ (sequences \cup UNION {tx[s].numbered : s \in Connection})

\* SELECT .. FOR UPDATE finds the first row of the kind and year, or a row is
\* inserted that nobody sees before the commit.  When either fails, the number
\* follows the last one of today: no row is locked.
ChooseSequence(s) ==
  LET w == tx[s]
      found == Committed(w.kind, w.year)
      numbering(rows) == Step(s, [w EXCEPT !.at = "wait", !.numbered = rows])
  IN
  /\ AtStage(s, "number")
  /\ \/ \E r \in found : r.id = Min({x.id : x \in found}) /\ numbering({r})
     \/ found = {} /\ \E r \in Fresh : r.of = w.kind /\ r.year = w.year /\ numbering({r})
     \/ numbering({})

NumberRows(w) == {Row("numbers", r) : r \in w.numbered}
NumberUnlocked(s) == TRUE
NumberFree(s) == \A row \in NumberRows(tx[s]) : Free(s, row)

-----------------------------------------------------------------------------
(* record_payment and create_payment.                                      *)

Begin(s, entry) ==
  /\ AtStage(s, "idle")
  /\ Step(s, [NoTx EXCEPT !.at = "number", !.kind = "payment", !.entry = entry,
                !.year = entry.year])

Unnumbered == {p \in Payment : payments[p].amount = 0 /\ \A s \in Connection : tx[s].payment # p}
Fifo(w) == w.entry.asked = Zero
Open == {b \in Invoice : invoiceStatus[b] \in {"unpaid", "partially_paid"}}

\* The payment is inserted with its number.  Without allocations entered by
\* the user it goes to the open invoices and then the purchases, in the order
\* in which they are due; the form for purchases knows only of those.
CreatePayment(s) ==
  LET w == tx[s] IN
  /\ AtStage(s, "wait") /\ w.kind = "payment" /\ NumberFree(s) /\ Unnumbered # {}
  /\ Step(s, [w EXCEPT !.at = "pay", !.payment = Min(Unnumbered), !.held = NumberRows(w),
                !.todo = IF ~Fifo(w) THEN {b \in Bill : w.entry.asked[b] > 0}
                         ELSE (Bill \ Invoice) \cup
                              (IF w.entry.form = "invoices" THEN Open ELSE {})])

Spent(w) == SumOver(Bill, LAMBDA b : w.alloc[b])
Share(w, b) ==
  IF Fifo(w) THEN Min({w.entry.amount - Spent(w), Remaining(w, b)})
  ELSE Min({w.entry.asked[b], Remaining(w, b)})
TooMuch(w, b) ==
  w.entry.form = "purchases" /\ ~Fifo(w) /\ w.entry.asked[b] > Remaining(w, b)
Done(w) == w.todo = {} \/ (Fifo(w) /\ Spent(w) = w.entry.amount)

\* The next bill gets its share of what the session sees to be outstanding; the
\* form for purchases refuses an amount that exceeds it.
Allocate(s) ==
  LET w == tx[s]
      b == Min(w.todo)
      paying == [w EXCEPT !.alloc[b] = Share(w, b), !.used = @ \cup {Row("bill", b)},
                          !.todo = @ \ {b}]
  IN
  /\ AtStage(s, "pay") /\ ~Done(w)
  /\ IF TooMuch(w, b) THEN Rollback(s)
     ELSE Step(s, IF b \in Invoice THEN [paying EXCEPT !.at = "assess", !.bill = b] ELSE paying)

\* recalculate_status sums what is committed and what this transaction wrote ...
Assess(s) ==
  LET w == tx[s] IN
  /\ AtStage(s, "assess")
  /\ Step(s, [w EXCEPT !.at = "mark", !.used = @ \cup {Row("bill", w.bill)},
                !.verdict = StatusFor(Due[w.bill], SeenPaid(w, w.bill) + SeenCredited(w, w.bill))])

\* ... and its UPDATE waits for a transaction that has written the invoice.
Mark(s) ==
  LET w == tx[s] IN
  /\ AtStage(s, "mark") /\ Free(s, Row("bill", w.bill))
  /\ Step(s, [w EXCEPT !.at = IF w.kind = "payment" THEN "pay" ELSE "finish",
                !.held = @ \cup {Row("bill", w.bill)},
                !.marks = [b \in DOMAIN @ \cup {w.bill} |->
                             IF b = w.bill THEN w.verdict ELSE @[b]]])

\* Two transactions meet on a balance that both work on, unless they took their
\* numbers from the same sequence row: the second would still wait for it.
Meet(s, o) == tx[s].numbered \cap tx[o].numbered = {}
Crossing(s) ==
  UNION {tx[s].used \cap tx[o].used : o \in {o \in Connection \ {s} : Meet(s, o)}}
Marked(w) == [b \in Invoice |-> IF b \in DOMAIN w.marks THEN w.marks[b] ELSE invoiceStatus[b]]

\* A payment allocated beyond its amount is rolled back.
CommitPayment(s) ==
  LET w == tx[s] IN
  /\ AtStage(s, "pay") /\ Done(w)
  /\ IF Spent(w) > w.entry.amount THEN Rollback(s)
     ELSE /\ payments' = [payments EXCEPT ![w.payment].amount = w.entry.amount]
          /\ paid' = [paid EXCEPT ![w.payment] = w.alloc]
          /\ invoiceStatus' = Marked(w)
          /\ sequences' = sequences \cup w.numbered
          /\ crossed' = crossed \cup Crossing(s)
          /\ tx' = [tx EXCEPT ![s] = NoTx]
          /\ UNCHANGED <<credited, refunded, allocated>>

-----------------------------------------------------------------------------
(* reverse_payment.                                                        *)

\* The view reads the payment, which must not be reversed.
ReadPayment(s, p) ==
  /\ AtStage(s, "idle") /\ payments[p].amount > 0 /\ ~payments[p].reversed
  /\ Step(s, [NoTx EXCEPT !.at = "list", !.kind = "reversal", !.payment = p])

ReopensNothing(w) == {}
Reopens(w) == {b \in Invoice : paid[w.payment][b] > 0}

\* The allocations are read, then deleted, which waits for another reversal.
ListAllocations(s) ==
  /\ AtStage(s, "list")
  /\ Step(s, [tx[s] EXCEPT !.at = "delete", !.todo = Reopens(tx[s])])
DeleteAllocations(s) ==
  LET row == Row("allocations", tx[s].payment) IN
  /\ AtStage(s, "delete") /\ Free(s, row)
  /\ Step(s, [tx[s] EXCEPT !.at = "finish", !.held = {row},
                !.used = {Row("bill", b) : b \in {b \in Bill : paid[tx[s].payment][b] > 0}}])

\* Each invoice is assessed in turn, in the order of a set.
Reopen(s, b) ==
  /\ AtStage(s, "finish") /\ b \in tx[s].todo
  /\ Step(s, [tx[s] EXCEPT !.at = "assess", !.bill = b, !.todo = @ \ {b}])

CommitReversal(s) ==
  LET w == tx[s] IN
  /\ AtStage(s, "finish") /\ w.kind = "reversal" /\ w.todo = {}
  /\ payments' = [payments EXCEPT ![w.payment].reversed = TRUE]
  /\ paid' = [paid EXCEPT ![w.payment] = Zero]
  /\ invoiceStatus' = Marked(w)
  /\ crossed' = crossed \cup Crossing(s)
  /\ tx' = [tx EXCEPT ![s] = NoTx]
  /\ UNCHANGED <<credited, refunded, allocated, sequences>>

-----------------------------------------------------------------------------
(* apply_credit_to_invoice and record_refund.                              *)

\* The view reads the credit; what is left of it is computed on that copy.
ReadCredit(s, kind, c, b, use) ==
  /\ AtStage(s, "idle")
  /\ use.amount <= AtLeastZero(CreditAmount[c] - allocated[c])
  /\ Step(s, [NoTx EXCEPT !.at = IF kind = "apply" THEN "apply" ELSE "number", !.kind = kind,
                !.credit = c, !.bill = b, !.amount = use.amount, !.year = use.year,
                !.copy = allocated[c]])

\* The application is refused when it exceeds what is left of the invoice.
Apply(s) ==
  LET w == tx[s] IN
  /\ AtStage(s, "apply")
  /\ IF w.amount > Remaining(w, w.bill) THEN Rollback(s)
     ELSE Step(s, [w EXCEPT !.at = "total", !.alloc[w.bill] = w.amount,
                   !.used = {Row("bill", w.bill)}])

\* A refund takes its number first, as a payment does.
Refund(s) ==
  /\ AtStage(s, "wait") /\ tx[s].kind = "refund" /\ NumberFree(s)
  /\ Step(s, [tx[s] EXCEPT !.at = "total", !.held = NumberRows(tx[s])])

\* recalculate_resolution sums the uses of the credit, and saves the sum.
TotalCredit(s) ==
  LET w == tx[s] IN
  /\ AtStage(s, "total")
  /\ Step(s, [w EXCEPT !.at = "credit", !.total = Used(w.credit) + w.amount,
                !.used = @ \cup {Row("credit", w.credit)}])
MarkCredit(s) ==
  LET w == tx[s] IN
  /\ AtStage(s, "credit") /\ Free(s, Row("credit", w.credit))
  /\ Step(s, [w EXCEPT !.at = IF w.kind = "apply" THEN "assess" ELSE "finish",
                !.held = @ \cup {Row("credit", w.credit)}])

CommitCredit(s) ==
  LET w == tx[s] IN
  /\ AtStage(s, "finish") /\ w.kind \in {"apply", "refund"}
  /\ credited' = [credited EXCEPT ![w.credit] = [b \in Bill |-> @[b] + w.alloc[b]]]
  /\ refunded' = [refunded EXCEPT ![w.credit] = @ + (IF w.kind = "refund" THEN w.amount ELSE 0)]
  /\ allocated' = [allocated EXCEPT ![w.credit] = w.total]
  /\ invoiceStatus' = Marked(w)
  /\ sequences' = sequences \cup w.numbered
  /\ crossed' = crossed \cup Crossing(s)
                \cup (IF allocated[w.credit] = w.copy THEN {} ELSE {Row("copy", w.credit)})
  /\ tx' = [tx EXCEPT ![s] = NoTx]
  /\ UNCHANGED <<payments, paid>>

\* The process dies, or PostgreSQL ends a deadlock of a payment and a reversal
\* that write the same invoices in different orders.
Abort(s) == ~AtStage(s, "idle") /\ Rollback(s)

OfPayment(s) ==
  \/ \E entry \in Entries : Begin(s, entry)
  \/ CreatePayment(s) \/ Allocate(s) \/ CommitPayment(s)
OfReversal(s) ==
  \/ \E p \in Payment : ReadPayment(s, p)
  \/ ListAllocations(s) \/ DeleteAllocations(s) \/ CommitReversal(s)
  \/ \E b \in Invoice : Reopen(s, b)
OfCredit(s) ==
  \/ \E c \in Credit, use \in Uses :
       \/ \E b \in Invoice : ReadCredit(s, "apply", c, b, use)
       \/ ReadCredit(s, "refund", c, 0, use)
  \/ Apply(s) \/ Refund(s) \/ TotalCredit(s) \/ MarkCredit(s) \/ CommitCredit(s)

PayablesNext ==
  /\ \E s \in Connection :
       \/ OfPayment(s) \/ OfReversal(s) \/ OfCredit(s)
       \/ ChooseSequence(s) \/ Assess(s) \/ Mark(s) \/ Abort(s)
  /\ Cardinality(crossed') <= MaxCrossed

PayablesSpec == PayablesInit /\ [][PayablesNext]_payablesVars

-----------------------------------------------------------------------------

Crossed(table, key) == Row(table, key) \in crossed

\* No bill is settled beyond its amount and no credit used beyond its own, by
\* payments or refunds that run at the same time and take their numbers from the
\* same row, nor by anything else unless two transactions that no row keeps
\* apart met on its balance; no payment is allocated beyond its amount, and a
\* reversed one not at all (supplier_ap_services.py 190-345, 390-460).
WithinAmounts ==
  /\ \A b \in Bill : ~Crossed("bill", b) => Paid(b) + Credited(b) <= Due[b]
  /\ \A c \in Credit : ~Crossed("credit", c) /\ ~Crossed("copy", c) => Used(c) <= CreditAmount[c]
  /\ \A p \in Payment :
       SumOver(Bill, LAMBDA b : paid[p][b])
         <= (IF payments[p].reversed THEN 0 ELSE payments[p].amount)

\* The status of an invoice and the allocated amount of a credit, which later
\* payments and applications go by, tell what the rows add up to, after any
\* sequence of payments, credits and reversals, unless two of them that no
\* sequence row keeps apart met on it.
BalancesTold ==
  /\ \A b \in Invoice :
       ~Crossed("bill", b) => invoiceStatus[b] = StatusFor(Due[b], Paid(b) + Credited(b))
  /\ \A c \in Credit : ~Crossed("credit", c) => allocated[c] = Used(c)

=============================================================================
