-------------------------------- MODULE Till --------------------------------
(***************************************************************************)
(* Cashier shifts (POSSession): opening, the sales and the cash slips that *)
(* are booked on them, and closing with a Z report.                        *)
(*                                                                         *)
(* A sale looks for an open shift before its transaction starts and never  *)
(* checks again; a slip does not ask whether the shift is open.  Their     *)
(* foreign keys are checked when they commit, and that check waits for the *)
(* row lock with which close_session begins.                               *)
(***************************************************************************)
EXTENDS Integers, FiniteSets, FiniteSetsExt, Functions

CONSTANTS
  Worker,      \* web requests
  Cashier,
  Shift,       \* session numbers
  Sale, SaleCash,    \* sales, and the cash each brings
  Slip, SlipAmount,  \* cash pickups and paid-outs, and their amounts
  Float        \* cash in the drawer when a shift is opened

ASSUME TillAssumption ==
  /\ Shift \subseteq Nat /\ Float \in Nat
  /\ SaleCash \in [Sale -> Nat] /\ SlipAmount \in [Slip -> Nat \ {0}]

VARIABLES
  shifts,   \* POSSession: cashier and status
  sales,    \* Sale: its shift, whether is_locked
  slips,    \* CashPickup and CashPaidOut: shift and status
  reports,  \* ZReport rows: z_number, session, sales and expected cash
  work,     \* each worker's request
  late,     \* history: sales and slips booked on a shift that was closed by then
  undone    \* history: slips that have been reversed

vars == <<shifts, sales, slips, reports, work, late, undone>>
tables == <<shifts, sales, slips, reports, late, undone>>

NoShift == [cashier |-> "none", status |-> "none"]
Idle == [at |-> "idle", cashier |-> "none", shift |-> 0, item |-> "none", copy |-> "none",
         counted |-> {}, taken |-> {}, z |-> 0, held |-> {}]

Init ==
  /\ shifts = [k \in Shift |-> NoShift]
  /\ sales = [s \in {} |-> 0]
  /\ slips = [p \in {} |-> 0]
  /\ reports = {}
  /\ work = [w \in Worker |-> Idle]
  /\ late = {} /\ undone = {}

At(w, place) == work[w].at = place
Goto(w, request) == work' = [work EXCEPT ![w] = request]
Finish(w) == Goto(w, Idle)
Refuse(w) == Finish(w) /\ UNCHANGED tables

Row(table, key) == <<table, key>>
RowIgnored(w, row) == TRUE
RowFree(w, row) == \A o \in Worker \ {w} : row \notin work[o].held

Known == {k \in Shift : shifts[k].status # "none"}
IsOpen(k) == shifts[k].status = "open"
SalesOf(k) == {s \in DOMAIN sales : sales[s].shift = k}
SlipsOf(k) == {p \in DOMAIN slips : slips[p].shift = k /\ slips[p].status # "reversed"}
Total(amounts, S) == SumFunctionOnSet(amounts, S)
Expected(sold, taken) == Float + Total(SaleCash, sold) - Total(SlipAmount, taken)
Drawer(k) == Expected(SalesOf(k), SlipsOf(k))

-----------------------------------------------------------------------------
(* Opening.  Neither the check for an open shift nor the number is locked; *)
(* only (business, session_number) is unique.                              *)

AskOpen(w, c) ==
  /\ At(w, "idle") /\ \A k \in Known : ~(IsOpen(k) /\ shifts[k].cashier = c)
  /\ Shift # Known
  /\ Goto(w, [Idle EXCEPT !.at = "open", !.cashier = c]) /\ UNCHANGED tables

NumberShift(w) ==
  /\ At(w, "open")
  /\ \E k \in Shift \ Known :
       /\ \A j \in Shift \ Known : k <= j
       /\ Goto(w, [work[w] EXCEPT !.at = "insert", !.shift = k])
  /\ UNCHANGED tables

InsertShift(w) ==
  LET k == work[w].shift IN
  /\ At(w, "insert")
  /\ IF k \in Known THEN Refuse(w)
     ELSE /\ shifts' = [shifts EXCEPT ![k] = [cashier |-> work[w].cashier, status |-> "open"]]
          /\ Finish(w) /\ UNCHANGED <<sales, slips, reports, late, undone>>

-----------------------------------------------------------------------------
(* Sales and slips.                                                        *)

Fresh(item) ==
  item \notin DOMAIN sales \cup DOMAIN slips /\ \A w \in Worker : work[w].item # item

AskSale(w, k, s) ==
  /\ At(w, "idle") /\ IsOpen(k) /\ Fresh(s)
  /\ Goto(w, [Idle EXCEPT !.at = "sell", !.shift = k, !.item = s]) /\ UNCHANGED tables

Inserted(rows, id, row) ==
  [x \in DOMAIN rows \cup {id} |-> IF x = id THEN row ELSE rows[x]]
NoteLate(k, item) == late' = IF IsOpen(k) THEN late ELSE late \cup {item}

CommitSale(w) ==
  LET k == work[w].shift  s == work[w].item IN
  /\ At(w, "sell") /\ RowFree(w, Row("shift", k))
  /\ sales' = Inserted(sales, s, [shift |-> k, locked |-> FALSE])
  /\ NoteLate(k, s) /\ Finish(w)
  /\ UNCHANGED <<shifts, slips, reports, undone>>

\* A pickup takes any amount; a paid-out beyond what is in the drawer needs a
\* supervisor.
AskSlip(w, k, p, supervised) ==
  /\ At(w, "idle") /\ k \in Known /\ Fresh(p)
  /\ supervised \/ SlipAmount[p] <= Drawer(k)
  /\ Goto(w, [Idle EXCEPT !.at = "slip", !.shift = k, !.item = p]) /\ UNCHANGED tables

CommitSlip(w) ==
  LET k == work[w].shift  p == work[w].item IN
  /\ At(w, "slip") /\ RowFree(w, Row("shift", k))
  /\ slips' = Inserted(slips, p, [shift |-> k, status |-> "paid_out"])
  /\ NoteLate(k, p) /\ Finish(w)
  /\ UNCHANGED <<shifts, sales, reports, undone>>

\* A receipt, an exception, a write-off ("settled") or a reversal: the slip is
\* read, checked, and its whole row saved.
AskHandle(w, p, outcome) ==
  /\ At(w, "idle") /\ p \in DOMAIN slips /\ slips[p].status # "reversed"
  /\ Goto(w, [Idle EXCEPT !.at = "handle", !.item = p, !.copy = outcome]) /\ UNCHANGED tables

SaveSlip(w) ==
  LET p == work[w].item IN
  /\ At(w, "handle")
  /\ slips' = [slips EXCEPT ![p].status = work[w].copy]
  /\ undone' = IF work[w].copy = "reversed" THEN undone \cup {p} ELSE undone
  /\ Finish(w) /\ UNCHANGED <<shifts, sales, reports, late>>

-----------------------------------------------------------------------------
(* close_session: one transaction.                                         *)

AskClose(w, k) ==
  /\ At(w, "idle") /\ IsOpen(k)
  /\ Goto(w, [Idle EXCEPT !.at = "close", !.shift = k]) /\ UNCHANGED tables

LockShift(w) ==
  LET row == Row("shift", work[w].shift) IN
  /\ At(w, "close") /\ RowFree(w, row)
  /\ IF ~IsOpen(work[w].shift) THEN Refuse(w)
     ELSE Goto(w, [work[w] EXCEPT !.at = "count", !.held = {row}]) /\ UNCHANGED tables

\* _aggregate_session_data: what it sums.
Count(w) ==
  LET k == work[w].shift IN
  /\ At(w, "count")
  /\ Goto(w, [work[w] EXCEPT !.at = "last", !.counted = SalesOf(k), !.taken = SlipsOf(k)])
  /\ UNCHANGED tables

LastZ == Max({0} \cup {r.z : r \in reports})

\* _get_next_z_number reads the last report, waits until it can lock it, and
\* has then still the one it read.
ReadLastReport(w) ==
  /\ At(w, "last")
  /\ Goto(w, [work[w] EXCEPT !.at = "number", !.z = LastZ + 1]) /\ UNCHANGED tables

LockLastReport(w) ==
  LET row == Row("report", work[w].z - 1) IN
  /\ At(w, "number") /\ (work[w].z > 1 => RowFree(w, row))
  /\ Goto(w, [work[w] EXCEPT !.at = "report", !.held = @ \cup {row}]) /\ UNCHANGED tables

\* The unique index on (business, z_number) and the one-to-one session.
SessionTaken(request) == \E r \in reports : r.shift = request.shift
ReportTaken(request) == \E r \in reports : r.z = request.z \/ r.shift = request.shift

InsertReport(w) ==
  LET row == Row("z", work[w].z) IN
  /\ At(w, "report") /\ RowFree(w, row)
  /\ IF ReportTaken(work[w]) THEN Refuse(w)
     ELSE Goto(w, [work[w] EXCEPT !.at = "seal", !.held = @ \cup {row}]) /\ UNCHANGED tables

\* The UPDATE of the sales, the session, and the commit.
Seal(w) ==
  LET k == work[w].shift IN
  /\ At(w, "seal")
  /\ reports' = reports \cup {[z |-> work[w].z, shift |-> k, sales |-> work[w].counted,
                                cash |-> Expected(work[w].counted, work[w].taken)]}
  /\ sales' = [s \in DOMAIN sales |-> IF s \in SalesOf(k) THEN [sales[s] EXCEPT !.locked = TRUE] ELSE sales[s]]
  /\ shifts' = [shifts EXCEPT ![k].status = "closed"]
  /\ Finish(w) /\ UNCHANGED <<slips, late, undone>>

-----------------------------------------------------------------------------
Next == \E w \in Worker :
  \/ \E c \in Cashier : AskOpen(w, c)
  \/ NumberShift(w) \/ InsertShift(w)
  \/ \E k \in Shift, s \in Sale : AskSale(w, k, s)
  \/ \E k \in Shift, p \in Slip, supervised \in BOOLEAN : AskSlip(w, k, p, supervised)
  \/ CommitSale(w) \/ CommitSlip(w)
  \/ \E p \in Slip, outcome \in {"settled", "reversed"} : AskHandle(w, p, outcome)
  \/ SaveSlip(w)
  \/ \E k \in Shift : AskClose(w, k)
  \/ LockShift(w) \/ Count(w) \/ ReadLastReport(w) \/ LockLastReport(w)
  \/ InsertReport(w) \/ Seal(w)

Spec == Init /\ [][Next]_vars

-----------------------------------------------------------------------------
Place == {"idle", "open", "insert", "sell", "slip", "handle",
          "close", "count", "last", "number", "report", "seal"}
Rows == {"shift", "report", "z"} \X Nat
Request ==
  [at : Place, cashier : Cashier \cup {"none"}, shift : Nat, item : Sale \cup Slip \cup {"none"},
   copy : {"none", "settled", "reversed"}, counted : SUBSET Sale, taken : SUBSET Slip,
   z : Nat, held : SUBSET Rows]

TypeOK ==
  /\ shifts \in [Shift -> [cashier : Cashier \cup {"none"}, status : {"none", "open", "closed"}]]
  /\ DOMAIN sales \subseteq Sale
  /\ sales \in [DOMAIN sales -> [shift : Shift, locked : BOOLEAN]]
  /\ DOMAIN slips \subseteq Slip
  /\ slips \in [DOMAIN slips -> [shift : Shift, status : {"paid_out", "settled", "reversed"}]]
  /\ \A r \in reports : r.z \in Nat \ {0} /\ r.shift \in Shift /\ r.sales \subseteq Sale
  /\ work \in [Worker -> Request]
  /\ late \subseteq Sale \cup Slip /\ undone \subseteq Slip

\* A Z report is true to its shift: the sales it counts are the ones that are
\* locked, every other sale of the shift was booked after the close, and the
\* expected cash is that of these sales and of the slips booked before the
\* close, as long as none of them has been reversed.
\* (close_session while sales and slips of the shift commit.)
ReportTrue == \A r \in reports :
  LET k == r.shift
      onTime == {p \in DOMAIN slips \ late : slips[p].shift = k}
  IN
  /\ r.sales = {s \in SalesOf(k) : sales[s].locked}
  /\ SalesOf(k) \ r.sales \subseteq late
  /\ onTime \cap undone = {} =>
       r.cash = Expected(r.sales, onTime)

\* The Z reports are numbered from 1 without gap or repetition, one for each
\* closed shift, however many are closed at once.
\* (_get_next_z_number, whose lock does not stop two closes from reading the
\* same last report.)
ReportsNumbered ==
  /\ {r.z : r \in reports} = 1..Cardinality(reports)
  /\ \A k \in Known : Cardinality({r \in reports : r.shift = k}) = (IF IsOpen(k) THEN 0 ELSE 1)

=============================================================================
