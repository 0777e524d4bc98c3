------------------------------ MODULE TillProofs ------------------------------
(***************************************************************************)
(* Till, for any number of workers, cashiers, shifts, sales and slips: a Z *)
(* report is true to its shift, and the reports are numbered without gap.  *)
(* Checkout, for any number of requests, baskets, products and customers:  *)
(* what was sold is what left the stock, promotions are exceeded by less   *)
(* than there are requests, and customers keep their balance and points.   *)
(***************************************************************************)
EXTENDS Till, Checkout, SumLemmas, FiniteSetTheorems, TLAPS

-----------------------------------------------------------------------------
(* The inductive invariant.                                                *)

\* The places of close_session once it has locked the shift, summed it up, and
\* read the last report; and the places of a sale or slip.
ClosingAt == {"count", "last", "number", "report", "seal"}
SummedAt == {"last", "number", "report", "seal"}
NumberedAt == {"number", "report", "seal"}
BookingAt == {"sell", "slip"}
Closing(w) == work[w].at \in ClosingAt
Summed(w) == work[w].at \in SummedAt
Numbered(w) == work[w].at \in NumberedAt
Booking(w) == work[w].at \in BookingAt

\* A shift that is being closed is open and held by the one who closes it.
ShiftHeld == \A w \in Worker :
  Closing(w) => Row("shift", work[w].shift) \in work[w].held /\ work[w].shift \in Known
                /\ IsOpen(work[w].shift)
OneCloser == \A v, w \in Worker :
  Closing(v) /\ Closing(w) /\ work[v].shift = work[w].shift => v = w

\* Sales and slips belong to shifts that were opened, and what is about to be
\* booked is new.
ShiftsKnown ==
  /\ \A s \in DOMAIN sales : sales[s].shift \in Known
  /\ \A p \in DOMAIN slips : slips[p].shift \in Known
  /\ \A w \in Worker : work[w].at = "close" \/ Booking(w) => work[w].shift \in Known
ItemsNew ==
  /\ \A w \in Worker : Booking(w) => work[w].item \notin DOMAIN sales \cup DOMAIN slips
  /\ \A v, w \in Worker :
       Booking(v) /\ Booking(w) /\ work[v].item = work[w].item => v = w
ItemsTyped == \A w \in Worker :
  /\ work[w].at = "sell" => work[w].item \in Sale
  /\ work[w].at = "slip" => work[w].item \in Slip
  /\ work[w].at = "handle" => work[w].item \in DOMAIN slips /\ work[w].copy # "none"

\* What is late was booked on a shift that is closed now.
LateClosed ==
  /\ late \subseteq DOMAIN sales \cup DOMAIN slips
  /\ \A s \in DOMAIN sales \cap late : ~IsOpen(sales[s].shift)
  /\ \A p \in DOMAIN slips \cap late : ~IsOpen(slips[p].shift)
ReversedUndone == \A p \in DOMAIN slips : slips[p].status = "reversed" => p \in undone

\* What close_session has summed up is still so.
BookedOn(k) == {p \in DOMAIN slips : slips[p].shift = k}
SumsCurrent == \A w \in Worker :
  Summed(w) =>
    /\ work[w].counted = SalesOf(work[w].shift)
    /\ BookedOn(work[w].shift) \cap undone = {} => work[w].taken = BookedOn(work[w].shift)

\* The next number of a report is in the hands of one who closes a shift.
NumberNext == \A w \in Worker :
  Numbered(w) => work[w].z \in 1..(Cardinality(reports) + 1)
SealerAlone ==
  /\ \A w \in Worker : At(w, "seal") =>
       Row("z", work[w].z) \in work[w].held /\ \A r \in reports : r.z # work[w].z
  /\ \A v, w \in Worker :
       At(v, "seal") /\ At(w, "seal") /\ work[v].z = work[w].z => v = w

\* Reports and closed shifts correspond.
ReportsCount == IsFiniteSet(reports) /\ {r.z : r \in reports} = 1..Cardinality(reports)
ReportsClosed == \A r \in reports : shifts[r.shift].status = "closed"
ClosedReported == \A k \in Shift :
  shifts[k].status = "closed" => \E r \in reports : r.shift = k
OnePerShift == \A q, r \in reports : q.shift = r.shift => q = r

IInv ==
  /\ TypeOK
  /\ ShiftHeld /\ OneCloser /\ ShiftsKnown /\ ItemsNew /\ ItemsTyped
  /\ LateClosed /\ ReversedUndone /\ SumsCurrent /\ ReportTrue
  /\ NumberNext /\ SealerAlone
  /\ ReportsCount /\ ReportsClosed /\ ClosedReported /\ OnePerShift

-----------------------------------------------------------------------------
(* Steps of one worker's request.                                          *)

\* What the invariant asks of worker w whose request becomes q.
Fits(w, q) ==
  /\ q \in Request
  /\ q.at \in ClosingAt =>
       /\ Row("shift", q.shift) \in q.held /\ q.shift \in Known /\ IsOpen(q.shift)
       /\ \A v \in Worker \ {w} : Closing(v) => work[v].shift # q.shift
  /\ q.at = "close" \/ q.at \in BookingAt => q.shift \in Known
  /\ q.at \in BookingAt =>
       /\ q.item \notin DOMAIN sales \cup DOMAIN slips
       /\ \A v \in Worker \ {w} : Booking(v) => work[v].item # q.item
  /\ q.at = "sell" => q.item \in Sale
  /\ q.at = "slip" => q.item \in Slip
  /\ q.at = "handle" => q.item \in DOMAIN slips /\ q.copy # "none"
  /\ q.at \in SummedAt =>
       /\ q.counted = SalesOf(q.shift)
       /\ BookedOn(q.shift) \cap undone = {} => q.taken = BookedOn(q.shift)
  /\ q.at \in NumberedAt => q.z \in 1..(Cardinality(reports) + 1)
  /\ q.at = "seal" =>
       /\ Row("z", q.z) \in q.held /\ \A r \in reports : r.z # q.z
       /\ \A v \in Worker \ {w} : At(v, "seal") => work[v].z # q.z

\* A step changes the entry of its worker in work.
LEMMA Moved ==
  ASSUME TypeOK, NEW w \in Worker, NEW q, Goto(w, q)
  PROVE  /\ work' = [v \in Worker |-> IF v = w THEN q ELSE work[v]]
         /\ work'[w] = q /\ \A v \in Worker \ {w} : work'[v] = work[v]
BY DEF TypeOK, Goto

\* A worker that has nothing to do.
LEMMA IdleFits ==
  ASSUME NEW w \in Worker
  PROVE  Fits(w, Idle) /\ Idle.at = "idle" /\ Idle.held = {}
<1>1. Idle \in Request
  BY DEF Idle, Request, Place
<1> QED
  BY <1>1 DEF Fits, Idle, ClosingAt, SummedAt, NumberedAt, BookingAt

\* A request that goes on to where it fits keeps the invariant.
LEMMA Fitting ==
  ASSUME IInv, NEW w \in Worker, NEW q, Fits(w, q), Goto(w, q), UNCHANGED tables
  PROVE  IInv'
<1> DEFINE W == [v \in Worker |-> IF v = w THEN q ELSE work[v]]
<1>1. /\ work' = W /\ work'[w] = q /\ q \in Request
      /\ \A v \in Worker \ {w} : work'[v] = work[v]
  BY Moved DEF IInv, Fits
<1>2. /\ shifts' = shifts /\ sales' = sales /\ slips' = slips
      /\ reports' = reports /\ late' = late /\ undone' = undone
  BY DEF tables
<1>3. Known' = Known /\ \A k : IsOpen(k)' = IsOpen(k)
  BY <1>2 DEF Known, IsOpen
<1>4. \A k : SalesOf(k)' = SalesOf(k) /\ BookedOn(k)' = BookedOn(k)
  BY <1>2 DEF SalesOf, BookedOn
<1>5. TypeOK'
  BY <1>1, <1>2 DEF IInv, TypeOK
<1>6. ShiftHeld' /\ OneCloser'
  BY <1>1, <1>3 DEF IInv, ShiftHeld, OneCloser, Closing, Fits
<1>7. ShiftsKnown' /\ ItemsNew' /\ ItemsTyped'
  BY <1>1, <1>2, <1>3 DEF IInv, ShiftsKnown, ItemsNew, ItemsTyped, Booking, Fits, BookingAt
<1>8. LateClosed' /\ ReversedUndone'
  BY <1>2, <1>3 DEF IInv, LateClosed, ReversedUndone
<1>9. SumsCurrent'
  BY <1>1, <1>2, <1>4 DEF IInv, SumsCurrent, Summed, Fits
<1>10. ReportTrue'
  BY <1>2 DEF IInv, ReportTrue, SalesOf
<1>11. NumberNext' /\ SealerAlone'
  BY <1>1, <1>2 DEF IInv, NumberNext, SealerAlone, Numbered, At, Fits
<1>12. ReportsCount' /\ ReportsClosed' /\ ClosedReported' /\ OnePerShift'
  BY <1>2 DEF IInv, ReportsCount, ReportsClosed, ClosedReported, OnePerShift
<1> QED
  BY <1>5, <1>6, <1>7, <1>8, <1>9, <1>10, <1>11, <1>12 DEF IInv

\* A worker gives up.
LEMMA Refused ==
  ASSUME IInv, NEW w \in Worker, Refuse(w)
  PROVE  IInv'
BY IdleFits, Fitting DEF Refuse, Finish

\* Requests for a shift, an item, or the handling of a slip.
LEMMA AskStep ==
  ASSUME IInv, NEW w \in Worker,
         \/ \E c \in Cashier : AskOpen(w, c)
         \/ NumberShift(w)
         \/ \E k \in Shift, s \in Sale : AskSale(w, k, s)
         \/ \E k \in Shift, p \in Slip, supervised \in BOOLEAN : AskSlip(w, k, p, supervised)
         \/ \E p \in Slip, outcome \in {"settled", "reversed"} : AskHandle(w, p, outcome)
         \/ \E k \in Shift : AskClose(w, k)
  PROVE  IInv'
<1>1. /\ Idle \in Request /\ Shift \subseteq Nat /\ \A v \in Worker : work[v] \in Request
  BY IdleFits, TillAssumption DEF Fits, IInv, TypeOK
<1>2. \A k \in Shift : IsOpen(k) => k \in Known
  BY DEF Known, IsOpen
<1>3. CASE \E c \in Cashier : AskOpen(w, c)
  <2>1. PICK c \in Cashier : AskOpen(w, c)
    BY <1>3
  <2> DEFINE q == [Idle EXCEPT !.at = "open", !.cashier = c]
  <2>2. q \in Request /\ q.at = "open"
    BY <1>1 DEF Request, Place
  <2>3. Fits(w, q)
    BY <2>2 DEF Fits, ClosingAt, SummedAt, NumberedAt, BookingAt
  <2> QED
    BY <2>1, <2>3, Fitting DEF AskOpen
<1>4. CASE NumberShift(w)
  <2>1. PICK k \in Shift \ Known : Goto(w, [work[w] EXCEPT !.at = "insert", !.shift = k])
    BY <1>4 DEF NumberShift
  <2> DEFINE q == [work[w] EXCEPT !.at = "insert", !.shift = k]
  <2>2. q \in Request /\ q.at = "insert"
    BY <1>1 DEF Request, Place
  <2>3. Fits(w, q)
    BY <2>2 DEF Fits, ClosingAt, SummedAt, NumberedAt, BookingAt
  <2> QED
    BY <1>4, <2>1, <2>3, Fitting DEF NumberShift
<1>5. CASE \E k \in Shift, s \in Sale : AskSale(w, k, s)
  <2>1. PICK k \in Shift, s \in Sale : AskSale(w, k, s)
    BY <1>5
  <2> DEFINE q == [Idle EXCEPT !.at = "sell", !.shift = k, !.item = s]
  <2>2. q \in Request /\ q.at = "sell" /\ q.shift = k /\ q.item = s
    BY <1>1 DEF Request, Place
  <2>3. Fits(w, q)
    BY <1>2, <2>1, <2>2 DEF AskSale, Fresh, Fits, ClosingAt, SummedAt, NumberedAt, BookingAt
  <2> QED
    BY <2>1, <2>3, Fitting DEF AskSale
<1>6. CASE \E k \in Shift, p \in Slip, supervised \in BOOLEAN : AskSlip(w, k, p, supervised)
  <2>1. PICK k \in Shift, p \in Slip, supervised \in BOOLEAN : AskSlip(w, k, p, supervised)
    BY <1>6
  <2> DEFINE q == [Idle EXCEPT !.at = "slip", !.shift = k, !.item = p]
  <2>2. q \in Request /\ q.at = "slip" /\ q.shift = k /\ q.item = p
    BY <1>1 DEF Request, Place
  <2>3. Fits(w, q)
    BY <2>1, <2>2 DEF AskSlip, Fresh, Fits, ClosingAt, SummedAt, NumberedAt, BookingAt
  <2> QED
    BY <2>1, <2>3, Fitting DEF AskSlip
<1>7. CASE \E p \in Slip, outcome \in {"settled", "reversed"} : AskHandle(w, p, outcome)
  <2>1. PICK p \in Slip, outcome \in {"settled", "reversed"} : AskHandle(w, p, outcome)
    BY <1>7
  <2> DEFINE q == [Idle EXCEPT !.at = "handle", !.item = p, !.copy = outcome]
  <2>2. q \in Request /\ q.at = "handle" /\ q.item = p /\ q.copy = outcome
    BY <1>1 DEF Request, Place
  <2>3. Fits(w, q)
    BY <2>1, <2>2 DEF AskHandle, Fits, ClosingAt, SummedAt, NumberedAt, BookingAt
  <2> QED
    BY <2>1, <2>3, Fitting DEF AskHandle
<1>8. CASE \E k \in Shift : AskClose(w, k)
  <2>1. PICK k \in Shift : AskClose(w, k)
    BY <1>8
  <2> DEFINE q == [Idle EXCEPT !.at = "close", !.shift = k]
  <2>2. q \in Request /\ q.at = "close" /\ q.shift = k
    BY <1>1 DEF Request, Place
  <2>3. Fits(w, q)
    BY <1>2, <2>1, <2>2 DEF AskClose, Fits, ClosingAt, SummedAt, NumberedAt, BookingAt
  <2> QED
    BY <2>1, <2>3, Fitting DEF AskClose
<1> QED
  BY <1>3, <1>4, <1>5, <1>6, <1>7, <1>8

-----------------------------------------------------------------------------
(* close_session up to its report.                                         *)

\* LockShift waits for whoever closes the shift.
LEMMA LockShiftStep ==
  ASSUME IInv, NEW w \in Worker, LockShift(w)
  PROVE  IInv'
<1> DEFINE k == work[w].shift
           q == [work[w] EXCEPT !.at = "count", !.held = {Row("shift", k)}]
<1>1. work[w] \in Request /\ work[w].at = "close" /\ k \in Known /\ k \in Nat
  BY DEF LockShift, At, IInv, TypeOK, ShiftsKnown, Request
<1>2. CASE ~IsOpen(k)
  BY <1>2, Refused DEF LockShift
<1>3. CASE IsOpen(k)
  <2>1. Row("shift", k) \in Rows
    BY <1>1 DEF Row, Rows
  <2>2. q \in Request /\ q.at = "count" /\ q.shift = k /\ q.held = {Row("shift", k)}
    BY <1>1, <2>1 DEF Request, Place
  <2>3. \A v \in Worker \ {w} : Closing(v) => work[v].shift # k
    BY DEF LockShift, RowFree, IInv, ShiftHeld
  <2>4. Fits(w, q)
    BY <1>1, <1>3, <2>2, <2>3 DEF Fits, ClosingAt, SummedAt, NumberedAt, BookingAt
  <2> QED
    BY <1>3, <2>4, Fitting DEF LockShift
<1> QED
  BY <1>2, <1>3

\* What a closing worker knows, and keeps when its request goes on.
LEMMA ClosingOn ==
  ASSUME IInv, NEW w \in Worker, Closing(w)
  PROVE  /\ work[w] \in Request /\ work[w].shift \in Known /\ work[w].shift \in Shift
         /\ IsOpen(work[w].shift)
         /\ Row("shift", work[w].shift) \in work[w].held
         /\ \A v \in Worker \ {w} : Closing(v) => work[v].shift # work[w].shift
BY DEF IInv, TypeOK, ShiftHeld, OneCloser, Known

\* Count reads the shift it holds; without a reversal, all its slips count.
LEMMA CountStep ==
  ASSUME IInv, NEW w \in Worker, Count(w)
  PROVE  IInv'
<1> DEFINE k == work[w].shift
           q == [work[w] EXCEPT !.at = "last", !.counted = SalesOf(k), !.taken = SlipsOf(k)]
<1>1. Closing(w)
  BY DEF Count, At, Closing, ClosingAt
<1>2. SalesOf(k) \subseteq Sale /\ SlipsOf(k) \subseteq Slip
  BY DEF SalesOf, SlipsOf, IInv, TypeOK
<1>3. /\ q \in Request /\ q.at = "last" /\ q.shift = k /\ q.held = work[w].held
      /\ q.counted = SalesOf(k) /\ q.taken = SlipsOf(k)
  BY ZenonT(60), <1>1, <1>2, ClosingOn DEF Request, Place
<1>4. BookedOn(k) \cap undone = {} => SlipsOf(k) = BookedOn(k)
  BY DEF BookedOn, SlipsOf, IInv, ReversedUndone
<1>5. Fits(w, q)
  BY <1>1, <1>3, <1>4, ClosingOn DEF Fits, ClosingAt, SummedAt, NumberedAt, BookingAt
<1> QED
  BY <1>5, Fitting DEF Count

\* The greatest number of a report is the number of reports.
LEMMA LastIsCount ==
  ASSUME IInv
  PROVE  LastZ = Cardinality(reports) /\ Cardinality(reports) \in Nat
<1> DEFINE n == Cardinality(reports)
           Z == {0} \cup {r.z : r \in reports}
<1>1. n \in Nat /\ Z = 0..n
  BY FS_CardinalityType DEF IInv, ReportsCount
<1>2. n \in Z /\ \A y \in Z : n >= y
  BY <1>1
<1>3. \A x \in Z : (\A y \in Z : x >= y) => x = n
  BY <1>1, <1>2
<1>4. Max(Z) = n
  BY <1>2, <1>3 DEF Max
<1> QED
  BY <1>1, <1>4 DEF LastZ

\* _get_next_z_number, before and after the lock on the last report.
LEMMA NumberStep ==
  ASSUME IInv, NEW w \in Worker, ReadLastReport(w) \/ LockLastReport(w)
  PROVE  IInv'
<1>1. Closing(w) /\ Summed(w)
  BY DEF ReadLastReport, LockLastReport, At, Closing, ClosingAt, Summed, SummedAt
<1>2. /\ work[w] \in Request
      /\ work[w].counted = SalesOf(work[w].shift)
      /\ BookedOn(work[w].shift) \cap undone = {} => work[w].taken = BookedOn(work[w].shift)
  BY <1>1, ClosingOn DEF IInv, SumsCurrent
<1>3. CASE ReadLastReport(w)
  <2> DEFINE q == [work[w] EXCEPT !.at = "number", !.z = LastZ + 1]
  <2>1. LastZ + 1 \in Nat /\ LastZ + 1 \in 1..(Cardinality(reports) + 1)
    BY LastIsCount
  <2>2. /\ q \in Request /\ q.at = "number" /\ q.z = LastZ + 1 /\ q.held = work[w].held
        /\ q.shift = work[w].shift /\ q.counted = work[w].counted /\ q.taken = work[w].taken
    BY <1>2, <2>1 DEF Request, Place
  <2>3. Fits(w, q)
    BY <1>1, <1>2, <2>1, <2>2, ClosingOn DEF Fits, BookingAt
  <2> QED
    BY <1>3, <2>3, Fitting DEF ReadLastReport
<1>4. CASE LockLastReport(w)
  <2> DEFINE row == Row("report", work[w].z - 1)
             q == [work[w] EXCEPT !.at = "report", !.held = @ \cup {row}]
  <2>1. work[w].z \in 1..(Cardinality(reports) + 1) /\ Cardinality(reports) \in Nat
    BY <1>4, LastIsCount DEF LockLastReport, At, IInv, NumberNext, Numbered, NumberedAt
  <2>2. row \in Rows
    BY <2>1 DEF Row, Rows
  <2>3. /\ q \in Request /\ q.at = "report" /\ q.z = work[w].z /\ q.held = work[w].held \cup {row}
        /\ q.shift = work[w].shift /\ q.counted = work[w].counted /\ q.taken = work[w].taken
    BY <1>2, <2>2 DEF Request, Place
  <2>4. Fits(w, q)
    BY <1>1, <1>2, <2>1, <2>3, ClosingOn DEF Fits, BookingAt
  <2> QED
    BY <1>4, <2>4, Fitting DEF LockLastReport
<1> QED
  BY <1>3, <1>4

\* The unique index lets one report through for a number.
LEMMA InsertReportStep ==
  ASSUME IInv, NEW w \in Worker, InsertReport(w)
  PROVE  IInv'
<1> DEFINE row == Row("z", work[w].z)
           q == [work[w] EXCEPT !.at = "seal", !.held = @ \cup {row}]
<1>1. Closing(w) /\ Summed(w) /\ Numbered(w)
  BY DEF InsertReport, At, Closing, ClosingAt, Summed, SummedAt, Numbered, NumberedAt
<1>2. /\ work[w] \in Request
      /\ work[w].counted = SalesOf(work[w].shift)
      /\ BookedOn(work[w].shift) \cap undone = {} => work[w].taken = BookedOn(work[w].shift)
      /\ work[w].z \in 1..(Cardinality(reports) + 1)
  BY <1>1, ClosingOn DEF IInv, SumsCurrent, NumberNext
<1>3. CASE ReportTaken(work[w])
  BY <1>3, Refused DEF InsertReport
<1>4. CASE ~ReportTaken(work[w])
  <2>1. row \in Rows
    BY <1>2 DEF Row, Rows, Request
  <2>2. /\ q \in Request /\ q.at = "seal" /\ q.z = work[w].z /\ q.held = work[w].held \cup {row}
        /\ q.shift = work[w].shift /\ q.counted = work[w].counted /\ q.taken = work[w].taken
    BY <1>2, <2>1 DEF Request, Place
  <2>3. \A r \in reports : r.z # work[w].z
    BY <1>4 DEF ReportTaken
  <2>4. \A v \in Worker \ {w} : At(v, "seal") => work[v].z # work[w].z
    BY DEF InsertReport, RowFree, IInv, SealerAlone
  <2>5. Fits(w, q)
    BY <1>1, <1>2, <2>2, <2>3, <2>4, ClosingOn DEF Fits, BookingAt
  <2> QED
    BY <1>4, <2>5, Fitting DEF InsertReport
<1> QED
  BY <1>3, <1>4

-----------------------------------------------------------------------------
(* What writes the tables.                                                 *)

\* A report stays sound while the sales it counts, the slips booked in time and
\* what came too late only grow outside of its shift.
Sound(r) ==
  LET onTime == {p \in DOMAIN slips \ late : slips[p].shift = r.shift} IN
  /\ r.sales = {s \in SalesOf(r.shift) : sales[s].locked}
  /\ SalesOf(r.shift) \ r.sales \subseteq late
  /\ onTime \cap undone = {} => r.cash = Expected(r.sales, onTime)

LEMMA AllSound == ReportTrue <=> \A r \in reports : Sound(r)
BY DEF ReportTrue, Sound

\* The worker that has finished leaves what the others hold alone.
LEMMA Finished ==
  ASSUME IInv, NEW w \in Worker, Finish(w)
  PROVE  /\ work' = [work EXCEPT ![w] = Idle] /\ work' \in [Worker -> Request]
         /\ work'[w] = Idle /\ work'[w].at = "idle"
         /\ \A v \in Worker \ {w} : work'[v] = work[v]
         /\ \A v \in Worker : work'[v].at # "idle" => v # w
BY Moved, IdleFits DEF IInv, TypeOK, Finish, Goto, Fits

\* A shift's number is used once.
LEMMA InsertShiftStep ==
  ASSUME IInv, NEW w \in Worker, InsertShift(w)
  PROVE  IInv'
<1> DEFINE k == work[w].shift
<1>1. CASE k \in Known
  BY <1>1, Refused DEF InsertShift
<1>2. CASE k \notin Known
  <2>1. /\ shifts' = [shifts EXCEPT ![k] = [cashier |-> work[w].cashier, status |-> "open"]]
        /\ Finish(w) /\ UNCHANGED <<sales, slips, reports, late, undone>>
    BY <1>2 DEF InsertShift
  <2>2. TypeOK
    BY DEF IInv
  <2>3. /\ work' \in [Worker -> Request] /\ work'[w].at = "idle"
        /\ \A v \in Worker \ {w} : work'[v] = work[v]
        /\ \A v \in Worker : work'[v].at # "idle" => v # w
    BY <2>1, Finished
  <2>4. /\ shifts' \in [Shift -> [cashier : Cashier \cup {"none"}, status : {"none", "open", "closed"}]]
        /\ \A j \in Shift : j # k => shifts'[j] = shifts[j]
        /\ k \in Shift => shifts'[k].status = "open"
    <3>1. work[w].cashier \in Cashier \cup {"none"}
      BY <2>2 DEF TypeOK, Request
    <3> QED
      BY <2>1, <2>2, <3>1 DEF TypeOK
  <2>5. /\ \A j \in Known : j \in Known' /\ IsOpen(j)' = IsOpen(j) /\ shifts'[j] = shifts[j]
        /\ \A j \in Shift : shifts'[j].status = "closed" => shifts[j].status = "closed"
    BY <1>2, <2>4 DEF Known, IsOpen
  <2>6. \A j : SalesOf(j)' = SalesOf(j) /\ BookedOn(j)' = BookedOn(j)
    BY <2>1 DEF SalesOf, BookedOn
  <2>7. TypeOK'
    BY <2>1, <2>2, <2>3, <2>4 DEF TypeOK
  <2>8. ShiftHeld' /\ OneCloser'
    BY <2>3, <2>5 DEF IInv, ShiftHeld, OneCloser, Closing, ClosingAt
  <2>9. ShiftsKnown' /\ ItemsNew' /\ ItemsTyped'
    BY <2>1, <2>3, <2>5 DEF IInv, ShiftsKnown, ItemsNew, ItemsTyped, Booking, BookingAt
  <2>10. LateClosed' /\ ReversedUndone'
    BY <2>1, <2>5 DEF IInv, LateClosed, ReversedUndone, ShiftsKnown
  <2>11. SumsCurrent'
    BY <2>1, <2>3, <2>6 DEF IInv, SumsCurrent, Summed, SummedAt
  <2>12. ReportTrue'
    <3>1. \A r \in reports : Sound(r)'
      BY <2>1, <2>6, AllSound DEF IInv, Sound
    <3> QED
      BY <2>1, <3>1, AllSound DEF ReportTrue, Sound
  <2>13. NumberNext' /\ SealerAlone'
    BY <2>1, <2>3 DEF IInv, NumberNext, SealerAlone, Numbered, NumberedAt, At
  <2>14. ReportsCount' /\ ReportsClosed' /\ ClosedReported' /\ OnePerShift'
    <3>1. \A r \in reports : r.shift \in Known
      BY <2>2 DEF IInv, ReportsClosed, Known, TypeOK
    <3> QED
      BY <2>1, <2>5, <3>1 DEF IInv, ReportsCount, ReportsClosed, ClosedReported, OnePerShift
  <2> QED
    BY <2>7, <2>8, <2>9, <2>10, <2>11, <2>12, <2>13, <2>14 DEF IInv
<1> QED
  BY <1>1, <1>2

\* A sale that commits is on a shift nobody is closing; if the shift is closed,
\* it is late.
LEMMA CommitSaleStep ==
  ASSUME IInv, NEW w \in Worker, CommitSale(w)
  PROVE  IInv'
<1>0. PICK k, s : k = work[w].shift /\ s = work[w].item
  OBVIOUS
<1>1. /\ sales' = Inserted(sales, s, [shift |-> k, locked |-> FALSE])
      /\ Finish(w) /\ UNCHANGED <<shifts, slips, reports, undone>>
      /\ late' = IF IsOpen(k) THEN late ELSE late \cup {s}
  BY <1>0 DEF CommitSale, NoteLate
<1>2. /\ work[w].at = "sell" /\ k \in Known /\ k \in Shift /\ s \in Sale
      /\ s \notin DOMAIN sales \cup DOMAIN slips
  BY <1>0 DEF CommitSale, At, IInv, ShiftsKnown, ItemsNew, ItemsTyped, Booking, BookingAt, Known
<1>3. /\ work' \in [Worker -> Request] /\ work'[w].at = "idle"
      /\ \A v \in Worker \ {w} : work'[v] = work[v]
      /\ \A v \in Worker : work'[v].at # "idle" => v # w
  BY <1>1, Finished
<1>4. /\ DOMAIN sales' = DOMAIN sales \cup {s}
      /\ \A x \in DOMAIN sales : sales'[x] = sales[x]
      /\ sales'[s] = [shift |-> k, locked |-> FALSE]
      /\ sales' \in [DOMAIN sales' -> [shift : Shift, locked : BOOLEAN]]
  BY <1>1, <1>2 DEF Inserted, IInv, TypeOK
<1>5. Known' = Known /\ \A j : IsOpen(j)' = IsOpen(j)
  BY <1>1 DEF Known, IsOpen
<1>6. /\ \A j : j # k => SalesOf(j)' = SalesOf(j)
      /\ SalesOf(k)' = SalesOf(k) \cup {s}
      /\ \A j : BookedOn(j)' = BookedOn(j)
  <2>1. \A j : \A x : x \in SalesOf(j)' <=> x \in SalesOf(j) \/ (x = s /\ j = k)
    BY <1>2, <1>4 DEF SalesOf
  <2>2. \A j : BookedOn(j)' = BookedOn(j)
    BY <1>1 DEF BookedOn
  <2> QED
    BY <2>1, <2>2
<1>7. \A v \in Worker : Closing(v) => work[v].shift # k
  <2>1. \A v \in Worker : Closing(v) => v # w
    BY <1>2 DEF Closing, ClosingAt
  <2> QED
    BY <1>0, <2>1 DEF CommitSale, RowFree, IInv, ShiftHeld
<1>8. TypeOK'
  BY <1>1, <1>2, <1>3, <1>4 DEF IInv, TypeOK
<1>9. ShiftHeld' /\ OneCloser'
  BY <1>3, <1>5 DEF IInv, ShiftHeld, OneCloser, Closing, ClosingAt
<1>10. ShiftsKnown' /\ ItemsNew' /\ ItemsTyped'
  <2>1. \A v \in Worker : Booking(v) /\ v # w => work[v].item # s
    BY <1>0, <1>2 DEF IInv, ItemsNew, Booking, BookingAt
  <2>2. \A v \in Worker : Booking(v)' => v # w /\ Booking(v)
    BY <1>3 DEF Booking, BookingAt
  <2>3. ShiftsKnown'
    <3>1. \A x \in DOMAIN sales' : sales'[x].shift \in Known'
      BY <1>2, <1>4, <1>5 DEF IInv, ShiftsKnown
    <3>2. \A p \in DOMAIN slips' : slips'[p].shift \in Known'
      BY <1>1, <1>5 DEF IInv, ShiftsKnown
    <3>3. \A v \in Worker : (work[v].at = "close" \/ Booking(v))' => work'[v].shift \in Known'
      BY <1>3, <1>5, <2>2 DEF IInv, ShiftsKnown
    <3> QED
      BY <3>1, <3>2, <3>3 DEF ShiftsKnown
  <2>4. ItemsNew'
    BY <1>1, <1>3, <1>4, <2>1, <2>2 DEF IInv, ItemsNew
  <2>5. ItemsTyped'
    BY <1>1, <1>3 DEF IInv, ItemsTyped
  <2> QED
    BY <2>3, <2>4, <2>5
<1>11. LateClosed' /\ ReversedUndone'
  <2>1. late' \subseteq DOMAIN sales' \cup DOMAIN slips'
    BY <1>1, <1>4 DEF IInv, LateClosed
  <2>2. \A x \in DOMAIN sales' \cap late' : shifts'[sales'[x].shift].status # "open"
    <3>1. s \notin late /\ sales'[s].shift = k
      BY <1>2, <1>4 DEF IInv, LateClosed
    <3>2. s \in late' => shifts'[k].status # "open"
      BY <1>1, <3>1 DEF IsOpen
    <3>3. \A x \in DOMAIN sales : x \in late' => x \in late /\ sales'[x] = sales[x]
      BY <1>1, <1>2, <1>4
    <3>4. \A x \in DOMAIN sales : x \in late' => shifts'[sales'[x].shift].status # "open"
      BY <1>1, <3>3 DEF IInv, LateClosed, IsOpen
    <3> QED
      BY <1>4, <3>1, <3>2, <3>4
  <2>3. \A p \in DOMAIN slips' \cap late' : shifts'[slips'[p].shift].status # "open"
    BY <1>1, <1>2 DEF IInv, LateClosed, IsOpen
  <2> QED
    BY <1>1, <2>1, <2>2, <2>3 DEF LateClosed, ReversedUndone, IInv, IsOpen
<1>12. SumsCurrent'
  BY <1>1, <1>3, <1>6, <1>7 DEF IInv, SumsCurrent, Summed, SummedAt, Closing, ClosingAt
<1>13. ReportTrue'
  <2>1. SUFFICES ASSUME NEW r \in reports PROVE Sound(r)'
    BY <1>1, <2>1, AllSound DEF ReportTrue, Sound
  <2>2. Sound(r) /\ (r.shift = k => ~IsOpen(k))
    BY AllSound DEF IInv, ReportsClosed, IsOpen
  <2>3. {p \in DOMAIN slips' \ late' : slips'[p].shift = r.shift}
          = {p \in DOMAIN slips \ late : slips[p].shift = r.shift}
    BY <1>1, <1>2
  <2>4. {x \in SalesOf(r.shift)' : sales'[x].locked} = {x \in SalesOf(r.shift) : sales[x].locked}
    BY <1>4, <1>6 DEF SalesOf
  <2>5. SalesOf(r.shift)' \ r.sales \subseteq late'
    <3>1. CASE r.shift = k
      BY <1>1, <1>6, <2>2, <3>1 DEF Sound
    <3>2. CASE r.shift # k
      BY <1>1, <1>6, <2>2, <3>2 DEF Sound
    <3> QED
      BY <3>1, <3>2
  <2> QED
    BY <1>1, <2>2, <2>3, <2>4, <2>5 DEF Sound
<1>14. NumberNext' /\ SealerAlone'
  BY <1>1, <1>3 DEF IInv, NumberNext, SealerAlone, Numbered, NumberedAt, At
<1>15. ReportsCount' /\ ReportsClosed' /\ ClosedReported' /\ OnePerShift'
  BY <1>1 DEF IInv, ReportsCount, ReportsClosed, ClosedReported, OnePerShift
<1> QED
  BY <1>8, <1>9, <1>10, <1>11, <1>12, <1>13, <1>14, <1>15 DEF IInv

\* A slip that commits, likewise.
LEMMA CommitSlipStep ==
  ASSUME IInv, NEW w \in Worker, CommitSlip(w)
  PROVE  IInv'
<1>0. PICK k, p : k = work[w].shift /\ p = work[w].item
  OBVIOUS
<1>1. /\ slips' = Inserted(slips, p, [shift |-> k, status |-> "paid_out"])
      /\ Finish(w) /\ UNCHANGED <<shifts, sales, reports, undone>>
      /\ late' = IF IsOpen(k) THEN late ELSE late \cup {p}
  BY <1>0 DEF CommitSlip, NoteLate
<1>2. /\ work[w].at = "slip" /\ k \in Known /\ k \in Shift /\ p \in Slip
      /\ p \notin DOMAIN sales \cup DOMAIN slips
  BY <1>0 DEF CommitSlip, At, IInv, ShiftsKnown, ItemsNew, ItemsTyped, Booking, BookingAt, Known
<1>3. /\ work' \in [Worker -> Request] /\ work'[w].at = "idle"
      /\ \A v \in Worker \ {w} : work'[v] = work[v]
      /\ \A v \in Worker : work'[v].at # "idle" => v # w
  BY <1>1, Finished
<1>4. /\ DOMAIN slips' = DOMAIN slips \cup {p}
      /\ \A x \in DOMAIN slips : slips'[x] = slips[x]
      /\ slips'[p] = [shift |-> k, status |-> "paid_out"]
      /\ slips' \in [DOMAIN slips' -> [shift : Shift, status : {"paid_out", "settled", "reversed"}]]
  BY <1>1, <1>2 DEF Inserted, IInv, TypeOK
<1>5. Known' = Known /\ \A j : IsOpen(j)' = IsOpen(j)
  BY <1>1 DEF Known, IsOpen
<1>6. /\ \A j : SalesOf(j)' = SalesOf(j)
      /\ \A j : j # k => BookedOn(j)' = BookedOn(j)
  <2>1. \A j : \A x : j # k => (x \in BookedOn(j)' <=> x \in BookedOn(j))
    BY <1>2, <1>4 DEF BookedOn
  <2>2. \A j : SalesOf(j)' = SalesOf(j)
    BY <1>1 DEF SalesOf
  <2> QED
    BY <2>1, <2>2
<1>7. \A v \in Worker : Closing(v) => work[v].shift # k
  <2>1. \A v \in Worker : Closing(v) => v # w
    BY <1>2 DEF Closing, ClosingAt
  <2> QED
    BY <1>0, <2>1 DEF CommitSlip, RowFree, IInv, ShiftHeld
<1>8. TypeOK'
  BY <1>1, <1>2, <1>3, <1>4 DEF IInv, TypeOK
<1>9. ShiftHeld' /\ OneCloser'
  BY <1>3, <1>5 DEF IInv, ShiftHeld, OneCloser, Closing, ClosingAt
<1>10. ShiftsKnown' /\ ItemsNew' /\ ItemsTyped'
  <2>1. \A v \in Worker : Booking(v) /\ v # w => work[v].item # p
    BY <1>0, <1>2 DEF IInv, ItemsNew, Booking, BookingAt
  <2>2. \A v \in Worker : Booking(v)' => v # w /\ Booking(v)
    BY <1>3 DEF Booking, BookingAt
  <2>3. ShiftsKnown'
    <3>1. \A x \in DOMAIN slips' : slips'[x].shift \in Known'
      BY <1>2, <1>4, <1>5 DEF IInv, ShiftsKnown
    <3>2. \A s \in DOMAIN sales' : sales'[s].shift \in Known'
      BY <1>1, <1>5 DEF IInv, ShiftsKnown
    <3>3. \A v \in Worker : (work[v].at = "close" \/ Booking(v))' => work'[v].shift \in Known'
      BY <1>3, <1>5, <2>2 DEF IInv, ShiftsKnown
    <3> QED
      BY <3>1, <3>2, <3>3 DEF ShiftsKnown
  <2>4. ItemsNew'
    BY <1>1, <1>3, <1>4, <2>1, <2>2 DEF IInv, ItemsNew
  <2>5. ItemsTyped'
    BY <1>1, <1>3, <1>4 DEF IInv, ItemsTyped
  <2> QED
    BY <2>3, <2>4, <2>5
<1>11. LateClosed' /\ ReversedUndone'
  <2>1. late' \subseteq DOMAIN sales' \cup DOMAIN slips'
    BY <1>1, <1>4 DEF IInv, LateClosed
  <2>2. \A x \in DOMAIN slips' \cap late' : shifts'[slips'[x].shift].status # "open"
    <3>1. p \notin late /\ slips'[p].shift = k
      BY <1>2, <1>4 DEF IInv, LateClosed
    <3>2. p \in late' => shifts'[k].status # "open"
      BY <1>1, <3>1 DEF IsOpen
    <3>3. \A x \in DOMAIN slips : x \in late' => x \in late /\ slips'[x] = slips[x]
      BY <1>1, <1>2, <1>4
    <3> QED
      BY <1>1, <1>4, <3>1, <3>2, <3>3 DEF IInv, LateClosed, IsOpen
  <2>3. \A s \in DOMAIN sales' \cap late' : shifts'[sales'[s].shift].status # "open"
    BY <1>1, <1>2 DEF IInv, LateClosed, IsOpen
  <2>4. \A x \in DOMAIN slips' : slips'[x].status = "reversed" => x \in undone'
    BY <1>1, <1>4 DEF IInv, ReversedUndone
  <2> QED
    BY <2>1, <2>2, <2>3, <2>4 DEF LateClosed, ReversedUndone, IsOpen
<1>12. SumsCurrent'
  BY <1>1, <1>3, <1>6, <1>7 DEF IInv, SumsCurrent, Summed, SummedAt, Closing, ClosingAt
<1>13. ReportTrue'
  <2>1. SUFFICES ASSUME NEW r \in reports PROVE Sound(r)'
    BY <1>1, <2>1, AllSound DEF ReportTrue, Sound
  <2>2. Sound(r) /\ (r.shift = k => ~IsOpen(k))
    BY AllSound DEF IInv, ReportsClosed, IsOpen
  <2>3. {x \in DOMAIN slips' \ late' : slips'[x].shift = r.shift}
          = {x \in DOMAIN slips \ late : slips[x].shift = r.shift}
    <3>1. \A x \in DOMAIN slips : x \in late' <=> x \in late
      BY <1>1, <1>2
    <3>2. p \in late' \/ slips'[p].shift # r.shift
      BY <1>1, <1>4, <2>2
    <3> QED
      BY <1>4, <3>1, <3>2
  <2> QED
    BY <1>1, <1>6, <2>2, <2>3 DEF Sound
<1>14. NumberNext' /\ SealerAlone'
  BY <1>1, <1>3 DEF IInv, NumberNext, SealerAlone, Numbered, NumberedAt, At
<1>15. ReportsCount' /\ ReportsClosed' /\ ClosedReported' /\ OnePerShift'
  BY <1>1 DEF IInv, ReportsCount, ReportsClosed, ClosedReported, OnePerShift
<1> QED
  BY <1>8, <1>9, <1>10, <1>11, <1>12, <1>13, <1>14, <1>15 DEF IInv

\* What is done to a slip later is remembered if it is a reversal.
LEMMA SaveSlipStep ==
  ASSUME IInv, NEW w \in Worker, SaveSlip(w)
  PROVE  IInv'
<1>0. PICK p, c : p = work[w].item /\ c = work[w].copy
  OBVIOUS
<1>1. /\ slips' = [slips EXCEPT ![p].status = c]
      /\ undone' = IF c = "reversed" THEN undone \cup {p} ELSE undone
      /\ Finish(w) /\ UNCHANGED <<shifts, sales, reports, late>>
  BY <1>0 DEF SaveSlip
<1>2. /\ TypeOK /\ p \in DOMAIN slips /\ p \in Slip /\ c \in {"settled", "reversed"}
  BY <1>0 DEF SaveSlip, At, IInv, ItemsTyped, TypeOK, Request
<1>3. /\ work' \in [Worker -> Request] /\ work'[w].at = "idle"
      /\ \A v \in Worker \ {w} : work'[v] = work[v]
      /\ \A v \in Worker : work'[v].at # "idle" => v # w
  BY <1>1, Finished
<1>4. /\ DOMAIN slips' = DOMAIN slips
      /\ \A x \in DOMAIN slips : slips'[x].shift = slips[x].shift
      /\ \A x \in DOMAIN slips : slips'[x].status = IF x = p THEN c ELSE slips[x].status
      /\ slips' \in [DOMAIN slips' -> [shift : Shift, status : {"paid_out", "settled", "reversed"}]]
  BY <1>1, <1>2 DEF TypeOK
<1>5. Known' = Known /\ \A j : IsOpen(j)' = IsOpen(j)
  BY <1>1 DEF Known, IsOpen
<1>6. \A j : SalesOf(j)' = SalesOf(j) /\ BookedOn(j)' = BookedOn(j)
  BY <1>1, <1>4 DEF SalesOf, BookedOn
<1>7. TypeOK' /\ undone \subseteq undone'
  BY <1>1, <1>2, <1>3, <1>4 DEF TypeOK
<1>8. ShiftHeld' /\ OneCloser'
  BY <1>3, <1>5 DEF IInv, ShiftHeld, OneCloser, Closing, ClosingAt
<1>9. ShiftsKnown' /\ ItemsNew' /\ ItemsTyped'
  BY <1>1, <1>3, <1>4, <1>5 DEF IInv, ShiftsKnown, ItemsNew, ItemsTyped, Booking, BookingAt
<1>10. LateClosed' /\ ReversedUndone'
  BY <1>1, <1>4 DEF IInv, LateClosed, ReversedUndone, IsOpen
<1>11. SumsCurrent'
  BY <1>3, <1>6, <1>7 DEF IInv, SumsCurrent, Summed, SummedAt
<1>12. ReportTrue'
  <2>1. SUFFICES ASSUME NEW r \in reports PROVE Sound(r)'
    BY <1>1, <2>1, AllSound DEF ReportTrue, Sound
  <2>2. Sound(r)
    BY AllSound DEF IInv
  <2>3. {x \in DOMAIN slips' \ late' : slips'[x].shift = r.shift}
          = {x \in DOMAIN slips \ late : slips[x].shift = r.shift}
    BY <1>1, <1>4
  <2> QED
    BY <1>1, <1>6, <1>7, <2>2, <2>3 DEF Sound
<1>13. NumberNext' /\ SealerAlone'
  BY <1>1, <1>3 DEF IInv, NumberNext, SealerAlone, Numbered, NumberedAt, At
<1>14. ReportsCount' /\ ReportsClosed' /\ ClosedReported' /\ OnePerShift'
  BY <1>1 DEF IInv, ReportsCount, ReportsClosed, ClosedReported, OnePerShift
<1> QED
  BY <1>7, <1>8, <1>9, <1>10, <1>11, <1>12, <1>13, <1>14 DEF IInv

\* Seal adds the report with the next number, for a shift that had none, and
\* what it says was counted under the shift's lock.
LEMMA SealStep ==
  ASSUME IInv, NEW w \in Worker, Seal(w)
  PROVE  IInv'
<1>0. PICK k, n, N, new : /\ k = work[w].shift /\ n = work[w].z /\ N = Cardinality(reports)
                          /\ new = [z |-> n, shift |-> k, sales |-> work[w].counted,
                                    cash |-> Expected(work[w].counted, work[w].taken)]
  OBVIOUS
<1>1. /\ reports' = reports \cup {new}
      /\ sales' = [s \in DOMAIN sales |->
                     IF s \in SalesOf(k) THEN [sales[s] EXCEPT !.locked = TRUE] ELSE sales[s]]
      /\ shifts' = [shifts EXCEPT ![k].status = "closed"]
      /\ Finish(w) /\ UNCHANGED <<slips, late, undone>>
  BY <1>0 DEF Seal
<1>2. /\ TypeOK /\ Closing(w) /\ Summed(w) /\ Numbered(w) /\ At(w, "seal")
  BY DEF Seal, At, Closing, ClosingAt, Summed, SummedAt, Numbered, NumberedAt, IInv
<1>3. /\ k \in Shift /\ k \in Known /\ shifts[k].status = "open"
      /\ \A v \in Worker \ {w} : Closing(v) => work[v].shift # k
      /\ work[w].counted = SalesOf(k) /\ work[w].counted \subseteq Sale
      /\ BookedOn(k) \cap undone = {} => work[w].taken = BookedOn(k)
  BY <1>0, <1>2, ClosingOn DEF IInv, SumsCurrent, IsOpen, Request
<1>4. /\ work' \in [Worker -> Request] /\ work'[w].at = "idle"
      /\ \A v \in Worker \ {w} : work'[v] = work[v]
      /\ \A v \in Worker : work'[v].at # "idle" => v # w
  BY <1>1, Finished
<1>5. /\ shifts' \in [Shift -> [cashier : Cashier \cup {"none"}, status : {"none", "open", "closed"}]]
      /\ \A j \in Shift : j # k => shifts'[j] = shifts[j]
      /\ shifts'[k].status = "closed"
  BY <1>1, <1>2, <1>3 DEF TypeOK
<1>6. /\ Known' = Known
      /\ \A j \in Shift : shifts'[j].status = "open" => shifts[j].status = "open"
      /\ \A j \in Shift : j # k => (shifts'[j].status = "open" <=> shifts[j].status = "open")
  BY <1>3, <1>5 DEF Known
<1>7. /\ DOMAIN sales' = DOMAIN sales
      /\ \A s \in DOMAIN sales : sales'[s].shift = sales[s].shift
      /\ \A s \in SalesOf(k) : sales'[s].locked
      /\ \A s \in DOMAIN sales : s \notin SalesOf(k) => sales'[s] = sales[s]
      /\ sales' \in [DOMAIN sales' -> [shift : Shift, locked : BOOLEAN]]
  <2>1. DOMAIN sales' = DOMAIN sales
    BY <1>1
  <2>2. ASSUME NEW s \in DOMAIN sales, s \in SalesOf(k)
        PROVE  sales'[s] = [shift |-> sales[s].shift, locked |-> TRUE]
    <3>1. sales[s] \in [shift : Shift, locked : BOOLEAN]
      BY <1>2 DEF TypeOK
    <3>2. sales'[s] = [sales[s] EXCEPT !.locked = TRUE]
      BY <1>1, <2>2
    <3> QED
      BY <3>1, <3>2
  <2>3. \A s \in DOMAIN sales : s \notin SalesOf(k) => sales'[s] = sales[s]
    BY <1>1
  <2>4. \A s \in DOMAIN sales : sales[s] \in [shift : Shift, locked : BOOLEAN]
    BY <1>2 DEF TypeOK
  <2>5. ASSUME NEW s \in DOMAIN sales PROVE sales'[s] \in [shift : Shift, locked : BOOLEAN]
    <3>1. CASE s \in SalesOf(k)
      <4>1. sales[s].shift \in Shift
        BY <2>4, <2>5
      <4>2. \A j \in Shift : [shift |-> j, locked |-> TRUE] \in [shift : Shift, locked : BOOLEAN]
        OBVIOUS
      <4> QED
        BY <2>2, <2>5, <3>1, <4>1, <4>2
    <3>2. CASE s \notin SalesOf(k)
      BY <2>3, <2>4, <2>5, <3>2
    <3> QED
      BY <3>1, <3>2
  <2>6. sales' = [s \in DOMAIN sales' |-> sales'[s]]
    BY <1>1, <2>1
  <2>7. SalesOf(k) \subseteq DOMAIN sales
    BY DEF SalesOf
  <2> QED
    BY <2>1, <2>2, <2>3, <2>5, <2>6, <2>7
<1>8. \A j : SalesOf(j)' = SalesOf(j) /\ BookedOn(j)' = BookedOn(j)
  BY <1>1, <1>7 DEF SalesOf, BookedOn
<1>9. /\ N \in Nat /\ n = N + 1 /\ \A r \in reports : r.z # n
      /\ new.z = n /\ new.shift = k /\ new.sales = SalesOf(k)
      /\ new.cash = Expected(work[w].counted, work[w].taken)
  <2>1. N \in Nat /\ n \in 1..(N + 1) /\ \A r \in reports : r.z # n
    BY <1>0, <1>2, LastIsCount DEF IInv, NumberNext, SealerAlone
  <2>2. {r.z : r \in reports} = 1..N
    BY <1>0 DEF IInv, ReportsCount
  <2>3. n \notin 1..N
    BY <2>1, <2>2
  <2> QED
    BY <1>0, <1>3, <2>1, <2>3
<1>10. IsFiniteSet(reports') /\ Cardinality(reports') = N + 1
  <2>1. new \notin reports
    BY <1>9
  <2> QED
    BY <1>0, <1>1, <2>1, FS_AddElement DEF IInv, ReportsCount
<1>11. \A r \in reports : r.shift # k /\ r.shift \in Shift
  BY <1>2, <1>3 DEF IInv, ReportsClosed, TypeOK
<1>12. TypeOK'
  <2>1. \A r \in reports' : r.z \in Nat \ {0} /\ r.shift \in Shift /\ r.sales \subseteq Sale
    BY <1>1, <1>2, <1>3, <1>9 DEF TypeOK
  <2> QED
    BY <1>1, <1>2, <1>4, <1>5, <1>7, <2>1 DEF TypeOK
<1>13. ShiftHeld' /\ OneCloser'
  <2>1. \A v \in Worker : Closing(v)' => v # w /\ Closing(v) /\ work'[v] = work[v]
    BY <1>4 DEF Closing, ClosingAt
  <2> QED
    BY <1>2, <1>3, <1>6, <2>1, ClosingOn DEF IInv, ShiftHeld, OneCloser, IsOpen
<1>14. ShiftsKnown' /\ ItemsNew' /\ ItemsTyped'
  BY <1>1, <1>4, <1>6, <1>7 DEF IInv, ShiftsKnown, ItemsNew, ItemsTyped, Booking, BookingAt
<1>15. LateClosed' /\ ReversedUndone'
  BY <1>1, <1>2, <1>6, <1>7 DEF IInv, LateClosed, ReversedUndone, IsOpen, TypeOK
<1>16. SumsCurrent'
  BY <1>1, <1>4, <1>8 DEF IInv, SumsCurrent, Summed, SummedAt
<1>17. ReportTrue'
  <2>1. ASSUME NEW r \in reports PROVE Sound(r)'
    <3>1. Sound(r) /\ r.shift # k
      BY <1>11, AllSound DEF IInv
    <3>2. {s \in SalesOf(r.shift)' : sales'[s].locked} = {s \in SalesOf(r.shift) : sales[s].locked}
      BY <1>7, <1>8, <3>1 DEF SalesOf
    <3> QED
      BY <1>1, <1>8, <3>1, <3>2 DEF Sound
  <2>2. Sound(new)'
    <3>1. SalesOf(k) = {s \in SalesOf(k)' : sales'[s].locked}
      BY <1>7, <1>8 DEF SalesOf
    <3>2. \A p \in BookedOn(k) : p \notin late
      BY <1>3 DEF BookedOn, IInv, LateClosed, IsOpen
    <3>3. {p \in DOMAIN slips' \ late' : slips'[p].shift = k} = BookedOn(k)
      BY <1>1, <3>2 DEF BookedOn
    <3>4. BookedOn(k) \cap undone' = {} => new.cash = Expected(SalesOf(k), BookedOn(k))
      BY <1>1, <1>3, <1>9
    <3>5. SalesOf(k)' \ SalesOf(k) \subseteq late'
      BY <1>8
    <3> QED
      BY <1>9, <3>1, <3>3, <3>4, <3>5 DEF Sound
  <2> QED
    BY <1>1, <2>1, <2>2 DEF ReportTrue, Sound
<1>18. NumberNext' /\ SealerAlone'
  <2>1. \A v \in Worker : At(v, "seal") /\ v # w => work[v].z # n
    BY <1>0, <1>2 DEF IInv, SealerAlone
  <2>2. \A v \in Worker : Numbered(v)' => Numbered(v) /\ work'[v] = work[v]
    BY <1>4 DEF Numbered, NumberedAt
  <2>3. NumberNext'
    BY <1>0, <1>9, <1>10, <2>2 DEF IInv, NumberNext
  <2>4. \A v \in Worker : At(v, "seal")' => v # w /\ At(v, "seal") /\ work'[v] = work[v]
    BY <1>4 DEF At
  <2>5. SealerAlone'
    BY <1>1, <1>9, <2>1, <2>4 DEF IInv, SealerAlone
  <2> QED
    BY <2>3, <2>5
<1>19. ReportsCount'
  <2>1. {r.z : r \in reports} = 1..N
    BY <1>0 DEF IInv, ReportsCount
  <2>2. {r.z : r \in reports'} = {r.z : r \in reports} \cup {n}
    BY <1>1, <1>9
  <2>3. (1..N) \cup {n} = 1..(N + 1)
    BY <1>9
  <2> QED
    BY <1>10, <2>1, <2>2, <2>3 DEF ReportsCount
<1>20. ReportsClosed' /\ ClosedReported' /\ OnePerShift'
  <2>1. ReportsClosed'
    BY <1>1, <1>5, <1>9, <1>11 DEF IInv, ReportsClosed
  <2>2. ClosedReported'
    BY <1>1, <1>5, <1>9 DEF IInv, ClosedReported
  <2>3. OnePerShift'
    BY <1>1, <1>9, <1>11 DEF IInv, OnePerShift
  <2> QED
    BY <2>1, <2>2, <2>3
<1> QED
  BY <1>12, <1>13, <1>14, <1>15, <1>16, <1>17, <1>18, <1>19, <1>20 DEF IInv

-----------------------------------------------------------------------------
(* The theorems.                                                           *)

\* What is true of the start.
THEOREM Initial == Init => IInv
<1> SUFFICES ASSUME Init PROVE IInv
  OBVIOUS
<1>1. \A w \in Worker : work[w] = Idle /\ work[w] \in Request /\ work[w].at = "idle"
  BY IdleFits DEF Init, Fits
<1>2. DOMAIN sales = {} /\ DOMAIN slips = {} /\ reports = {} /\ late = {} /\ undone = {}
  BY DEF Init
<1>3. \A k \in Shift : shifts[k] = NoShift /\ shifts[k].status = "none"
  BY DEF Init, NoShift
<1>4. TypeOK
  BY <1>1, <1>2, <1>3 DEF Init, NoShift, TypeOK
<1>5. ShiftHeld /\ OneCloser /\ ShiftsKnown /\ ItemsNew /\ ItemsTyped
  BY <1>1, <1>2 DEF ShiftHeld, OneCloser, ShiftsKnown, ItemsNew, ItemsTyped,
                    Closing, ClosingAt, Booking, BookingAt
<1>6. LateClosed /\ ReversedUndone /\ SumsCurrent /\ ReportTrue
  BY <1>1, <1>2 DEF LateClosed, ReversedUndone, SumsCurrent, ReportTrue, Summed, SummedAt
<1>7. NumberNext /\ SealerAlone
  BY <1>1 DEF NumberNext, SealerAlone, Numbered, NumberedAt, At
<1>8. ReportsCount
  <2>1. IsFiniteSet(reports) /\ Cardinality(reports) = 0
    BY <1>2, FS_EmptySet
  <2> QED
    BY <1>2, <2>1 DEF ReportsCount
<1>9. ReportsClosed /\ ClosedReported /\ OnePerShift
  BY <1>2, <1>3 DEF ReportsClosed, ClosedReported, OnePerShift
<1> QED
  BY <1>4, <1>5, <1>6, <1>7, <1>8, <1>9 DEF IInv

\* Every step keeps the invariant.
THEOREM Inductive == IInv /\ [Next]_vars => IInv'
<1> SUFFICES ASSUME IInv, [Next]_vars PROVE IInv'
  OBVIOUS
<1>1. CASE UNCHANGED vars
  <2>1. TypeOK' /\ ShiftHeld' /\ OneCloser'
    BY <1>1 DEF vars, IInv, TypeOK, ShiftHeld, OneCloser, Closing, Known, IsOpen
  <2>2. ShiftsKnown' /\ ItemsNew' /\ ItemsTyped'
    BY <1>1 DEF vars, IInv, ShiftsKnown, ItemsNew, ItemsTyped, Booking, Known
  <2>3. LateClosed' /\ ReversedUndone' /\ SumsCurrent'
    BY <1>1 DEF vars, IInv, LateClosed, ReversedUndone, SumsCurrent, Summed, IsOpen, SalesOf, BookedOn
  <2>4. ReportTrue'
    <3>1. /\ shifts' = shifts /\ sales' = sales /\ slips' = slips
          /\ reports' = reports /\ late' = late /\ undone' = undone
      BY <1>1 DEF vars
    <3>2. \A r \in reports : Sound(r) /\ SalesOf(r.shift)' = SalesOf(r.shift)
      BY <3>1, AllSound DEF IInv, SalesOf
    <3>3. \A r \in reports' : Sound(r)'
      BY ZenonT(60), <3>1, <3>2 DEF Sound
    <3> QED
      BY <3>3 DEF ReportTrue, Sound
  <2>5. NumberNext' /\ SealerAlone'
    BY <1>1 DEF vars, IInv, NumberNext, SealerAlone, Numbered, At
  <2>6. ReportsCount' /\ ReportsClosed' /\ ClosedReported' /\ OnePerShift'
    BY <1>1 DEF vars, IInv, ReportsCount, ReportsClosed, ClosedReported, OnePerShift
  <2> QED
    BY <2>1, <2>2, <2>3, <2>4, <2>5, <2>6 DEF IInv
<1>2. CASE Next
  BY <1>2, AskStep, InsertShiftStep, CommitSaleStep, CommitSlipStep, SaveSlipStep, LockShiftStep,
     CountStep, NumberStep, InsertReportStep, SealStep DEF Next
<1> QED
  BY <1>1, <1>2

\* The invariant the theorems below rest on holds throughout.
THEOREM InvariantHolds == Spec => []IInv
BY Initial, Inductive, PTL DEF Spec

\* The state keeps its types.
THEOREM TypeCorrect == Spec => []TypeOK
<1>1. IInv => TypeOK
  BY DEF IInv
<1> QED
  BY <1>1, InvariantHolds, PTL

\* A Z report says what its shift had sold and paid out when it was closed,
\* whatever sales and slips commit around the close (close_session).
THEOREM ReportsAreTrue == Spec => []ReportTrue
<1>1. IInv => ReportTrue
  BY DEF IInv
<1> QED
  BY <1>1, InvariantHolds, PTL

\* However many shifts are closed at once, their reports are numbered from 1
\* without gap or repetition, one for each closed shift (_get_next_z_number).
THEOREM NumberedWithoutGap == Spec => []ReportsNumbered
<1>1. IInv => ReportsNumbered
  <2> SUFFICES ASSUME IInv PROVE ReportsNumbered
    OBVIOUS
  <2>1. ASSUME NEW k \in Known, IsOpen(k)
        PROVE  Cardinality({r \in reports : r.shift = k}) = 0
    <3>1. {r \in reports : r.shift = k} = {}
      BY <2>1 DEF IInv, ReportsClosed, IsOpen
    <3> QED
      BY <3>1, FS_EmptySet
  <2>2. ASSUME NEW k \in Known, ~IsOpen(k)
        PROVE  Cardinality({r \in reports : r.shift = k}) = 1
    <3>1. k \in Shift /\ shifts[k].status = "closed"
      BY <2>2 DEF IInv, TypeOK, Known, IsOpen
    <3>2. PICK q \in reports : q.shift = k
      BY <3>1 DEF IInv, ClosedReported
    <3>3. {r \in reports : r.shift = k} = {q}
      BY <3>2 DEF IInv, OnePerShift
    <3> QED
      BY <3>3, FS_Singleton
  <2> QED
    BY <2>1, <2>2 DEF ReportsNumbered, IInv, ReportsCount
<1> QED
  BY <1>1, InvariantHolds, PTL

-----------------------------------------------------------------------------
(* The inductive invariant of Checkout.                                    *)

SaleRow ==
  [lines : Seq(Line), customer : Customer \cup {Nobody}, credit : BOOLEAN, promotion : BOOLEAN,
   redeemed : Nat, total : Int]
CustomerRow == [balance : Int, points : Int]
CheckoutStages == {"idle", "price", "lock", "number", "sell", "pay", "balance"}
CheckoutRequest ==
  [at : CheckoutStages, customer : Customer \cup {Nobody}, copy : CustomerRow,
   basket : Basket \cup {NoBasket}, promotion : BOOLEAN, found : [Product -> Nat], amount : Nat]
PaidRow == [customer : Customer, amount : Nat]

CheckoutTyped ==
  /\ stock \in [Product -> Nat] /\ uses \in Nat
  /\ customers \in [Customer -> CustomerRow]
  /\ saleRows \in Seq(SaleRow) /\ paid \in Seq(PaidRow)
  /\ requests \in [Handler -> CheckoutRequest]
  /\ crossed \subseteq Customer /\ torn \subseteq Customer

\* What a request works on.
SoldAt == {"number", "sell"}
OnItsWay(r) ==
  /\ r.at = "idle" => r.customer = Nobody
  /\ r.at \in {"price", "lock"} \cup SoldAt => r.basket \in Basket /\ r.customer = r.basket.customer
  /\ r.promotion => r.at \in {"lock"} \cup SoldAt
  /\ r.at \in {"pay", "balance"} => r.customer \in Customer /\ r.amount <= r.copy.balance
RequestsOnTheirWay == \A h \in Handler : OnItsWay(requests[h])

\* The products of a sale are locked by it alone, and are as it found them.
LocksApart == \A g, h \in Handler : g # h => Locks(g) \cap Locks(h) = {}
LockedAsFound == \A h \in Handler :
  requests[h].at \in SoldAt =>
    /\ Enough(requests[h].basket.lines, requests[h].found)
    /\ \A p \in Locks(h) : requests[h].found[p] = stock[p]

\* Every request that has been granted the promotion will count it.
Promoted == {h \in Handler : requests[h].promotion}
PromotionsInFlight == uses + Cardinality(Promoted) <= MaxUses + Cardinality(Handler) - 1

\* A customer who is not crossed is served by one request, from a current
\* copy.  Between the two writes of a payment the balance is still to be reduced.
ServedAlone == \A g, h \in Handler :
  requests[g].customer \notin crossed \cup {Nobody} /\ requests[g].customer = requests[h].customer
    => g = h
CopiesAreCurrent == \A h \in Handler :
  requests[h].customer \notin crossed \cup {Nobody} =>
    requests[h].copy = customers[requests[h].customer]
PaymentsHalfway == \A h \in Handler : \A c \in Customer \ (crossed \cup torn) :
  AtStep(h, "balance") /\ requests[h].customer = c =>
    customers[c].balance = OnCredit(c) - PaidOff(c) + requests[h].amount

CheckoutInv ==
  /\ CheckoutTyped /\ RequestsOnTheirWay
  /\ LocksApart /\ LockedAsFound /\ StockSold
  /\ PromotionsInFlight /\ PromotionUses
  /\ ServedAlone /\ CopiesAreCurrent /\ PaymentsHalfway /\ CustomerKept

-----------------------------------------------------------------------------
(* Lines and stock.                                                        *)

\* What is left after each line.
LeftAfter(level, lines, n, g) ==
  g = [k \in 0..n |-> IF k = 0 THEN level ELSE Deduct(g[k - 1], lines[k])]

LEMMA LeftExists ==
  ASSUME NEW level, NEW lines, NEW N \in Nat
  PROVE  \E g : LeftAfter(level, lines, N, g)
<1> DEFINE P == {n \in 0..N : \E g : LeftAfter(level, lines, n, g)}
<1>1. 0 \in P
  <2>1. PICK g : g = [k \in 0..0 |-> level]
    OBVIOUS
  <2>2. g = [k \in 0..0 |-> IF k = 0 THEN level ELSE Deduct(g[k - 1], lines[k])]
    BY <2>1
  <2> QED
    BY <2>2 DEF LeftAfter
<1>2. ASSUME NEW n \in 0..(N - 1), n \in P PROVE n + 1 \in P
  <2>1. PICK g : LeftAfter(level, lines, n, g)
    BY <1>2
  <2>2. PICK f : f = [k \in 0..(n + 1) |-> IF k = n + 1 THEN Deduct(g[n], lines[n + 1]) ELSE g[k]]
    OBVIOUS
  <2>3. ASSUME NEW k \in 0..(n + 1)
        PROVE  f[k] = IF k = 0 THEN level ELSE Deduct(f[k - 1], lines[k])
    <3>1. CASE k = n + 1
      <4>1. k - 1 = n /\ k - 1 \in 0..(n + 1) /\ k - 1 # n + 1 /\ k # 0
        BY <3>1
      <4>2. f[k - 1] = g[n] /\ f[k] = Deduct(g[n], lines[k])
        BY <2>2, <3>1, <4>1
      <4> QED
        BY <4>1, <4>2
    <3>2. CASE k # n + 1
      <4>1. k \in 0..n
        BY <3>2
      <4>2. g[k] = IF k = 0 THEN level ELSE Deduct(g[k - 1], lines[k])
        BY <2>1, <4>1 DEF LeftAfter
      <4>3. f[k] = g[k]
        BY <2>2, <3>2
      <4>4. CASE k = 0
        BY <4>2, <4>3, <4>4
      <4>5. CASE k # 0
        <5>1. k - 1 \in 0..(n + 1) /\ k - 1 # n + 1
          BY <4>1, <4>5
        <5>2. f[k - 1] = g[k - 1]
          BY <2>2, <5>1
        <5> QED
          BY <4>2, <4>3, <4>5, <5>2
      <4> QED
        BY <4>4, <4>5
    <3> QED
      BY <3>1, <3>2
  <2>4. LeftAfter(level, lines, n + 1, f)
    <3>1. f = [k \in 0..(n + 1) |-> f[k]]
      BY <2>2
    <3> QED
      BY <2>3, <3>1 DEF LeftAfter
  <2>5. n + 1 \in 0..N
    OBVIOUS
  <2> QED
    BY <2>4, <2>5
<1>3. \A n \in 0..N : n \in P
  <2> HIDE DEF P
  <2> QED
    BY <1>1, <1>2, StepByStep
<1> QED
  BY <1>3

\* The recursive function in Deducted does what it says.
LEMMA DeductedSteps ==
  ASSUME NEW level, NEW lines \in Seq(Line)
  PROVE  \E g : /\ g[0] = level
                /\ \A n \in 1..Len(lines) : g[n] = Deduct(g[n - 1], lines[n])
                /\ Deducted(level, lines) = g[Len(lines)]
<1>1. PICK g : g = CHOOSE f : LeftAfter(level, lines, Len(lines), f)
  OBVIOUS
<1>2. Len(lines) \in Nat
  OBVIOUS
<1>3. LeftAfter(level, lines, Len(lines), g)
  BY <1>1, <1>2, LeftExists
<1>4. Deducted(level, lines) = g[Len(lines)]
  BY <1>1 DEF Deducted, LeftAfter
<1>5. g[0] = level
  BY <1>2, <1>3 DEF LeftAfter
<1>6. \A n \in 1..Len(lines) : g[n] = Deduct(g[n - 1], lines[n])
  BY <1>2, <1>3 DEF LeftAfter
<1> QED
  BY <1>4, <1>5, <1>6

\* What each line takes of a product, and its price.
TakenBy(lines, p) == [n \in DOMAIN lines |-> IF lines[n].product = p THEN lines[n].quantity ELSE 0]

LEMMA QuantityNatural ==
  ASSUME NEW lines \in Seq(Line), NEW p
  PROVE  /\ Quantity(lines, p) = SumFunctionOnSet(TakenBy(lines, p), 1..Len(lines))
         /\ Quantity(lines, p) \in Nat
         /\ \A n \in 1..Len(lines) : TakenBy(lines, p)[n] \in Nat
         /\ p \notin Bought(lines) => Quantity(lines, p) = 0
<1>1. DOMAIN lines = 1..Len(lines) /\ Len(lines) \in Nat
  OBVIOUS
<1>2. Quantity(lines, p) = SumFunctionOnSet(TakenBy(lines, p), 1..Len(lines))
  BY <1>1 DEF Quantity, SumOf, TakenBy
<1>3. \A n \in 1..Len(lines) : lines[n] \in Line
  OBVIOUS
<1>4. \A n \in 1..Len(lines) : TakenBy(lines, p)[n] \in Nat
  BY <1>1, <1>3 DEF TakenBy, Line
<1>5. IsFiniteSet(1..Len(lines))
  BY <1>1, FS_Interval
<1>6. SumFunctionOnSet(TakenBy(lines, p), 1..Len(lines)) \in Nat
  BY <1>4, <1>5, SumNatural
<1>7. ASSUME p \notin Bought(lines) PROVE Quantity(lines, p) = 0
  <2>1. \A n \in 1..Len(lines) : TakenBy(lines, p)[n] = 0
    BY <1>1, <1>7 DEF TakenBy, Bought
  <2> QED
    BY <1>2, <1>5, <2>1, SumZero
<1> QED
  BY <1>2, <1>4, <1>6, <1>7

LEMMA DeductTyped ==
  ASSUME NEW level \in [Product -> Nat], NEW line \in Line
  PROVE  /\ Deduct(level, line) \in [Product -> Nat]
         /\ \A p \in Product : p # line.product => Deduct(level, line)[p] = level[p]
         /\ Deduct(level, line)[line.product] =
              IF level[line.product] >= line.quantity THEN level[line.product] - line.quantity
              ELSE level[line.product]
<1>1. line.product \in Product /\ line.quantity \in Nat
  BY DEF Line
<1>2. CASE level[line.product] >= line.quantity
  <2>1. level[line.product] - line.quantity \in Nat
    BY <1>1, <1>2
  <2>2. Deduct(level, line) = [level EXCEPT ![line.product] = level[line.product] - line.quantity]
    BY <1>2 DEF Deduct
  <2> QED
    BY <1>1, <1>2, <2>1, <2>2
<1>3. CASE ~(level[line.product] >= line.quantity)
  BY <1>1, <1>3 DEF Deduct
<1> QED
  BY <1>2, <1>3

\* Deducting the lines of a sale takes no more of a product than its lines say,
\* and exactly that if it has one line (deduct_stock, pos/models.py 1145).
LEMMA DeductedTakes ==
  ASSUME NEW level \in [Product -> Nat], NEW lines \in Seq(Line), NEW p \in Product,
         Enough(lines, level)
  PROVE  /\ Deducted(level, lines) \in [Product -> Nat]
         /\ level[p] - Quantity(lines, p) <= Deducted(level, lines)[p]
         /\ \/ \E i, j \in DOMAIN lines : i # j /\ lines[i].product = p /\ lines[j].product = p
            \/ Deducted(level, lines)[p] = level[p] - Quantity(lines, p)
<1>1. PICK g : /\ g[0] = level
               /\ \A n \in 1..Len(lines) : g[n] = Deduct(g[n - 1], lines[n])
               /\ Deducted(level, lines) = g[Len(lines)]
  BY DeductedSteps
<1>2. PICK N \in Nat : N = Len(lines)
  OBVIOUS
<1>3. PICK taken : taken = TakenBy(lines, p)
  OBVIOUS
<1>4. DOMAIN lines = 1..N /\ \A n \in 1..N : lines[n] \in Line /\ taken[n] \in Nat
  BY <1>2, <1>3, QuantityNatural
<1> DEFINE Single == \A i, j \in DOMAIN lines : lines[i].product = p /\ lines[j].product = p => i = j
           Sum(n) == SumFunctionOnSet(taken, 1..n)
           P == {n \in 0..N : /\ g[n] \in [Product -> Nat] /\ Sum(n) \in Nat
                              /\ level[p] - Sum(n) <= g[n][p]
                              /\ Single => g[n][p] = level[p] - Sum(n)}
<1>5. 0 \in P
  <2>1. 1..0 = {}
    OBVIOUS
  <2>2. Sum(0) = 0
    BY <2>1, SumEmpty
  <2>3. g[0][p] = level[p] - Sum(0) /\ level[p] \in Nat
    BY <1>1, <2>2
  <2> HIDE DEF Sum, Single
  <2> QED
    BY <1>1, <2>2, <2>3
<1>6. ASSUME NEW n \in 0..(N - 1), n \in P PROVE n + 1 \in P
  <2>1. n + 1 \in 1..N /\ n \in Nat /\ n + 1 \in 0..N
    OBVIOUS
  <2>2. PICK line \in Line : line = lines[n + 1]
    BY <1>4, <2>1
  <2>3. PICK before \in [Product -> Nat] : before = g[n]
    BY <1>6
  <2>4. g[n + 1] = Deduct(before, line)
    <3>1. (n + 1) - 1 = n
      OBVIOUS
    <3> QED
      BY <1>1, <1>2, <2>1, <2>2, <2>3, <3>1
  <2>5. Sum(n + 1) = Sum(n) + taken[n + 1] /\ Sum(n) \in Int
    <3>1. \A i \in 1..n : taken[i] \in Int /\ taken[i] = taken[i]
      BY <1>4, <2>1
    <3>2. taken[n + 1] \in Int
      BY <1>4, <2>1
    <3> QED
      BY <2>1, <3>1, <3>2, SumAppend
  <2>6. taken[n + 1] = IF line.product = p THEN line.quantity ELSE 0
    BY <1>3, <1>4, <2>1, <2>2 DEF TakenBy
  <2>7. line.product \in Product /\ line.quantity \in Nat
    BY DEF Line
  <2>8. /\ g[n + 1] \in [Product -> Nat]
        /\ line.product # p => g[n + 1][p] = before[p]
        /\ line.product = p => g[n + 1][p] = IF before[p] >= line.quantity THEN before[p] - line.quantity
                                             ELSE before[p]
    BY <2>4, DeductTyped
  <2>9. Sum(n) \in Nat /\ level[p] - Sum(n) <= before[p] /\ before[p] \in Nat /\ level[p] \in Nat
    BY <1>6, <2>3
  <2>10. ASSUME Single, line.product = p PROVE before[p] >= line.quantity
    <3>1. \A i \in 1..n : taken[i] = 0
      <4>1. ASSUME NEW i \in 1..n PROVE taken[i] = 0
        <5>1. i \in DOMAIN lines /\ n + 1 \in DOMAIN lines /\ i # n + 1
          BY <1>4, <2>1
        <5>2. lines[i].product # p
          BY <2>2, <2>10, <5>1
        <5> QED
          BY <1>3, <5>1, <5>2 DEF TakenBy
      <4> QED
        BY <4>1
    <3>2. IsFiniteSet(1..n)
      BY <2>1, FS_Interval
    <3>3. Sum(n) = 0
      BY <3>1, <3>2, SumZero
    <3>4. level[p] >= line.quantity
      BY <1>4, <2>1, <2>2, <2>10 DEF Enough
    <3>5. before[p] = level[p] - Sum(n)
      BY <1>6, <2>3, <2>10
    <3> HIDE DEF Sum
    <3> QED
      BY <3>3, <3>4, <3>5, <2>9
  <2>11. Single => before[p] = level[p] - Sum(n)
    BY <1>6, <2>3
  <2> HIDE DEF Sum, Single
  <2>12. Sum(n + 1) \in Nat
    BY <2>5, <2>6, <2>7, <2>9
  <2>13. level[p] - Sum(n + 1) <= g[n + 1][p]
    <3>1. CASE line.product = p
      BY <2>5, <2>6, <2>7, <2>8, <2>9, <3>1
    <3>2. CASE line.product # p
      BY <2>5, <2>6, <2>7, <2>8, <2>9, <3>2
    <3> QED
      BY <3>1, <3>2
  <2>14. Single => g[n + 1][p] = level[p] - Sum(n + 1)
    <3>1. CASE line.product = p
      BY <2>5, <2>6, <2>7, <2>8, <2>9, <2>10, <2>11, <3>1
    <3>2. CASE line.product # p
      BY <2>5, <2>6, <2>7, <2>8, <2>9, <2>11, <3>2
    <3> QED
      BY <3>1, <3>2
  <2> QED
    BY <2>1, <2>8, <2>12, <2>13, <2>14
<1>7. \A n \in 0..N : n \in P
  <2> HIDE DEF P
  <2> QED
    BY <1>2, <1>5, <1>6, StepByStep
<1>8. N \in P
  BY <1>7
<1>9. Quantity(lines, p) = Sum(N)
  BY <1>2, <1>3, QuantityNatural
<1> QED
  BY <1>1, <1>2, <1>8, <1>9

-----------------------------------------------------------------------------
(* Sums over the rows of sales and payments.                               *)

RowSum(rows, term) == SumFunctionOnSet([n \in DOMAIN rows |-> term[rows[n]]], DOMAIN rows)
CreditOf(c) == [s \in SaleRow |-> IF s.customer = c /\ s.credit THEN s.total ELSE 0]
PointsOf(c) == [s \in SaleRow |-> IF s.customer = c THEN Earned(s.total) - s.redeemed ELSE 0]
PromotionOf == [s \in SaleRow |-> IF s.promotion THEN 1 ELSE 0]
SoldOf(p) == [s \in SaleRow |-> Quantity(s.lines, p)]
PaymentOf(c) == [q \in PaidRow |-> IF q.customer = c THEN q.amount ELSE 0]

\* One more row adds its term.
LEMMA RowAdds ==
  ASSUME NEW R, NEW rows \in Seq(R), NEW row \in R, NEW term \in [R -> Int]
  PROVE  /\ RowSum(rows, term) \in Int
         /\ RowSum(Append(rows, row), term) = RowSum(rows, term) + term[row]
<1>1. PICK N \in Nat : N = Len(rows) /\ DOMAIN rows = 1..N /\ \A n \in 1..N : rows[n] \in R
  OBVIOUS
<1>2. PICK more : more = Append(rows, row)
  OBVIOUS
<1>3. DOMAIN more = 1..(N + 1) /\ more[N + 1] = row /\ \A n \in 1..N : more[n] = rows[n]
  BY <1>1, <1>2
<1>4. PICK f : f = [n \in DOMAIN rows |-> term[rows[n]]]
  OBVIOUS
<1>5. PICK g : g = [n \in DOMAIN more |-> term[more[n]]]
  OBVIOUS
<1>6. \A n \in 1..N : f[n] \in Int /\ g[n] = f[n]
  BY <1>1, <1>3, <1>4, <1>5
<1>7. g[N + 1] = term[row] /\ g[N + 1] \in Int
  BY <1>3, <1>5
<1>8. /\ SumFunctionOnSet(f, 1..N) \in Int
      /\ SumFunctionOnSet(g, 1..(N + 1)) = SumFunctionOnSet(f, 1..N) + g[N + 1]
  BY <1>6, <1>7, SumAppend
<1> QED
  BY <1>1, <1>2, <1>3, <1>4, <1>5, <1>7, <1>8 DEF RowSum

LEMMA SumOfRows ==
  ASSUME NEW R, NEW rows \in Seq(R), NEW term \in [R -> Int]
  PROVE  RowSum(rows, term) \in Int
<1>1. PICK N \in Nat : N = Len(rows) /\ DOMAIN rows = 1..N /\ \A n \in 1..N : rows[n] \in R
  OBVIOUS
<1>2. PICK f : f = [n \in DOMAIN rows |-> term[rows[n]]]
  OBVIOUS
<1>3. \A n \in 1..N : f[n] \in Int
  BY <1>1, <1>2
<1> QED
  <2>1. IsFiniteSet(1..N)
    BY FS_Interval
  <2>2. SumFunctionOnSet(f, 1..N) \in Int
    BY <1>3, <2>1, SumTakeOut
  <2> QED
    BY <1>1, <1>2, <2>2 DEF RowSum

LEMMA EmptyRows ==
  ASSUME NEW term
  PROVE  RowSum(<<>>, term) = 0
<1>1. DOMAIN <<>> = {}
  OBVIOUS
<1> QED
  BY <1>1, SumEmpty DEF RowSum

LEMMA EarnedNatural ==
  ASSUME NEW total \in Int
  PROVE  Earned(total) \in Nat
<1>1. PerPoint \in Nat \ {0}
  BY CheckoutAssumption
<1>2. ASSUME total > 0 PROVE total \div PerPoint \in Nat
  BY <1>1, <1>2
<1> QED
  BY <1>2 DEF Earned

LEMMA TermsTyped ==
  ASSUME NEW c, NEW p
  PROVE  /\ CreditOf(c) \in [SaleRow -> Int] /\ PointsOf(c) \in [SaleRow -> Int]
         /\ PromotionOf \in [SaleRow -> Int] /\ SoldOf(p) \in [SaleRow -> Int]
         /\ PaymentOf(c) \in [PaidRow -> Int]
<1>1. ASSUME NEW s \in SaleRow
      PROVE  s.total \in Int /\ s.redeemed \in Int /\ Earned(s.total) \in Int /\ Quantity(s.lines, p) \in Int
  <2>1. s.total \in Int /\ s.redeemed \in Nat /\ s.lines \in Seq(Line)
    BY DEF SaleRow
  <2>2. Earned(s.total) \in Int
    BY SMTT(30), <2>1, EarnedNatural
  <2>3. Quantity(s.lines, p) \in Int
    BY <2>1, QuantityNatural
  <2> QED
    BY <2>1, <2>2, <2>3
<1>2. \A q \in PaidRow : q.amount \in Int
  BY DEF PaidRow
<1> QED
  BY <1>1, <1>2 DEF CreditOf, PointsOf, PromotionOf, SoldOf, PaymentOf

\* The sums of the properties are such sums.
PromotionsCounted ==
  uses = RowSum(saleRows, PromotionOf) /\ uses <= MaxUses + Cardinality(Handler) - 1
SumsAreByRow ==
  /\ \A c : /\ OnCredit(c) = RowSum(saleRows, CreditOf(c))
            /\ PointsDue(c) = RowSum(saleRows, PointsOf(c))
            /\ PaidOff(c) = RowSum(paid, PaymentOf(c))
  /\ \A p : Sold(p) = RowSum(saleRows, SoldOf(p))
  /\ PromotionUses <=> PromotionsCounted

LEMMA SumsByRow == CheckoutTyped => SumsAreByRow
<1> SUFFICES ASSUME CheckoutTyped PROVE SumsAreByRow
  OBVIOUS
<1>1. \A n \in DOMAIN saleRows : saleRows[n] \in SaleRow
  BY DEF CheckoutTyped
<1>2. \A n \in DOMAIN paid : paid[n] \in PaidRow
  BY DEF CheckoutTyped
<1>3. \A c : OnCredit(c) = RowSum(saleRows, CreditOf(c))
  BY <1>1 DEF OnCredit, SumOf, RowSum, CreditOf
<1>4. \A c : PointsDue(c) = RowSum(saleRows, PointsOf(c))
  BY <1>1 DEF PointsDue, SumOf, RowSum, PointsOf
<1>5. PromotionUses <=> PromotionsCounted
  BY <1>1 DEF PromotionUses, PromotionsCounted, SumOf, RowSum, PromotionOf
<1>6. \A p : Sold(p) = RowSum(saleRows, SoldOf(p))
  BY <1>1 DEF Sold, SumOf, RowSum, SoldOf
<1>7. \A c : PaidOff(c) = RowSum(paid, PaymentOf(c))
  BY <1>2 DEF PaidOff, SumOf, RowSum, PaymentOf
<1> QED
  BY <1>3, <1>4, <1>5, <1>6, <1>7 DEF SumsAreByRow

LEMMA SumsByRowNext == CheckoutTyped' => SumsAreByRow'
BY SumsByRow, PTL

\* What a sale adds to the sums.
LEMMA SaleAdds ==
  ASSUME CheckoutTyped, CheckoutTyped', NEW row \in SaleRow, saleRows' = Append(saleRows, row)
  PROVE  /\ \A c : /\ OnCredit(c) \in Int /\ PointsDue(c) \in Int
                   /\ OnCredit(c)' = OnCredit(c) + (IF row.customer = c /\ row.credit THEN row.total ELSE 0)
                   /\ PointsDue(c)' = PointsDue(c)
                        + (IF row.customer = c THEN Earned(row.total) - row.redeemed ELSE 0)
                   /\ Overdiscounted(c)' <=> Overdiscounted(c) \/ (row.customer = c /\ row.total < 0)
         /\ \A p : /\ Sold(p) \in Int /\ Sold(p)' = Sold(p) + Quantity(row.lines, p)
                   /\ ListedTwice(p)' <=>
                        \/ ListedTwice(p)
                        \/ \E i, j \in DOMAIN row.lines :
                             i # j /\ row.lines[i].product = p /\ row.lines[j].product = p
         /\ RowSum(saleRows', PromotionOf)
              = RowSum(saleRows, PromotionOf) + (IF row.promotion THEN 1 ELSE 0)
         /\ RowSum(saleRows, PromotionOf) \in Int
<1>1. SumsAreByRow /\ SumsAreByRow'
  BY SumsByRow, SumsByRowNext
<1>2. PICK rows \in Seq(SaleRow) : rows = saleRows
  BY DEF CheckoutTyped
<1>3. ASSUME NEW term \in [SaleRow -> Int]
      PROVE  /\ RowSum(rows, term) \in Int
             /\ RowSum(Append(rows, row), term) = RowSum(rows, term) + term[row]
  BY RowAdds
<1>4. ASSUME NEW c
      PROVE  /\ OnCredit(c) \in Int /\ PointsDue(c) \in Int
             /\ OnCredit(c)' = OnCredit(c) + (IF row.customer = c /\ row.credit THEN row.total ELSE 0)
             /\ PointsDue(c)' = PointsDue(c)
                  + (IF row.customer = c THEN Earned(row.total) - row.redeemed ELSE 0)
  <2>1. OnCredit(c)' = RowSum(Append(rows, row), CreditOf(c)) /\ OnCredit(c) = RowSum(rows, CreditOf(c))
    BY <1>1, <1>2 DEF SumsAreByRow
  <2>2. PointsDue(c)' = RowSum(Append(rows, row), PointsOf(c)) /\ PointsDue(c) = RowSum(rows, PointsOf(c))
    BY <1>1, <1>2 DEF SumsAreByRow
  <2>3. CreditOf(c)[row] = IF row.customer = c /\ row.credit THEN row.total ELSE 0
    BY DEF CreditOf
  <2>4. PointsOf(c)[row] = IF row.customer = c THEN Earned(row.total) - row.redeemed ELSE 0
    BY DEF PointsOf
  <2>5. CreditOf(c) \in [SaleRow -> Int] /\ PointsOf(c) \in [SaleRow -> Int]
    BY TermsTyped
  <2> QED
    BY <1>3, <2>1, <2>2, <2>3, <2>4, <2>5
<1>5. ASSUME NEW p PROVE Sold(p) \in Int /\ Sold(p)' = Sold(p) + Quantity(row.lines, p)
  <2>1. Sold(p)' = RowSum(Append(rows, row), SoldOf(p)) /\ Sold(p) = RowSum(rows, SoldOf(p))
    BY <1>1, <1>2 DEF SumsAreByRow
  <2>2. SoldOf(p)[row] = Quantity(row.lines, p)
    BY DEF SoldOf
  <2>3. SoldOf(p) \in [SaleRow -> Int]
    BY TermsTyped
  <2> QED
    BY <1>3, <2>1, <2>2, <2>3
<1>6. /\ RowSum(saleRows', PromotionOf) = RowSum(saleRows, PromotionOf) + (IF row.promotion THEN 1 ELSE 0)
      /\ RowSum(saleRows, PromotionOf) \in Int
  <2>1. PromotionOf[row] = IF row.promotion THEN 1 ELSE 0
    BY DEF PromotionOf
  <2>2. PromotionOf \in [SaleRow -> Int]
    BY TermsTyped
  <2> QED
    BY <1>2, <1>3, <2>1, <2>2
<1>7. PICK more : more = Append(rows, row)
  OBVIOUS
<1>8. PICK N \in Nat : N = Len(rows) /\ DOMAIN rows = 1..N
  OBVIOUS
<1>9. /\ DOMAIN more = (1..N) \cup {N + 1} /\ more[N + 1] = row
      /\ \A n \in 1..N : more[n] = rows[n] /\ more # <<>>
  BY <1>7, <1>8
<1>10. saleRows = rows /\ saleRows' = more
  BY <1>2, <1>7
<1>11. ASSUME NEW c
       PROVE  Overdiscounted(c)' <=> Overdiscounted(c) \/ (row.customer = c /\ row.total < 0)
  <2> DEFINE Bad(s) == s.customer = c /\ s.total < 0
  <2>1. Overdiscounted(c)' <=> \E n \in DOMAIN more : Bad(more[n])
    BY <1>10 DEF Overdiscounted
  <2>2. Overdiscounted(c) <=> \E n \in 1..N : Bad(rows[n])
    BY <1>8, <1>10 DEF Overdiscounted
  <2>3. Bad(row) <=> row.customer = c /\ row.total < 0
    OBVIOUS
  <2> HIDE DEF Bad
  <2>4. \A n \in 1..N : n \in DOMAIN more /\ more[n] = rows[n]
    BY <1>9
  <2>5. N + 1 \in DOMAIN more /\ more[N + 1] = row
    BY <1>9
  <2>6. \A n \in DOMAIN more : n \in 1..N \/ n = N + 1
    BY <1>9
  <2>7. (\E n \in DOMAIN more : Bad(more[n])) <=> (\E n \in 1..N : Bad(rows[n])) \/ Bad(row)
    BY <2>4, <2>5, <2>6, Zenon
  <2>8. Overdiscounted(c)' <=> Overdiscounted(c) \/ Bad(row)
    BY <2>1, <2>2, <2>7, Zenon
  <2> QED
    BY <2>3, <2>8, Zenon
<1>12. \A p : ListedTwice(p)' <=>
          \/ ListedTwice(p)
          \/ \E i, j \in DOMAIN row.lines : i # j /\ row.lines[i].product = p /\ row.lines[j].product = p
  BY <1>8, <1>9, <1>10 DEF ListedTwice
<1> QED
  BY <1>4, <1>5, <1>6, <1>11, <1>12

\* Rows that do not change leave the sums alone.
LEMMA SalesAlone ==
  ASSUME CheckoutTyped, CheckoutTyped', saleRows' = saleRows
  PROVE  /\ \A c : OnCredit(c)' = OnCredit(c) /\ PointsDue(c)' = PointsDue(c)
         /\ \A c : Overdiscounted(c)' <=> Overdiscounted(c)
         /\ \A p : Sold(p)' = Sold(p) /\ (ListedTwice(p)' <=> ListedTwice(p))
         /\ RowSum(saleRows', PromotionOf) = RowSum(saleRows, PromotionOf)
         /\ PromotionUses /\ uses' = uses => PromotionUses'
<1>1. SumsAreByRow /\ SumsAreByRow'
  BY SumsByRow, SumsByRowNext
<1>2. \A c : OnCredit(c)' = OnCredit(c) /\ PointsDue(c)' = PointsDue(c)
  BY <1>1 DEF SumsAreByRow
<1>3. \A c : Overdiscounted(c)' <=> Overdiscounted(c)
  BY DEF Overdiscounted
<1>4. \A p : Sold(p)' = Sold(p)
  BY <1>1 DEF SumsAreByRow
<1>5. \A p : ListedTwice(p)' <=> ListedTwice(p)
  BY DEF ListedTwice
<1>6. RowSum(saleRows', PromotionOf) = RowSum(saleRows, PromotionOf)
  OBVIOUS
<1>7. ASSUME PromotionUses, uses' = uses PROVE PromotionUses'
  <2>1. PromotionsCounted
    BY <1>1, <1>7 DEF SumsAreByRow
  <2>2. PromotionsCounted'
    BY <1>7, <2>1 DEF PromotionsCounted
  <2> QED
    BY <1>1, <2>2 DEF SumsAreByRow
<1> QED
  BY <1>2, <1>3, <1>4, <1>5, <1>6, <1>7

LEMMA PaymentsAlone ==
  ASSUME CheckoutTyped, CheckoutTyped', paid' = paid
  PROVE  \A c : PaidOff(c)' = PaidOff(c)
<1>1. SumsAreByRow /\ SumsAreByRow'
  BY SumsByRow, SumsByRowNext
<1> QED
  BY <1>1 DEF SumsAreByRow

\* What a payment adds.
LEMMA PaymentAdds ==
  ASSUME CheckoutTyped, CheckoutTyped', NEW row \in PaidRow, paid' = Append(paid, row), NEW c
  PROVE  PaidOff(c) \in Int /\ PaidOff(c)' = PaidOff(c) + (IF row.customer = c THEN row.amount ELSE 0)
<1>1. SumsAreByRow /\ SumsAreByRow'
  BY SumsByRow, SumsByRowNext
<1>2. PaidOff(c)' = RowSum(Append(paid, row), PaymentOf(c)) /\ PaidOff(c) = RowSum(paid, PaymentOf(c))
  BY <1>1 DEF SumsAreByRow
<1>3. PaymentOf(c) \in [PaidRow -> Int] /\ PaymentOf(c)[row] = IF row.customer = c THEN row.amount ELSE 0
  BY TermsTyped DEF PaymentOf
<1>4. paid \in Seq(PaidRow)
  BY DEF CheckoutTyped
<1> QED
  BY <1>2, <1>3, <1>4, RowAdds

-----------------------------------------------------------------------------
(* Types, and what requests work on.                                       *)

LEMMA BasketTyped ==
  ASSUME NEW b \in Basket
  PROVE  /\ b.lines \in Seq(Line) /\ b.customer \in Customer \cup {Nobody} /\ b.credit \in BOOLEAN
         /\ b.promo \in BOOLEAN /\ b.redeem \in Nat
BY CheckoutAssumption

LEMMA NoRequestTyped == NoRequest \in CheckoutRequest /\ OnItsWay(NoRequest)
<1>1. Supply \in [Product -> Nat]
  BY CheckoutAssumption
<1> QED
  BY <1>1 DEF NoRequest, CheckoutRequest, CheckoutStages, NoCustomer, CustomerRow, OnItsWay, SoldAt

LEMMA ChargeTyped ==
  ASSUME NEW r \in CheckoutRequest, r.basket \in Basket
  PROVE  Charge(r) \in Int /\ Redeemed(r) \in Nat
<1>1. PICK lines \in Seq(Line) : lines = r.basket.lines
  BY BasketTyped
<1>2. /\ Price \in Nat /\ PromoDiscount \in Nat /\ r.basket.redeem \in Nat
      /\ BuyQuantity \in Nat \ {0} /\ GetQuantity \in Nat
  BY CheckoutAssumption
<1>3. IsFiniteSet(DOMAIN lines)
  <2>1. DOMAIN lines = 1..Len(lines) /\ Len(lines) \in Nat
    OBVIOUS
  <2> QED
    BY <2>1, FS_Interval
<1>4. ASSUME NEW n \in DOMAIN lines PROVE lines[n].quantity \in Nat
  <2>1. lines[n] \in Line
    OBVIOUS
  <2> QED
    BY <2>1 DEF Line
<1>5. Goods(r) \in Nat
  <2>1. PICK prices : prices = [n \in DOMAIN lines |-> lines[n].quantity * Price]
    OBVIOUS
  <2>2. \A n \in DOMAIN lines : prices[n] \in Nat
    BY <1>2, <1>4, <2>1
  <2>3. Goods(r) = SumFunctionOnSet(prices, DOMAIN lines)
    BY <1>1, <2>1 DEF Goods, SumOf
  <2> QED
    BY <1>3, <2>2, <2>3, SumNatural
<1>6. GivenUnits(r) \in Nat
  <2>1. PICK units : units = [n \in DOMAIN lines |-> (lines[n].quantity \div BuyQuantity) * GetQuantity]
    OBVIOUS
  <2>2. ASSUME NEW n \in DOMAIN lines PROVE units[n] \in Nat
    <3>1. PICK k \in Nat : k = lines[n].quantity
      BY <1>4
    <3>2. PICK sets \in Nat : sets = k \div BuyQuantity
      BY <1>2
    <3>3. units[n] = sets * GetQuantity
      BY <2>1, <3>1, <3>2
    <3> QED
      BY <1>2, <3>3
  <2>3. GivenUnits(r) = SumFunctionOnSet(units, DOMAIN lines)
    BY <1>1, <2>1 DEF GivenUnits, SumOf
  <2> QED
    BY <1>3, <2>2, <2>3, SumNatural
<1>7. PromoWorth(r) \in Int
  <2>1. CASE PromoType = "fixed"
    BY <1>2, <1>5, <2>1 DEF PromoWorth
  <2>2. CASE PromoType # "fixed"
    <3>1. GivenUnits(r) * Price \in Int
      BY <1>2, <1>6
    <3> QED
      BY <2>2, <3>1 DEF PromoWorth
  <2> QED
    BY <2>1, <2>2
<1> QED
  BY <1>2, <1>5, <1>7 DEF Charge, Discount, Redeemed

\* The step of one request leaves the others alone.
LEMMA ProceedAlone ==
  ASSUME CheckoutTyped, NEW h \in Handler, NEW r, Proceed(h, r)
  PROVE  requests'[h] = r /\ \A g \in Handler : g # h => requests'[g] = requests[g]
BY DEF Proceed, CheckoutTyped

\* The row that a sale inserts.
RowFor(r) ==
  [lines |-> r.basket.lines, customer |-> r.customer, credit |-> r.basket.credit,
   promotion |-> r.promotion, redeemed |-> Redeemed(r), total |-> Charge(r)]
Sells(h) ==
  /\ AtStep(h, "sell") /\ CreditSuffices(requests[h]) /\ PointsSuffice(requests[h])
  /\ saleRows' = Append(saleRows, RowFor(requests[h]))

LEMMA RowTyped ==
  ASSUME CheckoutInv, NEW h \in Handler, AtStep(h, "sell")
  PROVE  /\ RowFor(requests[h]) \in SaleRow
         /\ requests[h] \in CheckoutRequest /\ requests[h].basket \in Basket
         /\ requests[h].customer = requests[h].basket.customer
<1>1. requests[h] \in CheckoutRequest
  BY DEF CheckoutInv, CheckoutTyped
<1>2. requests[h].basket \in Basket /\ requests[h].customer = requests[h].basket.customer
  BY DEF CheckoutInv, RequestsOnTheirWay, OnItsWay, AtStep, SoldAt
<1>3. requests[h].promotion \in BOOLEAN
  BY <1>1 DEF CheckoutRequest
<1>4. Charge(requests[h]) \in Int /\ Redeemed(requests[h]) \in Nat
  BY <1>1, <1>2, ChargeTyped
<1> QED
  BY <1>1, <1>2, <1>3, <1>4, BasketTyped DEF RowFor, SaleRow

LEMMA SaleTyped ==
  ASSUME CheckoutInv, NEW h \in Handler, CompleteSale(h), Sells(h)
  PROVE  CheckoutTyped' /\ RequestsOnTheirWay'
<1>1. PICK r \in CheckoutRequest : r = requests[h]
  BY DEF CheckoutInv, CheckoutTyped
<1>2. r.basket \in Basket /\ RowFor(r) \in SaleRow /\ r.customer = r.basket.customer
  BY <1>1, RowTyped DEF Sells
<1>3. CreditSuffices(r) /\ PointsSuffice(r)
  BY <1>1 DEF Sells
<1>4. /\ stock' = [p \in Product |->
                     IF p \in Bought(r.basket.lines) THEN Deducted(r.found, r.basket.lines)[p] ELSE stock[p]]
      /\ uses' = uses + (IF r.promotion THEN 1 ELSE 0)
      /\ customers' = IF r.customer = Nobody THEN customers ELSE [customers EXCEPT ![r.customer] = Served(r)]
      /\ Proceed(h, NoRequest) /\ paid' = paid /\ crossed' = crossed /\ torn' = torn
  BY <1>1, <1>3 DEF CompleteSale
<1>5. stock' \in [Product -> Nat]
  <2>1. PICK lines \in Seq(Line) : lines = r.basket.lines
    BY <1>2, BasketTyped
  <2>2. r.found \in [Product -> Nat] /\ Enough(lines, r.found)
    BY <1>1, <2>1 DEF CheckoutInv, LockedAsFound, Sells, AtStep, SoldAt, CheckoutRequest
  <2>3. ASSUME NEW p \in Product PROVE Deducted(r.found, lines)[p] \in Nat
    BY <2>2, DeductedTakes
  <2>4. stock \in [Product -> Nat]
    BY DEF CheckoutInv, CheckoutTyped
  <2> QED
    BY <1>4, <2>1, <2>3, <2>4
<1>6. uses' \in Nat
  BY <1>4 DEF CheckoutInv, CheckoutTyped
<1>7. customers' \in [Customer -> CustomerRow]
  <2>1. customers \in [Customer -> CustomerRow]
    BY DEF CheckoutInv, CheckoutTyped
  <2>2. Charge(r) \in Int /\ Redeemed(r) \in Nat
    BY <1>2, ChargeTyped
  <2>3. Earned(Charge(r)) \in Nat
    BY <2>2, EarnedNatural
  <2>4. r.copy \in CustomerRow
    BY DEF CheckoutRequest
  <2>5. Served(r) \in CustomerRow
    BY <2>2, <2>3, <2>4 DEF Served, CustomerRow
  <2> QED
    BY <1>4, <2>1, <2>5
<1>8. saleRows' \in Seq(SaleRow)
  <2>1. PICK row \in SaleRow : row = RowFor(r)
    BY <1>2
  <2>2. saleRows \in Seq(SaleRow) /\ saleRows' = Append(saleRows, row)
    BY <1>1, <2>1 DEF Sells, CheckoutInv, CheckoutTyped
  <2> QED
    BY <2>2
<1>9. requests' \in [Handler -> CheckoutRequest] /\ RequestsOnTheirWay'
  <2>1. requests' = [requests EXCEPT ![h] = NoRequest]
    BY <1>4 DEF Proceed
  <2>2. requests \in [Handler -> CheckoutRequest] /\ \A g \in Handler : OnItsWay(requests[g])
    BY DEF CheckoutInv, CheckoutTyped, RequestsOnTheirWay
  <2>3. requests' \in [Handler -> CheckoutRequest]
    BY <2>1, <2>2, NoRequestTyped
  <2>4. ASSUME NEW g \in Handler PROVE OnItsWay(requests'[g])
    BY <2>1, <2>2, NoRequestTyped
  <2>5. RequestsOnTheirWay'
    BY <2>4 DEF RequestsOnTheirWay, OnItsWay
  <2> QED
    BY <2>3, <2>5
<1> QED
  BY <1>4, <1>5, <1>6, <1>7, <1>8, <1>9 DEF CheckoutInv, CheckoutTyped

-----------------------------------------------------------------------------
(* Steps that write no table.                                              *)

\* What such a step makes of a request: it may lock what is free and as it
\* found it, be granted a promotion that has a use left, and read a customer.
Takes(h, r) ==
  r.at \in SoldAt =>
    \/ requests[h].at \in SoldAt /\ r.basket = requests[h].basket /\ r.found = requests[h].found
    \/ r.found = stock /\ Enough(r.basket.lines, stock) /\ ProductsFree(h, Bought(r.basket.lines))
Granted(h, r) == r.promotion => requests[h].promotion \/ uses < MaxUses
Serves(h, r) ==
  /\ \/ r.customer = Nobody
     \/ r.customer = requests[h].customer /\ r.copy = requests[h].copy
     \/ /\ r.customer \in Customer /\ r.copy = customers[r.customer]
        /\ \A g \in Handler \ {h} : requests[g].customer = r.customer => r.customer \in crossed'
  /\ r.at # "balance"
  /\ requests[h].at = "balance" => requests[h].customer \in torn'

LEMMA QuietTyped ==
  ASSUME CheckoutInv, NEW h \in Handler, NEW r \in CheckoutRequest, OnItsWay(r),
         Proceed(h, r), UNCHANGED checkoutTables, crossed' \subseteq Customer, torn' \subseteq Customer
  PROVE  CheckoutTyped' /\ RequestsOnTheirWay'
<1>1. requests' = [requests EXCEPT ![h] = r]
  BY DEF Proceed
<1>2. requests \in [Handler -> CheckoutRequest] /\ \A g \in Handler : OnItsWay(requests[g])
  BY DEF CheckoutInv, CheckoutTyped, RequestsOnTheirWay
<1>3. requests' \in [Handler -> CheckoutRequest]
  BY <1>1, <1>2
<1>4. \A g \in Handler : OnItsWay(requests'[g])
  BY <1>1, <1>2
<1> QED
  BY <1>3, <1>4 DEF CheckoutInv, CheckoutTyped, RequestsOnTheirWay, OnItsWay, checkoutTables

LEMMA QuietStock ==
  ASSUME CheckoutInv, CheckoutTyped', NEW h \in Handler, NEW r, Proceed(h, r),
         stock' = stock, saleRows' = saleRows, Takes(h, r)
  PROVE  LocksApart' /\ LockedAsFound' /\ StockSold'
<1>1. requests'[h] = r /\ \A g \in Handler : g # h => requests'[g] = requests[g]
  BY ProceedAlone DEF CheckoutInv
<1>2. ASSUME NEW g \in Handler, g # h PROVE Locks(g)' = Locks(g) /\ Locks(g) \cap Locks(h)' = {}
  <2>1. Locks(g)' = Locks(g)
    BY <1>1, <1>2 DEF Locks
  <2>2. Locks(h)' = IF r.at \in SoldAt THEN Bought(r.basket.lines) ELSE {}
    BY <1>1 DEF Locks, SoldAt
  <2>3. Locks(g) \cap Locks(h) = {}
    BY <1>2 DEF CheckoutInv, LocksApart
  <2>4. CASE r.at \notin SoldAt
    BY <2>1, <2>2, <2>4
  <2>5. CASE r.at \in SoldAt /\ requests[h].at \in SoldAt /\ r.basket = requests[h].basket
    BY <2>1, <2>2, <2>3, <2>5 DEF Locks, SoldAt
  <2>6. CASE ProductsFree(h, Bought(r.basket.lines)) /\ r.at \in SoldAt
    BY <1>2, <2>1, <2>2, <2>6 DEF ProductsFree
  <2> QED
    BY <2>4, <2>5, <2>6 DEF Takes
<1>3. LocksApart'
  BY <1>2 DEF CheckoutInv, LocksApart
<1>4. LockedAsFound'
  <2>1. ASSUME NEW g \in Handler, requests'[g].at \in SoldAt
        PROVE  /\ Enough(requests'[g].basket.lines, requests'[g].found)
               /\ \A p \in Locks(g)' : requests'[g].found[p] = stock'[p]
    <3>2. CASE g # h
      BY <1>1, <1>2, <2>1, <3>2 DEF CheckoutInv, LockedAsFound
    <3>3. CASE /\ g = h /\ requests[h].at \in SoldAt
               /\ r.basket = requests[h].basket /\ r.found = requests[h].found
      <4>1. Locks(h)' = Locks(h)
        BY <1>1, <2>1, <3>3 DEF Locks, SoldAt
      <4> QED
        BY <1>1, <3>3, <4>1 DEF CheckoutInv, LockedAsFound
    <3>4. CASE g = h /\ r.found = stock /\ Enough(r.basket.lines, stock)
      BY <1>1, <3>4
    <3> QED
      BY <1>1, <2>1, <3>2, <3>3, <3>4 DEF Takes
  <2> QED
    BY <2>1 DEF LockedAsFound, Enough
<1>5. StockSold'
  BY SalesAlone DEF CheckoutInv, StockSold
<1> QED
  BY <1>3, <1>4, <1>5

\* The promotions in flight are at most the requests.
LEMMA FewPromoted ==
  ASSUME NEW S \in SUBSET Handler
  PROVE  /\ IsFiniteSet(S) /\ Cardinality(S) \in Nat /\ Cardinality(Handler) \in Nat
         /\ Cardinality(S) <= Cardinality(Handler)
BY CheckoutAssumption, FS_Subset, FS_CardinalityType

LEMMA QuietPromotion ==
  ASSUME CheckoutInv, CheckoutTyped', NEW h \in Handler, NEW r, Proceed(h, r),
         uses' = uses, saleRows' = saleRows, Granted(h, r)
  PROVE  PromotionsInFlight' /\ PromotionUses'
<1>1. requests'[h] = r /\ \A g \in Handler : g # h => requests'[g] = requests[g]
  BY ProceedAlone DEF CheckoutInv
<1>2. uses \in Nat /\ MaxUses \in Nat
  BY CheckoutAssumption DEF CheckoutInv, CheckoutTyped
<1>3. PromotionUses'
  BY SalesAlone DEF CheckoutInv
<1>4. PICK S \in SUBSET Handler : S = Promoted
  BY DEF Promoted
<1>5. PICK T \in SUBSET Handler : T = Promoted'
  BY DEF Promoted
<1>6. uses + Cardinality(S) <= MaxUses + Cardinality(Handler) - 1
  BY <1>4 DEF CheckoutInv, PromotionsInFlight
<1>7. uses + Cardinality(T) <= MaxUses + Cardinality(Handler) - 1
  <2>1. CASE r.promotion => requests[h].promotion
    <3>1. T \subseteq S
      BY <1>1, <1>4, <1>5, <2>1 DEF Promoted
    <3>2. Cardinality(T) <= Cardinality(S)
      BY <3>1, FewPromoted, FS_Subset
    <3> QED
      BY <1>2, <1>6, <3>2, FewPromoted
  <2>2. CASE uses < MaxUses
    <3>1. /\ Cardinality(T) \in Nat /\ Cardinality(Handler) \in Nat
          /\ Cardinality(T) <= Cardinality(Handler)
      BY FewPromoted
    <3> QED
      BY <1>2, <2>2, <3>1
  <2> QED
    BY <2>1, <2>2 DEF Granted
<1> QED
  BY <1>2, <1>3, <1>5, <1>7 DEF PromotionsInFlight

LEMMA QuietCustomers ==
  ASSUME CheckoutInv, CheckoutTyped', NEW h \in Handler, NEW r, Proceed(h, r), UNCHANGED checkoutTables,
         crossed \subseteq crossed', torn \subseteq torn', Serves(h, r)
  PROVE  ServedAlone' /\ CopiesAreCurrent' /\ PaymentsHalfway' /\ CustomerKept'
<1>1. requests'[h] = r /\ \A g \in Handler : g # h => requests'[g] = requests[g]
  BY ProceedAlone DEF CheckoutInv
<1>2. customers' = customers /\ saleRows' = saleRows /\ paid' = paid
  BY DEF checkoutTables
<1>3. ASSUME NEW g \in Handler, g # h, r.customer \notin crossed' \cup {Nobody},
             requests[g].customer = r.customer
      PROVE  FALSE
  <2>1. CASE r.customer = requests[h].customer
    BY <1>3, <2>1 DEF CheckoutInv, ServedAlone
  <2>2. CASE r.customer # requests[h].customer
    BY <1>3, <2>2 DEF Serves
  <2> QED
    BY <2>1, <2>2
<1>4. ServedAlone'
  <2>1. ASSUME NEW f \in Handler, NEW g \in Handler, requests'[f].customer \notin crossed' \cup {Nobody},
               requests'[f].customer = requests'[g].customer
        PROVE  f = g
    <3>1. CASE f # h /\ g # h
      BY <1>1, <2>1, <3>1 DEF CheckoutInv, ServedAlone
    <3>2. CASE f = h /\ g # h
      BY <1>1, <1>3, <2>1, <3>2
    <3>3. CASE f # h /\ g = h
      BY <1>1, <1>3, <2>1, <3>3
    <3> QED
      BY <3>1, <3>2, <3>3
  <2> QED
    BY <2>1 DEF ServedAlone
<1>5. CopiesAreCurrent'
  <2>1. ASSUME NEW g \in Handler, requests'[g].customer \notin crossed' \cup {Nobody}
        PROVE  requests'[g].copy = customers'[requests'[g].customer]
    <3>1. CASE g # h
      BY <1>1, <1>2, <2>1, <3>1 DEF CheckoutInv, CopiesAreCurrent
    <3>2. CASE g = h
      BY <1>1, <1>2, <2>1, <3>2 DEF CheckoutInv, CopiesAreCurrent, Serves
    <3> QED
      BY <3>1, <3>2
  <2> QED
    BY <2>1 DEF CopiesAreCurrent
<1>6. /\ \A c : OnCredit(c)' = OnCredit(c) /\ PaidOff(c)' = PaidOff(c)
      /\ \A c : PointsDue(c)' = PointsDue(c) /\ (Overdiscounted(c)' <=> Overdiscounted(c))
  BY <1>2, SalesAlone, PaymentsAlone DEF CheckoutInv
<1>7. PaymentsHalfway'
  <2>1. ASSUME NEW g \in Handler, NEW c \in Customer \ (crossed' \cup torn'),
               requests'[g].at = "balance", requests'[g].customer = c
        PROVE  customers'[c].balance = OnCredit(c)' - PaidOff(c)' + requests'[g].amount
    <3>1. g # h
      BY <1>1, <2>1 DEF Serves
    <3> QED
      BY <1>1, <1>2, <1>6, <2>1, <3>1 DEF CheckoutInv, PaymentsHalfway, AtStep
  <2> QED
    BY <2>1 DEF PaymentsHalfway, AtStep
<1>8. CustomerKept'
  <2>1. ASSUME NEW c \in Customer \ (crossed' \cup torn')
        PROVE  /\ Paying(c)' \/ customers'[c].balance = OnCredit(c)' - PaidOff(c)'
               /\ customers'[c].balance <= Limit[c]
               /\ Overdiscounted(c)' \/ customers'[c].balance >= 0
               /\ customers'[c].points = PointsDue(c)' /\ customers'[c].points >= 0
    <3>1. Paying(c) => Paying(c)'
      <4>1. ASSUME NEW g \in Handler, AtStep(g, "balance"), requests[g].customer = c PROVE Paying(c)'
        <5>1. g # h
          BY <2>1, <4>1 DEF AtStep, Serves
        <5> QED
          BY <1>1, <4>1, <5>1 DEF Paying, AtStep
      <4> QED
        BY <4>1 DEF Paying
    <3> QED
      BY <1>2, <1>6, <2>1, <3>1 DEF CheckoutInv, CustomerKept
  <2> QED
    BY <2>1 DEF CustomerKept
<1> QED
  BY <1>4, <1>5, <1>7, <1>8

LEMMA QuietKeeps ==
  ASSUME CheckoutInv, NEW h \in Handler, NEW r \in CheckoutRequest, OnItsWay(r),
         Proceed(h, r), UNCHANGED checkoutTables,
         crossed \subseteq crossed', crossed' \subseteq Customer,
         torn \subseteq torn', torn' \subseteq Customer,
         Takes(h, r), Granted(h, r), Serves(h, r)
  PROVE  CheckoutInv'
<1>1. CheckoutTyped' /\ RequestsOnTheirWay'
  BY QuietTyped
<1>2. stock' = stock /\ uses' = uses /\ saleRows' = saleRows
  BY DEF checkoutTables
<1> QED
  BY <1>1, <1>2, QuietStock, QuietPromotion, QuietCustomers DEF CheckoutInv

\* Two requests that deal with a customer at the same time cross.
LEMMA MeetCrosses ==
  ASSUME CheckoutInv, NEW h \in Handler, NEW c \in Customer \cup {Nobody}, Meet(h, c)
  PROVE  /\ crossed \subseteq crossed' /\ crossed' \subseteq Customer
         /\ c # Nobody =>
              \A g \in Handler \ {h} : requests[g].customer = c => c \in crossed'
BY DEF Meet, CheckoutInv, CheckoutTyped

LEMMA AskCustomerKeeps ==
  ASSUME CheckoutInv, NEW h \in Handler, NEW b \in Basket, AskCustomer(h, b)
  PROVE  CheckoutInv'
<1>1. PICK r : r = [NoRequest EXCEPT !.at = "price", !.customer = b.customer,
                                     !.copy = Copy(b.customer), !.basket = b]
  OBVIOUS
<1>2. /\ requests[h].at = "idle" /\ Proceed(h, r) /\ Meet(h, b.customer)
      /\ UNCHANGED checkoutTables /\ torn' = torn
  BY <1>1 DEF AskCustomer, AtStep
<1>3. /\ r.at = "price" /\ r.customer = b.customer /\ r.copy = Copy(b.customer)
      /\ r.basket = b /\ r.promotion = FALSE
  BY <1>1 DEF NoRequest
<1>4. b.customer \in Customer \cup {Nobody} /\ Nobody \notin Customer
  BY CheckoutAssumption
<1>5. Copy(b.customer) \in CustomerRow
  BY <1>4 DEF Copy, NoCustomer, CustomerRow, CheckoutInv, CheckoutTyped
<1>6. r \in CheckoutRequest
  BY <1>1, <1>4, <1>5, NoRequestTyped DEF CheckoutRequest, CheckoutStages
<1>7. OnItsWay(r)
  BY <1>3 DEF OnItsWay, SoldAt
<1>8. /\ crossed \subseteq crossed' /\ crossed' \subseteq Customer
      /\ b.customer # Nobody =>
           \A g \in Handler \ {h} : requests[g].customer = b.customer => b.customer \in crossed'
  BY <1>2, <1>4, MeetCrosses
<1>9. Takes(h, r) /\ Granted(h, r)
  BY <1>3 DEF Takes, Granted, SoldAt
<1>10. Serves(h, r)
  BY <1>2, <1>3, <1>4, <1>8 DEF Serves, Copy
<1>11. torn \subseteq torn' /\ torn' \subseteq Customer
  BY <1>2 DEF CheckoutInv, CheckoutTyped
<1> QED
  BY <1>2, <1>6, <1>7, <1>8, <1>9, <1>10, <1>11, QuietKeeps

\* A request that is given up, or goes on with its customer.
LEMMA StepKeeps ==
  ASSUME CheckoutInv, NEW h \in Handler, NEW r \in CheckoutRequest, OnItsWay(r), Proceed(h, r),
         UNCHANGED <<checkoutTables, crossed, torn>>, Takes(h, r), Granted(h, r),
         \/ r.customer = Nobody
         \/ r.customer = requests[h].customer /\ r.copy = requests[h].copy,
         requests[h].at # "balance", r.at # "balance"
  PROVE  CheckoutInv'
<1>1. Serves(h, r)
  BY DEF Serves
<1>2. /\ crossed' \subseteq Customer /\ torn' \subseteq Customer
      /\ crossed \subseteq crossed' /\ torn \subseteq torn'
  BY DEF CheckoutInv, CheckoutTyped
<1>3. UNCHANGED checkoutTables
  OBVIOUS
<1> QED
  BY <1>1, <1>2, <1>3, QuietKeeps

LEMMA RefuseKeeps ==
  ASSUME CheckoutInv, NEW h \in Handler, RefuseSale(h), requests[h].at # "balance"
  PROVE  CheckoutInv'
<1>1. Takes(h, NoRequest) /\ Granted(h, NoRequest) /\ NoRequest.at = "idle" /\ NoRequest.customer = Nobody
  BY DEF Takes, Granted, NoRequest, SoldAt
<1>2. Proceed(h, NoRequest) /\ UNCHANGED <<checkoutTables, crossed, torn>>
  BY DEF RefuseSale
<1> QED
  BY <1>1, <1>2, NoRequestTyped, StepKeeps

\* A request on its way to a sale stays on it.
LEMMA GoesOn ==
  ASSUME CheckoutInv, NEW h \in Handler, requests[h].at \in {"price", "lock", "number"},
         NEW r \in CheckoutRequest, r.at \in {"lock", "number", "sell"},
         r.basket = requests[h].basket, r.customer = requests[h].customer
  PROVE  OnItsWay(r)
<1>1. OnItsWay(requests[h])
  BY DEF CheckoutInv, RequestsOnTheirWay
<1> QED
  BY <1>1 DEF OnItsWay, SoldAt

LEMMA PriceBasketKeeps ==
  ASSUME CheckoutInv, NEW h \in Handler, PriceBasket(h)
  PROVE  CheckoutInv'
<1>1. requests[h].at = "price"
  BY DEF PriceBasket, AtStep
<1>2. CASE RefuseSale(h)
  BY <1>1, <1>2, RefuseKeeps
<1>3. CASE /\ Proceed(h, [requests[h] EXCEPT !.at = "lock",
                                          !.promotion = requests[h].basket.promo /\ PromotionLeft])
           /\ UNCHANGED <<checkoutTables, crossed, torn>>
  <2>1. PICK q \in CheckoutRequest : q = requests[h]
    BY DEF CheckoutInv, CheckoutTyped
  <2>2. PICK promotion \in BOOLEAN : promotion = (q.basket.promo /\ PromotionLeft)
    OBVIOUS
  <2>3. PICK r : r = [q EXCEPT !.at = "lock", !.promotion = promotion]
    OBVIOUS
  <2>4. /\ r \in CheckoutRequest /\ r.at = "lock" /\ r.promotion = promotion
        /\ r.basket = q.basket /\ r.customer = q.customer /\ r.copy = q.copy
    BY <2>3 DEF CheckoutRequest, CheckoutStages
  <2>5. OnItsWay(r)
    BY <1>1, <2>1, <2>4, GoesOn
  <2>6. Proceed(h, r)
    BY <1>3, <2>1, <2>2, <2>3
  <2>7. promotion => uses < MaxUses
    BY <2>2 DEF PromotionLeft
  <2>8. Takes(h, r) /\ Granted(h, r)
    BY <2>4, <2>7 DEF Takes, Granted, SoldAt
  <2> QED
    BY <1>1, <1>3, <2>1, <2>4, <2>5, <2>6, <2>8, StepKeeps
<1> QED
  BY <1>2, <1>3 DEF PriceBasket

LEMMA LockProductsKeeps ==
  ASSUME CheckoutInv, NEW h \in Handler, LockProducts(h)
  PROVE  CheckoutInv'
<1>1. requests[h].at = "lock" /\ ProductsFree(h, Bought(requests[h].basket.lines))
  BY DEF LockProducts, AtStep
<1>2. CASE RefuseSale(h)
  BY <1>1, <1>2, RefuseKeeps
<1>3. CASE /\ Enough(requests[h].basket.lines, stock)
           /\ Proceed(h, [requests[h] EXCEPT !.at = "number", !.found = stock])
           /\ UNCHANGED <<checkoutTables, crossed, torn>>
  <2>1. PICK q \in CheckoutRequest : q = requests[h]
    BY DEF CheckoutInv, CheckoutTyped
  <2>2. PICK found \in [Product -> Nat] : found = stock
    BY DEF CheckoutInv, CheckoutTyped
  <2>3. PICK r : r = [q EXCEPT !.at = "number", !.found = found]
    OBVIOUS
  <2>4. /\ r \in CheckoutRequest /\ r.at = "number" /\ r.promotion = q.promotion /\ r.found = found
        /\ r.basket = q.basket /\ r.customer = q.customer /\ r.copy = q.copy
    BY <2>3 DEF CheckoutRequest, CheckoutStages
  <2>5. OnItsWay(r)
    BY <1>1, <2>1, <2>4, GoesOn
  <2>6. Proceed(h, r)
    BY <1>3, <2>1, <2>2, <2>3
  <2>7. Takes(h, r) /\ Granted(h, r)
    BY <1>1, <1>3, <2>1, <2>2, <2>4 DEF Takes, Granted
  <2> QED
    BY <1>1, <1>3, <2>1, <2>4, <2>5, <2>6, <2>7, StepKeeps
<1> QED
  BY <1>2, <1>3 DEF LockProducts

LEMMA NumberKeeps ==
  ASSUME CheckoutInv, NEW h \in Handler, Number(h)
  PROVE  CheckoutInv'
<1>1. requests[h].at = "number"
  BY DEF Number, AtStep
<1>2. PICK q \in CheckoutRequest : q = requests[h]
  BY DEF CheckoutInv, CheckoutTyped
<1>3. PICK r : r = [q EXCEPT !.at = "sell"]
  OBVIOUS
<1>4. /\ r \in CheckoutRequest /\ r.at = "sell" /\ r.promotion = q.promotion /\ r.found = q.found
      /\ r.basket = q.basket /\ r.customer = q.customer /\ r.copy = q.copy
  BY <1>3 DEF CheckoutRequest, CheckoutStages
<1>5. OnItsWay(r)
  BY <1>1, <1>2, <1>4, GoesOn
<1>6. Takes(h, r) /\ Granted(h, r)
  BY <1>1, <1>2, <1>4 DEF Takes, Granted, SoldAt
<1>7. Proceed(h, r) /\ UNCHANGED <<checkoutTables, crossed, torn>>
  BY <1>2, <1>3 DEF Number
<1> QED
  BY <1>1, <1>2, <1>4, <1>5, <1>6, <1>7, StepKeeps

LEMMA DieKeeps ==
  ASSUME CheckoutInv, NEW h \in Handler, Die(h)
  PROVE  CheckoutInv'
<1>1. Takes(h, NoRequest) /\ Granted(h, NoRequest) /\ NoRequest.at = "idle" /\ NoRequest.customer = Nobody
  BY DEF Takes, Granted, NoRequest, SoldAt
<1>2. Proceed(h, NoRequest) /\ UNCHANGED checkoutTables /\ crossed' = crossed
  BY DEF Die
<1>3. torn' = IF requests[h].at = "balance" THEN torn \cup {requests[h].customer} ELSE torn
  BY DEF Die, AtStep
<1>4. requests[h].at = "balance" => requests[h].customer \in Customer
  BY DEF CheckoutInv, RequestsOnTheirWay, OnItsWay
<1>5. /\ torn \subseteq torn' /\ torn' \subseteq Customer
      /\ crossed \subseteq crossed' /\ crossed' \subseteq Customer
  BY <1>2, <1>3, <1>4 DEF CheckoutInv, CheckoutTyped
<1>6. Serves(h, NoRequest)
  BY <1>1, <1>3 DEF Serves
<1> QED
  BY <1>1, <1>2, <1>5, <1>6, NoRequestTyped, QuietKeeps

LEMMA AskPaymentKeeps ==
  ASSUME CheckoutInv, NEW h \in Handler, NEW c \in Customer, NEW amount \in Payments,
         AskPayment(h, c, amount)
  PROVE  CheckoutInv'
<1>1. PICK r : r = [NoRequest EXCEPT !.at = "pay", !.customer = c, !.copy = customers[c], !.amount = amount]
  OBVIOUS
<1>2. /\ requests[h].at = "idle" /\ amount <= customers[c].balance
      /\ Proceed(h, r) /\ Meet(h, c) /\ UNCHANGED checkoutTables /\ torn' = torn
  BY <1>1 DEF AskPayment, AtStep
<1>3. /\ r.at = "pay" /\ r.customer = c /\ r.copy = customers[c] /\ r.amount = amount /\ r.promotion = FALSE
  BY <1>1 DEF NoRequest
<1>4. amount \in Nat /\ Nobody \notin Customer /\ customers[c] \in CustomerRow
  BY CheckoutAssumption DEF CheckoutInv, CheckoutTyped
<1>5. r \in CheckoutRequest
  BY <1>1, <1>4, NoRequestTyped DEF CheckoutRequest, CheckoutStages
<1>6. OnItsWay(r)
  BY <1>2, <1>3 DEF OnItsWay, SoldAt
<1>7. /\ crossed \subseteq crossed' /\ crossed' \subseteq Customer
      /\ \A g \in Handler \ {h} : requests[g].customer = c => c \in crossed'
  BY <1>2, <1>4, MeetCrosses
<1>8. Takes(h, r) /\ Granted(h, r)
  BY <1>3 DEF Takes, Granted, SoldAt
<1>9. Serves(h, r)
  BY <1>2, <1>3, <1>7 DEF Serves
<1>10. torn \subseteq torn' /\ torn' \subseteq Customer
  BY <1>2 DEF CheckoutInv, CheckoutTyped
<1> QED
  BY <1>2, <1>5, <1>6, <1>7, <1>8, <1>9, <1>10, QuietKeeps

-----------------------------------------------------------------------------
(* The sale.                                                               *)

\* What a completed sale writes.
Completes(h, r) ==
  /\ Sells(h) /\ r = requests[h]
  /\ stock' = [p \in Product |->
                 IF p \in Bought(r.basket.lines) THEN Deducted(r.found, r.basket.lines)[p] ELSE stock[p]]
  /\ uses' = uses + (IF r.promotion THEN 1 ELSE 0)
  /\ customers' = IF r.customer = Nobody THEN customers ELSE [customers EXCEPT ![r.customer] = Served(r)]
  /\ Proceed(h, NoRequest) /\ paid' = paid /\ crossed' = crossed /\ torn' = torn

LEMMA SaleStock ==
  ASSUME CheckoutInv, CheckoutTyped', NEW h \in Handler, NEW r \in CheckoutRequest, Completes(h, r)
  PROVE  LocksApart' /\ LockedAsFound' /\ StockSold'
<1>1. requests'[h] = NoRequest /\ \A g \in Handler : g # h => requests'[g] = requests[g]
  BY ProceedAlone DEF Completes, CheckoutInv
<1>2. NoRequest.at = "idle"
  BY DEF NoRequest
<1>3. Locks(h)' = {} /\ \A g \in Handler : g # h => Locks(g)' = Locks(g)
  BY <1>1, <1>2 DEF Locks
<1>4. requests[h].at = "sell" /\ Locks(h) = Bought(r.basket.lines)
  BY DEF Completes, Sells, AtStep, Locks
<1>5. PICK lines \in Seq(Line) : lines = r.basket.lines
  BY <1>4, RowTyped, BasketTyped DEF Completes, AtStep
<1>6. LocksApart'
  BY <1>3 DEF CheckoutInv, LocksApart
<1>7. LockedAsFound'
  <2>1. ASSUME NEW g \in Handler, requests'[g].at \in SoldAt
        PROVE  /\ Enough(requests'[g].basket.lines, requests'[g].found)
               /\ \A p \in Locks(g)' : requests'[g].found[p] = stock'[p]
    <3>1. g # h /\ requests'[g] = requests[g] /\ Locks(g)' = Locks(g)
      BY <1>1, <1>2, <1>3, <2>1 DEF SoldAt
    <3>2. /\ Enough(requests[g].basket.lines, requests[g].found)
          /\ \A p \in Locks(g) : requests[g].found[p] = stock[p]
      BY <2>1, <3>1 DEF CheckoutInv, LockedAsFound
    <3>3. ASSUME NEW p \in Locks(g) PROVE p \in Product /\ p \notin Bought(r.basket.lines)
      <4>1. Locks(g) \cap Locks(h) = {}
        BY <3>1 DEF CheckoutInv, LocksApart
      <4>2. requests[g].basket \in Basket /\ Locks(g) = Bought(requests[g].basket.lines)
        BY <2>1, <3>1 DEF CheckoutInv, RequestsOnTheirWay, OnItsWay, SoldAt, Locks
      <4>3. PICK others \in Seq(Line) : others = requests[g].basket.lines
        BY <4>2, BasketTyped
      <4>4. \A n \in DOMAIN others : others[n] \in Line
        OBVIOUS
      <4>5. \A n \in DOMAIN others : others[n].product \in Product
        BY <4>4 DEF Line
      <4> QED
        BY <1>4, <3>3, <4>1, <4>2, <4>3, <4>5 DEF Bought
    <3>4. \A p \in Locks(g) : stock'[p] = stock[p]
      BY <3>3 DEF Completes
    <3> QED
      BY <3>1, <3>2, <3>4
  <2> QED
    BY <2>1 DEF LockedAsFound, Enough
<1>8. StockSold'
  <2>1. ASSUME NEW p \in Product
        PROVE  /\ stock'[p] >= 0
               /\ Supply[p] - stock'[p] <= Sold(p)'
               /\ ListedTwice(p)' \/ Supply[p] - stock'[p] = Sold(p)'
    <3> DEFINE Twice == \E i, j \in DOMAIN lines :
                          i # j /\ lines[i].product = p /\ lines[j].product = p
    <3>1. stock[p] \in Nat /\ stock'[p] \in Nat /\ Supply[p] \in Nat
      BY CheckoutAssumption DEF CheckoutInv, CheckoutTyped
    <3>2. PICK row \in SaleRow : row = RowFor(r) /\ row.lines = lines /\ saleRows' = Append(saleRows, row)
      BY <1>4, <1>5, RowTyped DEF Completes, Sells, RowFor, AtStep
    <3>3. /\ Sold(p) \in Int /\ Sold(p)' = Sold(p) + Quantity(lines, p)
          /\ ListedTwice(p)' <=> ListedTwice(p) \/ Twice
      BY <3>2, SaleAdds DEF CheckoutInv
    <3>4. Supply[p] - stock[p] <= Sold(p) /\ (ListedTwice(p) \/ Supply[p] - stock[p] = Sold(p))
      BY DEF CheckoutInv, StockSold
    <3>5. Quantity(lines, p) \in Nat /\ (p \notin Bought(lines) => Quantity(lines, p) = 0)
      BY QuantityNatural
    <3>6. /\ stock[p] - Quantity(lines, p) <= stock'[p]
          /\ Twice \/ stock'[p] = stock[p] - Quantity(lines, p)
      <4>1. CASE p \in Bought(lines)
        <5>1. r.found \in [Product -> Nat] /\ Enough(lines, r.found) /\ r.found[p] = stock[p]
          BY <1>4, <1>5, <4>1 DEF CheckoutInv, LockedAsFound, SoldAt, CheckoutRequest, Completes
        <5>2. stock'[p] = Deducted(r.found, lines)[p]
          BY <1>5, <4>1 DEF Completes
        <5> QED
          BY <5>1, <5>2, DeductedTakes
      <4>2. CASE p \notin Bought(lines)
        <5>1. stock'[p] = stock[p]
          BY <1>5, <4>2 DEF Completes
        <5> QED
          BY <3>1, <3>5, <4>2, <5>1
      <4> QED
        BY <4>1, <4>2
    <3> HIDE DEF Twice
    <3> QED
      BY <3>1, <3>3, <3>4, <3>5, <3>6
  <2> QED
    BY <2>1 DEF StockSold
<1> QED
  BY <1>6, <1>7, <1>8

LEMMA SalePromotion ==
  ASSUME CheckoutInv, CheckoutTyped', NEW h \in Handler, NEW r \in CheckoutRequest, Completes(h, r)
  PROVE  PromotionsInFlight' /\ PromotionUses'
<1>1. requests'[h] = NoRequest /\ \A g \in Handler : g # h => requests'[g] = requests[g]
  BY ProceedAlone DEF Completes, CheckoutInv
<1>2. NoRequest.promotion = FALSE
  BY DEF NoRequest
<1>3. PICK S \in SUBSET Handler : S = Promoted
  BY DEF Promoted
<1>4. PICK T \in SUBSET Handler : T = Promoted'
  BY DEF Promoted
<1>5. T = S \ {h} /\ (h \in S <=> r.promotion)
  BY <1>1, <1>2, <1>3, <1>4 DEF Promoted, Completes
<1>6. IsFiniteSet(S) /\ Cardinality(S) \in Nat /\ Cardinality(T) \in Nat /\ Cardinality(Handler) \in Nat
  BY FewPromoted
<1>7. Cardinality(T) = IF r.promotion THEN Cardinality(S) - 1 ELSE Cardinality(S)
  <2>1. CASE h \in S
    BY <1>5, <1>6, <2>1, FS_RemoveElement
  <2>2. CASE h \notin S
    <3>1. T = S
      BY <1>5, <2>2
    <3> QED
      BY <1>5, <2>2, <3>1
  <2> QED
    BY <1>5, <2>1, <2>2
<1>8. uses \in Nat /\ MaxUses \in Nat /\ uses' = uses + (IF r.promotion THEN 1 ELSE 0)
  BY CheckoutAssumption DEF CheckoutInv, CheckoutTyped, Completes
<1>9. uses + Cardinality(S) <= MaxUses + Cardinality(Handler) - 1
  BY <1>3 DEF CheckoutInv, PromotionsInFlight
<1>10. uses' + Cardinality(T) <= MaxUses + Cardinality(Handler) - 1
  BY <1>6, <1>7, <1>8, <1>9
<1>11. PromotionsInFlight'
  BY <1>4, <1>10 DEF PromotionsInFlight
<1>12. PromotionUses'
  <2>1. SumsAreByRow /\ SumsAreByRow'
    BY SumsByRow, SumsByRowNext DEF CheckoutInv
  <2>2. uses = RowSum(saleRows, PromotionOf)
    BY <2>1 DEF SumsAreByRow, CheckoutInv, PromotionsCounted
  <2>3. PICK row \in SaleRow : row = RowFor(r) /\ saleRows' = Append(saleRows, row)
    BY RowTyped DEF Completes, Sells
  <2>4. row.promotion = r.promotion
    BY <2>3 DEF RowFor
  <2>5. RowSum(saleRows', PromotionOf) = RowSum(saleRows, PromotionOf) + (IF row.promotion THEN 1 ELSE 0)
    BY <2>3, SaleAdds DEF CheckoutInv
  <2>6. uses' = RowSum(saleRows', PromotionOf)
    BY <1>8, <2>2, <2>4, <2>5
  <2>7. uses' <= MaxUses + Cardinality(Handler) - 1
    BY <1>6, <1>8, <1>10
  <2>8. PromotionsCounted'
    BY <2>6, <2>7 DEF PromotionsCounted
  <2> QED
    BY <2>1, <2>8 DEF SumsAreByRow
<1> QED
  BY <1>11, <1>12

\* A customer whom nobody else deals with is served from what is there.
LEMMA ServedWell ==
  ASSUME CheckoutInv, CheckoutTyped', NEW h \in Handler, NEW r \in CheckoutRequest, Completes(h, r),
         NEW c \in Customer \ (crossed \cup torn), r.customer = c
  PROVE  /\ customers'[c].balance = OnCredit(c)' - PaidOff(c)'
         /\ customers'[c].balance <= Limit[c]
         /\ Overdiscounted(c)' \/ customers'[c].balance >= 0
         /\ customers'[c].points = PointsDue(c)' /\ customers'[c].points >= 0
<1>1. c # Nobody /\ Limit[c] \in Nat
  BY CheckoutAssumption
<1>2. PICK old \in CustomerRow : old = customers[c] /\ r.copy = old
  BY <1>1 DEF CheckoutInv, CheckoutTyped, CopiesAreCurrent, Completes
<1>3. ~Paying(c)
  BY <1>1 DEF CheckoutInv, ServedAlone, Paying, AtStep, Completes, Sells
<1>4. /\ old.balance = OnCredit(c) - PaidOff(c) /\ old.balance <= Limit[c]
      /\ Overdiscounted(c) \/ old.balance >= 0
      /\ old.points = PointsDue(c) /\ old.points >= 0
  BY <1>2, <1>3 DEF CheckoutInv, CustomerKept
<1>5. old.balance \in Int /\ old.points \in Int
  BY DEF CustomerRow
<1>6. r.basket \in Basket /\ RowFor(r) \in SaleRow
  BY RowTyped DEF Completes, Sells
<1>7. PICK charge \in Int : charge = Charge(r)
  BY <1>6, ChargeTyped
<1>8. PICK redeemed \in Nat : redeemed = Redeemed(r)
  BY <1>6, ChargeTyped
<1>9. PICK earned \in Nat : earned = Earned(charge)
  BY EarnedNatural
<1>10. PICK credit \in BOOLEAN : credit = r.basket.credit
  BY <1>6, BasketTyped
<1>11. PICK row \in SaleRow : row = RowFor(r) /\ saleRows' = Append(saleRows, row)
  BY <1>6 DEF Completes, Sells
<1>12. /\ row.customer = c /\ row.credit = credit /\ row.total = charge /\ row.redeemed = redeemed
  BY <1>7, <1>8, <1>10, <1>11 DEF RowFor
<1>13. /\ OnCredit(c) \in Int /\ OnCredit(c)' = OnCredit(c) + (IF credit THEN charge ELSE 0)
       /\ PointsDue(c) \in Int /\ PointsDue(c)' = PointsDue(c) + (earned - redeemed)
       /\ Overdiscounted(c)' <=> Overdiscounted(c) \/ charge < 0
  BY SMTT(30), <1>9, <1>11, <1>12, SaleAdds DEF CheckoutInv
<1>14. PICK owed \in Int : owed = PaidOff(c) /\ PaidOff(c)' = owed
  <2>1. SumsAreByRow /\ paid \in Seq(PaidRow)
    BY SumsByRow DEF CheckoutInv, CheckoutTyped
  <2>2. PaidOff(c) \in Int
    BY <2>1, TermsTyped, SumOfRows DEF SumsAreByRow
  <2>3. PaidOff(c)' = PaidOff(c)
    BY PaymentsAlone DEF Completes, CheckoutInv
  <2> QED
    BY <2>2, <2>3
<1>15. customers'[c].balance = old.balance + (IF credit THEN charge ELSE 0)
  <2>1. customers'[c] = Served(r)
    BY <1>1 DEF Completes, CheckoutInv, CheckoutTyped
  <2> QED
    BY <1>2, <1>7, <1>10, <2>1 DEF Served
<1>16. customers'[c].points = old.points - redeemed + earned
  <2>1. customers'[c] = Served(r)
    BY <1>1 DEF Completes, CheckoutInv, CheckoutTyped
  <2> QED
    BY <1>2, <1>7, <1>8, <1>9, <2>1 DEF Served
<1>17. credit => charge <= (IF old.balance < Limit[c] THEN Limit[c] - old.balance ELSE 0)
  BY <1>2, <1>7, <1>10 DEF Completes, Sells, CreditSuffices
<1>18. redeemed > 0 => redeemed <= old.points
  BY <1>1, <1>2, <1>8 DEF Completes, Sells, PointsSuffice
<1>19. customers'[c].balance = OnCredit(c)' - PaidOff(c)'
  BY <1>4, <1>13, <1>14, <1>15
<1>20. customers'[c].balance <= Limit[c]
  BY <1>1, <1>4, <1>5, <1>15, <1>17
<1>21. Overdiscounted(c)' \/ customers'[c].balance >= 0
  BY <1>4, <1>5, <1>13, <1>15
<1>22. customers'[c].points = PointsDue(c)' /\ customers'[c].points >= 0
  BY <1>4, <1>5, <1>13, <1>16, <1>18
<1> QED
  BY <1>19, <1>20, <1>21, <1>22

LEMMA SaleCustomers ==
  ASSUME CheckoutInv, CheckoutTyped', NEW h \in Handler, NEW r \in CheckoutRequest, Completes(h, r)
  PROVE  ServedAlone' /\ CopiesAreCurrent' /\ PaymentsHalfway' /\ CustomerKept'
<1>1. requests'[h] = NoRequest /\ \A g \in Handler : g # h => requests'[g] = requests[g]
  BY ProceedAlone DEF Completes, CheckoutInv
<1>2. NoRequest.customer = Nobody /\ NoRequest.at = "idle" /\ Nobody \notin Customer
  BY CheckoutAssumption DEF NoRequest
<1>3. /\ crossed' = crossed /\ torn' = torn /\ requests[h] = r /\ r.at = "sell"
      /\ r.customer \in Customer \cup {Nobody}
  BY DEF Completes, Sells, AtStep, CheckoutRequest
<1>4. ASSUME NEW c \in Customer, c # r.customer
      PROVE  /\ customers'[c] = customers[c]
             /\ OnCredit(c)' = OnCredit(c) /\ PaidOff(c)' = PaidOff(c) /\ PointsDue(c)' = PointsDue(c)
             /\ Overdiscounted(c) => Overdiscounted(c)'
  <2>1. PICK row \in SaleRow : row = RowFor(r) /\ saleRows' = Append(saleRows, row)
    BY RowTyped DEF Completes, Sells
  <2>2. row.customer # c
    BY <1>4, <2>1 DEF RowFor
  <2>3. /\ OnCredit(c)' = OnCredit(c) /\ PointsDue(c)' = PointsDue(c)
        /\ Overdiscounted(c) => Overdiscounted(c)'
    BY <2>1, <2>2, SaleAdds DEF CheckoutInv
  <2>4. PaidOff(c)' = PaidOff(c)
    BY PaymentsAlone DEF Completes, CheckoutInv
  <2>5. customers'[c] = customers[c]
    BY <1>4 DEF Completes, CheckoutInv, CheckoutTyped
  <2> QED
    BY <2>3, <2>4, <2>5
<1>5. ASSUME NEW g \in Handler, g # h, requests[g].customer \notin crossed \cup {Nobody}
      PROVE  requests[g].customer # r.customer /\ requests[g].customer \in Customer
  <2>1. requests[g] \in CheckoutRequest
    BY DEF CheckoutInv, CheckoutTyped
  <2>2. requests[g].customer \in Customer
    BY <1>5, <2>1 DEF CheckoutRequest
  <2>3. requests[g].customer # r.customer
    BY <1>3, <1>5 DEF CheckoutInv, ServedAlone
  <2> QED
    BY <2>2, <2>3
<1>6. ServedAlone'
  BY <1>1, <1>2, <1>3 DEF CheckoutInv, ServedAlone
<1>7. CopiesAreCurrent'
  <2>1. ASSUME NEW g \in Handler, requests'[g].customer \notin crossed' \cup {Nobody}
        PROVE  requests'[g].copy = customers'[requests'[g].customer]
    <3>1. g # h /\ requests'[g] = requests[g]
      BY <1>1, <1>2, <2>1
    <3>2. requests[g].customer \notin crossed \cup {Nobody}
      BY <1>3, <2>1, <3>1
    <3>3. customers'[requests[g].customer] = customers[requests[g].customer]
      BY <1>4, <1>5, <3>1, <3>2
    <3> QED
      BY <3>1, <3>2, <3>3 DEF CheckoutInv, CopiesAreCurrent
  <2> QED
    BY <2>1 DEF CopiesAreCurrent
<1>8. PaymentsHalfway'
  <2>1. ASSUME NEW g \in Handler, NEW c \in Customer \ (crossed' \cup torn'),
               requests'[g].at = "balance", requests'[g].customer = c
        PROVE  customers'[c].balance = OnCredit(c)' - PaidOff(c)' + requests'[g].amount
    <3>1. g # h /\ requests'[g] = requests[g]
      BY <1>1, <1>2, <2>1
    <3>2. c # r.customer
      BY <1>2, <1>3, <1>5, <2>1, <3>1
    <3>3. customers[c].balance = OnCredit(c) - PaidOff(c) + requests[g].amount
      BY <1>3, <2>1, <3>1 DEF CheckoutInv, PaymentsHalfway, AtStep
    <3> QED
      BY <1>4, <3>1, <3>2, <3>3
  <2> QED
    BY <2>1 DEF PaymentsHalfway, AtStep
<1>9. CustomerKept'
  <2>1. ASSUME NEW c \in Customer \ (crossed' \cup torn')
        PROVE  /\ Paying(c)' \/ customers'[c].balance = OnCredit(c)' - PaidOff(c)'
               /\ customers'[c].balance <= Limit[c]
               /\ Overdiscounted(c)' \/ customers'[c].balance >= 0
               /\ customers'[c].points = PointsDue(c)' /\ customers'[c].points >= 0
    <3>1. c \in Customer \ (crossed \cup torn)
      BY <1>3, <2>1
    <3>2. CASE r.customer = c
      BY <3>1, <3>2, ServedWell
    <3>3. CASE r.customer # c
      <4>1. Paying(c) => Paying(c)'
        <5>1. ASSUME NEW g \in Handler, requests[g].at = "balance", requests[g].customer = c
              PROVE  Paying(c)'
          <6>1. g # h
            BY <1>3, <5>1
          <6> QED
            BY <1>1, <5>1, <6>1 DEF Paying, AtStep
        <5> QED
          BY <5>1 DEF Paying, AtStep
      <4>2. /\ Paying(c) \/ customers[c].balance = OnCredit(c) - PaidOff(c)
            /\ customers[c].balance <= Limit[c]
            /\ Overdiscounted(c) \/ customers[c].balance >= 0
            /\ customers[c].points = PointsDue(c) /\ customers[c].points >= 0
        BY <3>1 DEF CheckoutInv, CustomerKept
      <4>3. /\ customers'[c] = customers[c]
            /\ OnCredit(c)' = OnCredit(c) /\ PaidOff(c)' = PaidOff(c) /\ PointsDue(c)' = PointsDue(c)
            /\ Overdiscounted(c) => Overdiscounted(c)'
        BY <1>4, <3>1, <3>3
      <4> QED
        BY <4>1, <4>2, <4>3
    <3> QED
      BY <3>2, <3>3
  <2> QED
    BY <2>1 DEF CustomerKept
<1> QED
  BY <1>6, <1>7, <1>8, <1>9

LEMMA CompleteSaleKeeps ==
  ASSUME CheckoutInv, NEW h \in Handler, CompleteSale(h)
  PROVE  CheckoutInv'
<1>1. requests[h].at = "sell"
  BY DEF CompleteSale, AtStep
<1>2. CASE RefuseSale(h)
  BY <1>1, <1>2, RefuseKeeps
<1>3. CASE CreditSuffices(requests[h]) /\ PointsSuffice(requests[h])
  <2>1. PICK r \in CheckoutRequest : r = requests[h]
    BY DEF CheckoutInv, CheckoutTyped
  <2>2. Sells(h)
    BY <1>1, <1>3 DEF CompleteSale, Sells, RowFor, AtStep
  <2>3. Completes(h, r)
    BY <1>3, <2>1, <2>2 DEF CompleteSale, Completes
  <2>4. CheckoutTyped' /\ RequestsOnTheirWay'
    BY <2>2, SaleTyped
  <2> QED
    BY <2>3, <2>4, SaleStock, SalePromotion, SaleCustomers DEF CheckoutInv
<1> QED
  BY <1>2, <1>3 DEF CompleteSale

-----------------------------------------------------------------------------
(* The two writes of a payment.                                            *)

LEMMA InsertPaymentKeeps ==
  ASSUME CheckoutInv, NEW h \in Handler, InsertPayment(h)
  PROVE  CheckoutInv'
<1>1. PICK q \in CheckoutRequest : q = requests[h]
  BY DEF CheckoutInv, CheckoutTyped
<1>2. PICK r : r = [q EXCEPT !.at = "balance"]
  OBVIOUS
<1>3. /\ r \in CheckoutRequest /\ r.at = "balance" /\ r.customer = q.customer /\ r.copy = q.copy
      /\ r.amount = q.amount /\ r.promotion = q.promotion
  BY <1>2 DEF CheckoutRequest, CheckoutStages
<1>4. q.at = "pay" /\ OnItsWay(q)
  BY <1>1 DEF InsertPayment, AtStep, CheckoutInv, RequestsOnTheirWay
<1>5. q.customer \in Customer /\ q.amount \in Nat /\ OnItsWay(r) /\ ~q.promotion
  BY <1>3, <1>4 DEF OnItsWay, SoldAt, CheckoutRequest
<1>6. /\ Proceed(h, r) /\ stock' = stock /\ uses' = uses /\ customers' = customers
      /\ saleRows' = saleRows /\ crossed' = crossed /\ torn' = torn
  BY <1>1, <1>2 DEF InsertPayment
<1>7. PICK row \in PaidRow : /\ row = [customer |-> q.customer, amount |-> q.amount]
                             /\ paid' = Append(paid, row)
  BY <1>1, <1>5 DEF InsertPayment, PaidRow
<1>8. CheckoutTyped' /\ RequestsOnTheirWay'
  <2>1. requests' = [requests EXCEPT ![h] = r]
    BY <1>6 DEF Proceed
  <2>2. requests \in [Handler -> CheckoutRequest] /\ \A g \in Handler : OnItsWay(requests[g])
    BY DEF CheckoutInv, CheckoutTyped, RequestsOnTheirWay
  <2>3. requests' \in [Handler -> CheckoutRequest]
    BY <1>3, <2>1, <2>2
  <2>4. \A g \in Handler : OnItsWay(requests'[g])
    BY <1>5, <2>1, <2>2
  <2>5. paid' \in Seq(PaidRow)
    BY <1>7 DEF CheckoutInv, CheckoutTyped
  <2>6. RequestsOnTheirWay'
    BY <2>4 DEF RequestsOnTheirWay, OnItsWay
  <2> QED
    BY <1>6, <2>3, <2>5, <2>6 DEF CheckoutInv, CheckoutTyped
<1>9. requests'[h] = r /\ \A g \in Handler : g # h => requests'[g] = requests[g]
  BY <1>6, ProceedAlone DEF CheckoutInv
<1>10. LocksApart' /\ LockedAsFound' /\ StockSold'
  <2>1. Takes(h, r)
    BY <1>3 DEF Takes, SoldAt
  <2> QED
    BY <1>6, <1>8, <2>1, QuietStock
<1>11. PromotionsInFlight' /\ PromotionUses'
  <2>1. Granted(h, r)
    BY <1>3, <1>5 DEF Granted
  <2> QED
    BY <1>6, <1>8, <2>1, QuietPromotion
<1>12. ASSUME NEW c \in Customer
       PROVE  /\ OnCredit(c)' = OnCredit(c) /\ PointsDue(c)' = PointsDue(c)
              /\ Overdiscounted(c)' <=> Overdiscounted(c)
              /\ OnCredit(c) \in Int /\ PaidOff(c) \in Int
              /\ PaidOff(c)' = PaidOff(c) + (IF q.customer = c THEN q.amount ELSE 0)
  <2>1. PaidOff(c) \in Int /\ PaidOff(c)' = PaidOff(c) + (IF row.customer = c THEN row.amount ELSE 0)
    BY <1>7, <1>8, PaymentAdds DEF CheckoutInv
  <2>2. row.customer = q.customer /\ row.amount = q.amount
    BY <1>7
  <2>3. OnCredit(c) \in Int
    <3>1. SumsAreByRow /\ saleRows \in Seq(SaleRow)
      BY SumsByRow DEF CheckoutInv, CheckoutTyped
    <3> QED
      BY <3>1, TermsTyped, SumOfRows DEF SumsAreByRow
  <2>4. /\ OnCredit(c)' = OnCredit(c) /\ PointsDue(c)' = PointsDue(c)
        /\ Overdiscounted(c)' <=> Overdiscounted(c)
    BY <1>6, <1>8, SalesAlone DEF CheckoutInv
  <2> QED
    BY <2>1, <2>2, <2>3, <2>4
<1>13. ServedAlone'
  BY <1>1, <1>3, <1>6, <1>9 DEF CheckoutInv, ServedAlone
<1>14. CopiesAreCurrent'
  BY <1>1, <1>3, <1>6, <1>9 DEF CheckoutInv, CopiesAreCurrent
<1>15. ASSUME NEW g \in Handler, g # h, q.customer \notin crossed
       PROVE  requests[g].customer # q.customer
  <2>1. q.customer # Nobody
    BY <1>5, CheckoutAssumption
  <2> QED
    BY <1>1, <1>15, <2>1 DEF CheckoutInv, ServedAlone
<1>16. PaymentsHalfway'
  <2>1. ASSUME NEW g \in Handler, NEW c \in Customer \ (crossed' \cup torn'),
               requests'[g].at = "balance", requests'[g].customer = c
        PROVE  customers'[c].balance = OnCredit(c)' - PaidOff(c)' + requests'[g].amount
    <3>1. c \in Customer \ (crossed \cup torn)
      BY <1>6, <2>1
    <3>2. CASE g = h
      <4>1. q.customer = c
        BY <1>3, <1>9, <2>1, <3>2
      <4>2. ~Paying(c)
        BY <1>1, <1>4, <1>15, <3>1, <4>1 DEF Paying, AtStep
      <4>3. customers[c].balance = OnCredit(c) - PaidOff(c)
        BY <3>1, <4>2 DEF CheckoutInv, CustomerKept
      <4>4. requests'[g].amount = q.amount
        BY <1>3, <1>9, <3>2
      <4> QED
        BY <1>5, <1>6, <1>12, <4>1, <4>3, <4>4
    <3>3. CASE g # h
      <4>1. requests'[g] = requests[g]
        BY <1>9, <3>3
      <4>2. c # q.customer
        BY <1>15, <2>1, <3>1, <3>3, <4>1
      <4>3. customers[c].balance = OnCredit(c) - PaidOff(c) + requests[g].amount
        BY <2>1, <3>1, <4>1 DEF CheckoutInv, PaymentsHalfway, AtStep
      <4> QED
        BY <1>6, <1>12, <4>1, <4>2, <4>3
    <3> QED
      BY <3>2, <3>3
  <2> QED
    BY <2>1 DEF PaymentsHalfway, AtStep
<1>17. CustomerKept'
  <2>1. ASSUME NEW c \in Customer \ (crossed' \cup torn')
        PROVE  /\ Paying(c)' \/ customers'[c].balance = OnCredit(c)' - PaidOff(c)'
               /\ customers'[c].balance <= Limit[c]
               /\ Overdiscounted(c)' \/ customers'[c].balance >= 0
               /\ customers'[c].points = PointsDue(c)' /\ customers'[c].points >= 0
    <3>1. c \in Customer \ (crossed \cup torn)
      BY <1>6, <2>1
    <3>2. /\ Paying(c) \/ customers[c].balance = OnCredit(c) - PaidOff(c)
          /\ customers[c].balance <= Limit[c]
          /\ Overdiscounted(c) \/ customers[c].balance >= 0
          /\ customers[c].points = PointsDue(c) /\ customers[c].points >= 0
      BY <3>1 DEF CheckoutInv, CustomerKept
    <3>3. CASE q.customer = c
      <4>1. Paying(c)'
        BY <1>3, <1>9, <3>3 DEF Paying, AtStep
      <4> QED
        BY <1>6, <1>12, <3>1, <3>2, <4>1
    <3>4. CASE q.customer # c
      <4>1. Paying(c) => Paying(c)'
        BY <1>1, <1>4, <1>9 DEF Paying, AtStep
      <4>2. PaidOff(c)' = PaidOff(c)
        BY <1>12, <3>1, <3>4
      <4> QED
        BY <1>6, <1>12, <3>1, <3>2, <4>1, <4>2
    <3> QED
      BY <3>3, <3>4
  <2> QED
    BY <2>1 DEF CustomerKept
<1> QED
  BY <1>8, <1>10, <1>11, <1>13, <1>14, <1>16, <1>17 DEF CheckoutInv

LEMMA SaveBalanceKeeps ==
  ASSUME CheckoutInv, NEW h \in Handler, SaveBalance(h)
  PROVE  CheckoutInv'
<1>1. PICK r \in CheckoutRequest : r = requests[h]
  BY DEF CheckoutInv, CheckoutTyped
<1>2. r.at = "balance" /\ r.customer \in Customer /\ r.amount <= r.copy.balance
  BY <1>1 DEF SaveBalance, AtStep, CheckoutInv, RequestsOnTheirWay, OnItsWay
<1>3. PICK old \in CustomerRow : old = customers[r.customer]
  BY <1>2 DEF CheckoutInv, CheckoutTyped
<1>4. PICK left \in Int : left = r.copy.balance - r.amount /\ left >= 0
  BY <1>2 DEF CheckoutRequest, CustomerRow
<1>5. customers' = [customers EXCEPT ![r.customer] = [balance |-> left, points |-> old.points]]
  <2>1. (IF r.copy.balance > r.amount THEN r.copy.balance - r.amount ELSE 0) = left
    BY <1>4 DEF CheckoutRequest, CustomerRow
  <2>2. [old EXCEPT !.balance = left] = [balance |-> left, points |-> old.points]
    BY DEF CustomerRow
  <2> QED
    BY <1>1, <1>2, <1>3, <2>1, <2>2 DEF SaveBalance, CheckoutInv, CheckoutTyped
<1>6. /\ Proceed(h, NoRequest) /\ stock' = stock /\ uses' = uses
      /\ saleRows' = saleRows /\ paid' = paid /\ crossed' = crossed /\ torn' = torn
  BY DEF SaveBalance
<1>7. CheckoutTyped' /\ RequestsOnTheirWay'
  <2>1. requests' = [requests EXCEPT ![h] = NoRequest]
    BY <1>6 DEF Proceed
  <2>2. requests \in [Handler -> CheckoutRequest] /\ \A g \in Handler : OnItsWay(requests[g])
    BY DEF CheckoutInv, CheckoutTyped, RequestsOnTheirWay
  <2>3. requests' \in [Handler -> CheckoutRequest]
    BY <2>1, <2>2, NoRequestTyped
  <2>4. \A g \in Handler : OnItsWay(requests'[g])
    BY <2>1, <2>2, NoRequestTyped
  <2>5. RequestsOnTheirWay'
    BY <2>4 DEF RequestsOnTheirWay, OnItsWay
  <2>6. PICK new \in CustomerRow : new = [balance |-> left, points |-> old.points]
    BY DEF CustomerRow
  <2>7. customers' \in [Customer -> CustomerRow]
    BY <1>5, <2>6 DEF CheckoutInv, CheckoutTyped
  <2> QED
    BY <1>6, <2>3, <2>5, <2>7 DEF CheckoutInv, CheckoutTyped
<1>8. requests'[h] = NoRequest /\ \A g \in Handler : g # h => requests'[g] = requests[g]
  BY <1>6, ProceedAlone DEF CheckoutInv
<1>9. NoRequest.customer = Nobody /\ NoRequest.at = "idle" /\ ~NoRequest.promotion /\ Nobody \notin Customer
  BY CheckoutAssumption DEF NoRequest
<1>10. LocksApart' /\ LockedAsFound' /\ StockSold'
  <2>1. Takes(h, NoRequest)
    BY <1>9 DEF Takes, SoldAt
  <2> QED
    BY <1>6, <1>7, <2>1, QuietStock
<1>11. PromotionsInFlight' /\ PromotionUses'
  <2>1. Granted(h, NoRequest)
    BY <1>9 DEF Granted
  <2> QED
    BY <1>6, <1>7, <2>1, QuietPromotion
<1>12. /\ \A c \in Customer : c # r.customer => customers'[c] = customers[c]
       /\ customers'[r.customer].balance = left /\ customers'[r.customer].points = old.points
  BY <1>2, <1>5 DEF CheckoutInv, CheckoutTyped
<1>13. ASSUME NEW g \in Handler, g # h, requests[g].customer \notin crossed \cup {Nobody}
       PROVE  requests[g].customer # r.customer /\ requests[g].customer \in Customer
  <2>1. requests[g] \in CheckoutRequest
    BY DEF CheckoutInv, CheckoutTyped
  <2>2. requests[g].customer \in Customer
    BY <1>13, <2>1 DEF CheckoutRequest
  <2>3. requests[g].customer # r.customer
    BY <1>1, <1>13 DEF CheckoutInv, ServedAlone
  <2> QED
    BY <2>2, <2>3
<1>14. ServedAlone'
  BY <1>6, <1>8, <1>9 DEF CheckoutInv, ServedAlone
<1>15. CopiesAreCurrent'
  <2>1. ASSUME NEW g \in Handler, requests'[g].customer \notin crossed' \cup {Nobody}
        PROVE  requests'[g].copy = customers'[requests'[g].customer]
    <3>1. g # h /\ requests'[g] = requests[g]
      BY <1>8, <1>9, <2>1
    <3>2. requests[g].customer \notin crossed \cup {Nobody}
      BY <1>6, <2>1, <3>1
    <3>3. customers'[requests[g].customer] = customers[requests[g].customer]
      BY <1>12, <1>13, <3>1, <3>2
    <3> QED
      BY <3>1, <3>2, <3>3 DEF CheckoutInv, CopiesAreCurrent
  <2> QED
    BY <2>1 DEF CopiesAreCurrent
<1>16. ASSUME NEW c \in Customer
       PROVE  /\ OnCredit(c)' = OnCredit(c) /\ PointsDue(c)' = PointsDue(c)
              /\ Overdiscounted(c)' <=> Overdiscounted(c)
              /\ PaidOff(c)' = PaidOff(c) /\ OnCredit(c) \in Int /\ PaidOff(c) \in Int
  <2>1. SumsAreByRow /\ saleRows \in Seq(SaleRow) /\ paid \in Seq(PaidRow)
    BY SumsByRow DEF CheckoutInv, CheckoutTyped
  <2>2. OnCredit(c) \in Int
    BY <2>1, TermsTyped, SumOfRows DEF SumsAreByRow
  <2>3. PaidOff(c) \in Int
    BY <2>1, TermsTyped, SumOfRows DEF SumsAreByRow
  <2>4. /\ OnCredit(c)' = OnCredit(c) /\ PointsDue(c)' = PointsDue(c)
        /\ Overdiscounted(c)' <=> Overdiscounted(c)
    BY <1>6, <1>7, SalesAlone DEF CheckoutInv
  <2>5. PaidOff(c)' = PaidOff(c)
    BY <1>6, <1>7, PaymentsAlone DEF CheckoutInv
  <2> QED
    BY <2>2, <2>3, <2>4, <2>5
<1>17. PaymentsHalfway'
  <2>1. ASSUME NEW g \in Handler, NEW c \in Customer \ (crossed' \cup torn'),
               requests'[g].at = "balance", requests'[g].customer = c
        PROVE  customers'[c].balance = OnCredit(c)' - PaidOff(c)' + requests'[g].amount
    <3>1. g # h /\ requests'[g] = requests[g] /\ c \in Customer \ (crossed \cup torn)
      BY <1>6, <1>8, <1>9, <2>1
    <3>2. c # r.customer
      BY <1>9, <1>13, <2>1, <3>1
    <3>3. customers[c].balance = OnCredit(c) - PaidOff(c) + requests[g].amount
      BY <2>1, <3>1 DEF CheckoutInv, PaymentsHalfway, AtStep
    <3> QED
      BY <1>12, <1>16, <3>1, <3>2, <3>3
  <2> QED
    BY <2>1 DEF PaymentsHalfway, AtStep
<1>18. CustomerKept'
  <2>1. ASSUME NEW c \in Customer \ (crossed' \cup torn')
        PROVE  /\ Paying(c)' \/ customers'[c].balance = OnCredit(c)' - PaidOff(c)'
               /\ customers'[c].balance <= Limit[c]
               /\ Overdiscounted(c)' \/ customers'[c].balance >= 0
               /\ customers'[c].points = PointsDue(c)' /\ customers'[c].points >= 0
    <3>1. c \in Customer \ (crossed \cup torn)
      BY <1>6, <2>1
    <3>2. /\ Paying(c) \/ customers[c].balance = OnCredit(c) - PaidOff(c)
          /\ customers[c].balance <= Limit[c]
          /\ Overdiscounted(c) \/ customers[c].balance >= 0
          /\ customers[c].points = PointsDue(c) /\ customers[c].points >= 0
      BY <3>1 DEF CheckoutInv, CustomerKept
    <3>3. CASE r.customer = c
      <4>1. old.balance = OnCredit(c) - PaidOff(c) + r.amount
        BY <1>1, <1>2, <1>3, <3>1, <3>3 DEF CheckoutInv, PaymentsHalfway, AtStep
      <4>2. r.copy = old
        BY <1>1, <1>3, <1>9, <3>1, <3>3 DEF CheckoutInv, CopiesAreCurrent
      <4>3. r.amount \in Nat /\ old.balance \in Int /\ Limit[c] \in Nat
        BY <3>1, CheckoutAssumption DEF CheckoutRequest, CustomerRow
      <4>4. customers'[c].balance = OnCredit(c)' - PaidOff(c)'
        BY <1>4, <1>12, <1>16, <3>1, <3>3, <4>1, <4>2, <4>3
      <4>5. customers'[c].balance <= Limit[c]
        BY <1>3, <1>4, <1>12, <3>2, <3>3, <4>2, <4>3
      <4>6. customers'[c].balance >= 0
        BY <1>4, <1>12, <3>3
      <4>7. customers'[c].points = PointsDue(c)' /\ customers'[c].points >= 0
        BY <1>3, <1>12, <1>16, <3>1, <3>2, <3>3
      <4> QED
        BY <4>4, <4>5, <4>6, <4>7
    <3>4. CASE r.customer # c
      <4>1. Paying(c) => Paying(c)'
        <5>1. ASSUME NEW g \in Handler, requests[g].at = "balance", requests[g].customer = c
              PROVE  Paying(c)'
          <6>1. g # h
            BY <1>1, <3>4, <5>1
          <6> QED
            BY <1>8, <5>1, <6>1 DEF Paying, AtStep
        <5> QED
          BY <5>1 DEF Paying, AtStep
      <4> QED
        BY <1>12, <1>16, <3>1, <3>2, <3>4, <4>1
    <3> QED
      BY <3>3, <3>4
  <2> QED
    BY <2>1 DEF CustomerKept
<1> QED
  BY <1>7, <1>10, <1>11, <1>14, <1>15, <1>17, <1>18 DEF CheckoutInv

-----------------------------------------------------------------------------
(* The theorems.                                                           *)

LEMMA CheckoutStarts == CheckoutInit => CheckoutInv
<1> SUFFICES ASSUME CheckoutInit PROVE CheckoutInv
  OBVIOUS
<1>1. \A h \in Handler : requests[h] = NoRequest
  BY DEF CheckoutInit
<1>2. /\ NoRequest.at = "idle" /\ NoRequest.customer = Nobody /\ ~NoRequest.promotion
      /\ Nobody \notin Customer /\ NoCustomer.balance = 0 /\ NoCustomer.points = 0
  BY CheckoutAssumption DEF NoRequest, NoCustomer
<1>3. stock = Supply /\ uses = 0 /\ saleRows = <<>> /\ paid = <<>>
  BY DEF CheckoutInit
<1>4. CheckoutTyped
  <2>1. NoCustomer \in CustomerRow
    BY DEF NoCustomer, CustomerRow
  <2>2. Supply \in [Product -> Nat]
    BY CheckoutAssumption
  <2> QED
    BY <2>1, <2>2, NoRequestTyped DEF CheckoutInit, CheckoutTyped
<1>5. RequestsOnTheirWay
  BY <1>1, NoRequestTyped DEF RequestsOnTheirWay
<1>6. LocksApart /\ LockedAsFound
  BY <1>1, <1>2 DEF LocksApart, LockedAsFound, Locks, SoldAt
<1>7. SumsAreByRow
  BY <1>4, SumsByRow
<1>8. /\ \A c : OnCredit(c) = 0 /\ PointsDue(c) = 0 /\ PaidOff(c) = 0
      /\ \A p : Sold(p) = 0
      /\ RowSum(saleRows, PromotionOf) = 0
  BY <1>3, <1>7, EmptyRows DEF SumsAreByRow
<1>9. StockSold
  <2>1. \A p \in Product : Supply[p] \in Nat
    BY CheckoutAssumption
  <2> QED
    BY <1>3, <1>8, <2>1 DEF StockSold
<1>10. MaxUses \in Nat \ {0} /\ Cardinality(Handler) \in Nat
  <2>1. Handler \in SUBSET Handler
    OBVIOUS
  <2> QED
    BY <2>1, CheckoutAssumption, FewPromoted
<1>11. PromotionsInFlight
  <2>1. Promoted = {}
    BY <1>1, <1>2 DEF Promoted
  <2>2. Cardinality(Promoted) = 0
    BY <2>1, FS_EmptySet
  <2> QED
    BY <1>3, <1>10, <2>2 DEF PromotionsInFlight
<1>12. PromotionUses
  <2>1. PromotionsCounted
    BY <1>3, <1>8, <1>10 DEF PromotionsCounted
  <2> QED
    BY <1>7, <2>1 DEF SumsAreByRow
<1>13. ServedAlone /\ CopiesAreCurrent /\ PaymentsHalfway
  BY <1>1, <1>2 DEF ServedAlone, CopiesAreCurrent, PaymentsHalfway, AtStep
<1>14. CustomerKept
  <2>1. ASSUME NEW c \in Customer
        PROVE  /\ customers[c].balance = 0 /\ customers[c].points = 0 /\ Limit[c] \in Nat
    BY <1>2, CheckoutAssumption DEF CheckoutInit
  <2> QED
    BY <1>8, <2>1 DEF CustomerKept
<1> QED
  BY <1>4, <1>5, <1>6, <1>9, <1>11, <1>12, <1>13, <1>14 DEF CheckoutInv

LEMMA CheckoutStutters == CheckoutInv /\ UNCHANGED checkoutVars => CheckoutInv'
<1> SUFFICES ASSUME CheckoutInv, UNCHANGED checkoutVars PROVE CheckoutInv'
  OBVIOUS
<1>1. /\ stock' = stock /\ uses' = uses /\ customers' = customers /\ saleRows' = saleRows
      /\ paid' = paid /\ requests' = requests /\ crossed' = crossed /\ torn' = torn
  BY DEF checkoutVars
<1>2. CheckoutTyped' /\ RequestsOnTheirWay'
  BY <1>1 DEF CheckoutInv, CheckoutTyped, RequestsOnTheirWay, OnItsWay
<1>3. LocksApart' /\ LockedAsFound'
  BY <1>1 DEF CheckoutInv, LocksApart, LockedAsFound, Locks, Enough
<1>4. /\ \A c : OnCredit(c)' = OnCredit(c) /\ PointsDue(c)' = PointsDue(c) /\ PaidOff(c)' = PaidOff(c)
      /\ \A c : Overdiscounted(c)' <=> Overdiscounted(c)
      /\ \A p : Sold(p)' = Sold(p) /\ (ListedTwice(p)' <=> ListedTwice(p))
      /\ PromotionUses'
  BY <1>1, <1>2, SalesAlone, PaymentsAlone DEF CheckoutInv
<1>5. StockSold'
  BY <1>1, <1>4 DEF CheckoutInv, StockSold
<1>6. PromotionsInFlight'
  <2>1. Promoted' = Promoted
    BY <1>1 DEF Promoted
  <2> QED
    BY <1>1, <2>1 DEF CheckoutInv, PromotionsInFlight
<1>7. ServedAlone' /\ CopiesAreCurrent'
  BY <1>1 DEF CheckoutInv, ServedAlone, CopiesAreCurrent
<1>8. PaymentsHalfway'
  BY <1>1, <1>4 DEF CheckoutInv, PaymentsHalfway, AtStep
<1>9. CustomerKept'
  <2>1. \A c : Paying(c)' <=> Paying(c)
    BY <1>1 DEF Paying, AtStep
  <2> QED
    BY <1>1, <1>4, <2>1 DEF CheckoutInv, CustomerKept
<1> QED
  BY <1>2, <1>3, <1>4, <1>5, <1>6, <1>7, <1>8, <1>9 DEF CheckoutInv

\* CheckoutInv holds throughout: requests hold the locks they need, sell what
\* they found, and only requests that cross at a customer work on old copies
\* (complete_sale, pos/views.py 2660, and CustomerPayment.save, pos/models.py 5111).
THEOREM CheckoutInductive == CheckoutSpec => []CheckoutInv
<1>1. CheckoutInit => CheckoutInv
  BY CheckoutStarts
<1>2. CheckoutInv /\ [CheckoutNext]_checkoutVars => CheckoutInv'
  <2> SUFFICES ASSUME CheckoutInv, [CheckoutNext]_checkoutVars PROVE CheckoutInv'
    OBVIOUS
  <2>1. CASE UNCHANGED checkoutVars
    BY <2>1, CheckoutStutters
  <2>2. ASSUME NEW h \in Handler, NEW b \in Basket, AskCustomer(h, b) PROVE CheckoutInv'
    BY <2>2, AskCustomerKeeps
  <2>3. ASSUME NEW h \in Handler, PriceBasket(h) PROVE CheckoutInv'
    BY <2>3, PriceBasketKeeps
  <2>4. ASSUME NEW h \in Handler, LockProducts(h) PROVE CheckoutInv'
    BY <2>4, LockProductsKeeps
  <2>5. ASSUME NEW h \in Handler, Number(h) PROVE CheckoutInv'
    BY <2>5, NumberKeeps
  <2>6. ASSUME NEW h \in Handler, CompleteSale(h) PROVE CheckoutInv'
    BY <2>6, CompleteSaleKeeps
  <2>7. ASSUME NEW h \in Handler, NEW c \in Customer, NEW amount \in Payments, AskPayment(h, c, amount)
        PROVE  CheckoutInv'
    BY <2>7, AskPaymentKeeps
  <2>8. ASSUME NEW h \in Handler, InsertPayment(h) PROVE CheckoutInv'
    BY <2>8, InsertPaymentKeeps
  <2>9. ASSUME NEW h \in Handler, SaveBalance(h) PROVE CheckoutInv'
    BY <2>9, SaveBalanceKeeps
  <2>10. ASSUME NEW h \in Handler, Die(h) PROVE CheckoutInv'
    BY <2>10, DieKeeps
  <2> QED
    BY <2>1, <2>2, <2>3, <2>4, <2>5, <2>6, <2>7, <2>8, <2>9, <2>10 DEF CheckoutNext
<1> QED
  BY <1>1, <1>2, PTL DEF CheckoutSpec

\* For any number of requests and baskets, sales never drive the stock below
\* zero, and what they sold is what left it (complete_sale and deduct_stock).
THEOREM StockIsSold == CheckoutSpec => []StockSold
<1>1. CheckoutInv => StockSold
  BY DEF CheckoutInv
<1> QED
  BY <1>1, CheckoutInductive, PTL

\* uses_count is the number of sales with the promotion, and exceeds max_uses by
\* less than there are requests (complete_sale, which asks is_valid before it locks).
THEOREM PromotionBounded == CheckoutSpec => []PromotionUses
<1>1. CheckoutInv => PromotionUses
  BY DEF CheckoutInv
<1> QED
  BY <1>1, CheckoutInductive, PTL

\* The balance and the points of a customer served by one request after the
\* other are what the sales and payments make them, and the balance keeps
\* within the limit (complete_sale and CustomerPayment.save).
THEOREM CustomersKept == CheckoutSpec => []CustomerKept
<1>1. CheckoutInv => CustomerKept
  BY DEF CheckoutInv
<1> QED
  BY <1>1, CheckoutInductive, PTL

=============================================================================
