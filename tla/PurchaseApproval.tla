-------------------------- MODULE PurchaseApproval --------------------------
(***************************************************************************)
(* One purchase order from draft to sent, the approval requests the        *)
(* workflow engine keeps for it, and the people who sign them from the     *)
(* order's own page or from the approval inbox.                            *)
(*                                                                         *)
(* The engine decides on a request in a transaction that holds the         *)
(* request's row; the views around it read the order, call the engine and  *)
(* save the order they read in separate transactions.                      *)
(***************************************************************************)
EXTENDS Integers, Sequences

CONSTANTS
  Session,    \* requests, each handled by one process
  User,
  Steps,      \* number of steps of the workflow "purchase_order", 0: not configured
  MaySign,    \* pairs of a user and a step can_user_approve_step lets him decide
  MaxRequests \* bound: approval requests created for the order

ASSUME ApprovalAssumption ==
  Steps \in Nat /\ MaxRequests \in Nat /\ MaySign \subseteq User \X (1..Steps)

VARIABLES
  order,    \* Purchase.status
  requests, \* the ApprovalRequests of the order, the newest last
  log,      \* the ApprovalActions of each request, in the order they were recorded
  work,     \* what a session is doing, with the copies it has read
  final,    \* history: the requests whose last step was signed on the order's page
  bypassed, \* history: the order was approved by a view that completed no request
  broken    \* history: a view died, or saved an order that had changed meanwhile

approvalVars == <<order, requests, log, work, final, bypassed, broken>>

Request == [status : {"pending", "approved", "rejected"}, step : 1..Steps]
Decision == [step : 1..Steps, user : User, verdict : {"approve", "reject"}]
Task == {"submit", "approve", "send"}
Place == {"idle", "submit", "find", "sign", "decide", "save"}
OrderStatus == {"draft", "pending_approval", "approved", "sent"}
Work == [at : Place, task : Task \cup {"none"}, user : User \cup {"none"}, request : Nat,
         verdict : {"approve", "reject"}, copy : OrderStatus \cup {"none"},
         seen : [status : {"none", "pending", "approved", "rejected"}, step : 0..Steps]]
IdleView == [at |-> "idle", task |-> "none", user |-> "none", request |-> 0,
         verdict |-> "approve", seen |-> [status |-> "none", step |-> 0], copy |-> "none"]

ApprovalTypeOK ==
  /\ order \in OrderStatus
  /\ requests \in Seq(Request) /\ Len(requests) <= MaxRequests
  /\ log \in Seq(Seq(Decision)) /\ Len(log) = Len(requests)
  /\ work \in [Session -> Work]
  /\ final \subseteq 1..MaxRequests /\ bypassed \in BOOLEAN /\ broken \in BOOLEAN

\* purchase_create saves a draft, or an order pending approval for which it
\* does not ask the engine.
ApprovalInit ==
  /\ order \in {"draft", "pending_approval"}
  /\ requests = <<>> /\ log = <<>>
  /\ work = [s \in Session |-> IdleView]
  /\ final = {} /\ bypassed = FALSE /\ broken = FALSE

history == <<final, bypassed, broken>>
engine == <<requests, log>>

At(s, place) == work[s].at = place
Go(s, place) == work' = [work EXCEPT ![s].at = place]
FinishView(s) == work' = [work EXCEPT ![s] = IdleView]
Pending(r) == requests[r].status = "pending"
Newest(r) == Pending(r) /\ \A q \in DOMAIN requests : Pending(q) => q <= r

-----------------------------------------------------------------------------
(* The views of the order.                                                 *)

MayBegin == [submit |-> "draft", approve |-> "pending_approval", send |-> "approved"]
NextStatus == [submit |-> "pending_approval", approve |-> "approved", send |-> "sent"]
FirstPlace == [submit |-> "submit", approve |-> "find", send |-> "save"]

\* The view gets the order and looks at the status of its copy.
Read(s, task, user) ==
  /\ At(s, "idle") /\ order = MayBegin[task]
  /\ work' = [work EXCEPT ![s] =
       [IdleView EXCEPT !.at = FirstPlace[task], !.task = task, !.user = user, !.copy = order]]
  /\ UNCHANGED <<order, engine, history>>

\* submit_for_approval: a new request, whatever other ones there are.
Submit(s) ==
  /\ At(s, "submit")
  /\ IF Steps = 0 THEN UNCHANGED engine
     ELSE /\ Len(requests) < MaxRequests
          /\ requests' = Append(requests, [status |-> "pending", step |-> 1])
          /\ log' = Append(log, <<>>)
  /\ Go(s, "save")
  /\ UNCHANGED <<order, history>>

\* purchase_approve takes the newest pending request of the order to the
\* engine.  With none, it approves the order itself.
FindRequest(s) ==
  /\ At(s, "find")
  /\ IF \E r \in DOMAIN requests : Pending(r)
     THEN /\ \E r \in DOMAIN requests :
               Newest(r) /\ work' = [work EXCEPT ![s].at = "sign", ![s].request = r]
          /\ UNCHANGED bypassed
     ELSE Go(s, "save") /\ bypassed' = TRUE
  /\ UNCHANGED <<order, engine, final, broken>>

\* purchase.save() writes the copy's columns with the new status.
SaveOrder(s) ==
  /\ At(s, "save")
  /\ order' = NextStatus[work[s].task]
  /\ broken' = (broken \/ order # work[s].copy)
  /\ FinishView(s)
  /\ UNCHANGED <<engine, final, bypassed>>

\* A decision taken in the approval inbox, which knows nothing of the order.
OpenInbox(s, user, r, verdict) ==
  /\ At(s, "idle")
  /\ work' = [work EXCEPT ![s] =
       [IdleView EXCEPT !.at = "sign", !.user = user, !.request = r, !.verdict = verdict]]
  /\ UNCHANGED <<order, engine, history>>

-----------------------------------------------------------------------------
(* process_approval.                                                       *)

\* select_for_update waits for the transaction that holds the request's row.
NeverHeld(s, r) == TRUE
RowFree(s, r) == \A o \in Session \ {s} : ~(At(o, "decide") /\ work[o].request = r)

LockRequest(s) ==
  /\ At(s, "sign") /\ RowFree(s, work[s].request)
  /\ work' = [work EXCEPT ![s].at = "decide", ![s].seen = requests[work[s].request]]
  /\ UNCHANGED <<order, engine, history>>

MayDecide(w) == w.seen.status = "pending" /\ <<w.user, w.seen.step>> \in MaySign
Completes(w) == MayDecide(w) /\ w.verdict = "approve" /\ w.seen.step = Steps

Decided(w) ==
  IF w.verdict = "reject" THEN [w.seen EXCEPT !.status = "rejected"]
  ELSE IF w.seen.step < Steps THEN [w.seen EXCEPT !.step = @ + 1]
  ELSE [w.seen EXCEPT !.status = "approved"]

\* What purchase_approve does with the engine's answer: it approves the order
\* when the last step was signed, and also when the engine raised.
SavesAnyway(w) == w.task = "approve"
SavesOrder(w) == w.task = "approve" /\ (Completes(w) \/ ~MayDecide(w))

Decide(s) ==
  LET w == work[s] IN
  /\ At(s, "decide")
  /\ IF MayDecide(w)
     THEN /\ requests' = [requests EXCEPT ![w.request] = Decided(w)]
          /\ log' = [log EXCEPT ![w.request] = Append(@,
                       [step |-> w.seen.step, user |-> w.user, verdict |-> w.verdict])]
     ELSE UNCHANGED engine
  /\ final' = IF w.task = "approve" /\ Completes(w) THEN final \cup {w.request} ELSE final
  /\ bypassed' = (bypassed \/ (w.task = "approve" /\ ~MayDecide(w)))
  /\ IF SavesOrder(w) THEN Go(s, "save") ELSE FinishView(s)
  /\ UNCHANGED <<order, broken>>

\* The process dies; PostgreSQL rolls back the transaction it was in.
ViewDies(s) ==
  /\ ~At(s, "idle")
  /\ broken' = TRUE
  /\ FinishView(s)
  /\ UNCHANGED <<order, engine, final, bypassed>>

ApprovalNext ==
  \E s \in Session :
    \/ \E task \in Task, user \in User : Read(s, task, user)
    \/ \E user \in User, r \in DOMAIN requests, verdict \in {"approve", "reject"} :
         OpenInbox(s, user, r, verdict)
    \/ Submit(s) \/ FindRequest(s) \/ SaveOrder(s) \/ LockRequest(s) \/ Decide(s) \/ ViewDies(s)

ApprovalSpec == ApprovalInit /\ [][ApprovalNext]_approvalVars

-----------------------------------------------------------------------------

\* What the decisions on a request amount to: every step signed once, in the
\* order of the steps and by somebody entitled to it; a rejection is the last
\* decision; the request is approved exactly when all the steps are signed.
\* This holds whoever decides at the same time (engine.py 120-174).
InStep(request, signed) ==
  LET n == Len(signed) IN
  /\ \A i \in 1..n :
       /\ signed[i].step = i /\ <<signed[i].user, i>> \in MaySign
       /\ signed[i].verdict = "reject" => i = n
  /\ request.status =
       IF n > 0 /\ signed[n].verdict = "reject" THEN "rejected"
       ELSE IF n = Steps THEN "approved" ELSE "pending"
  /\ request.status = "pending" => request.step = n + 1

SignedStepByStep == \A r \in DOMAIN requests : InStep(requests[r], log[r])

\* The order and the engine agree: unless a view approved the order without
\* completing a request, the order is approved only after every step of one of
\* its requests was signed; and unless a view died or saved an old copy, the
\* order is approved, or about to be, once its page has signed the last step
\* (views.py 4940-4980).
OrderMatchesRequests ==
  /\ order \in {"approved", "sent"} /\ ~bypassed =>
       \E r \in DOMAIN requests : Len(log[r]) = Steps /\ requests[r].status = "approved"
  /\ final # {} /\ ~broken =>
       \/ order \in {"approved", "sent"}
       \/ \E s \in Session : At(s, "save") /\ work[s].task = "approve"

=============================================================================
