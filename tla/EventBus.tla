------------------------------ MODULE EventBus ------------------------------
(***************************************************************************)
(* The transactional outbox of core/events/bus.py: publishers that insert  *)
(* events in their own transactions, dispatchers (management command       *)
(* dispatch_events) that claim batches of events and call the subscribers, *)
(* and the retry button of the admin list (core/views/events.py).          *)
(*                                                                         *)
(* A dispatcher claims its batch in one transaction.  It then calls the    *)
(* handlers of one event after the other in no transaction, and saves each *)
(* event's outcome from the copy it has had in memory since the claim.     *)
(***************************************************************************)
EXTENDS Integers, Sequences, FiniteSets

CONSTANTS
  Publisher,    \* the requests that publish
  Dispatcher,   \* the dispatcher processes
  Handlers,     \* the subscribers of the event, in the order of subscription
  Key,          \* idempotency keys; NoKey is the empty one
  NoKey,
  MaxAttempts,  \* OutboxEvent.max_attempts
  Batch,        \* batch_size
  MaxEvents,    \* bound: on the events ever published
  MaxRetries    \* bound: how often Retry is pressed

ASSUME EventBusAssumption ==
  /\ NoKey \in Key
  /\ Len(Handlers) \in Nat /\ DOMAIN Handlers = 1..Len(Handlers)
  /\ MaxAttempts \in Nat \ {0} /\ Batch \in Nat \ {0}
  /\ MaxEvents \in Nat /\ MaxRetries \in Nat

VARIABLES
  events,     \* the rows of OutboxEvent, in the order of their creation
  publisher,  \* the keys a publisher's transaction has events of to insert
  batch,      \* the copies of the events a dispatcher has still to process
  position,   \* the handler it calls next for the first of them
  failed,     \* whether a handler has failed on that event
  shown,      \* the events an admin page may show with a Retry button: those
              \* that have failed, for a page still open shows them later on
  retries,    \* how often Retry was pressed
  forced      \* the events it was pressed for when they had not failed

dispatching == <<batch, position, failed>>
admin == <<shown, retries, forced>>
eventVars == <<events, publisher, dispatching, admin>>

Status == {"pending", "processing", "dispatched", "failed", "dead_letter"}

\* succeeded are the handlers with an EventDelivery of status success.
Event == [key : Key, status : Status, attempts : Nat, succeeded : SUBSET DOMAIN Handlers]
Copy == [event : Nat \ {0}, attempts : Nat]

EventInit ==
  /\ events = <<>>
  /\ publisher = [c \in Publisher |-> {}]
  /\ batch = [d \in Dispatcher |-> <<>>]
  /\ position = [d \in Dispatcher |-> 1]
  /\ failed = [d \in Dispatcher |-> FALSE]
  /\ shown = {}
  /\ retries = 0
  /\ forced = {}

-----------------------------------------------------------------------------
(* Publish, inside the transaction of the business change.                 *)

\* An event that waits or is done with is returned instead.
Existing(key) ==
  key # NoKey /\ \E i \in DOMAIN events :
    events[i].key = key /\ events[i].status \in {"pending", "dispatched"}

Publish(c, key) ==
  /\ publisher[c] = {} /\ ~Existing(key)
  /\ publisher' = [publisher EXCEPT ![c] = {key}]
  /\ UNCHANGED <<events, dispatching, admin>>

Commit(c) ==
  /\ Len(events) < MaxEvents
  /\ \E key \in publisher[c] :
       events' = Append(events, [key |-> key, status |-> "pending", attempts |-> 0,
                                 succeeded |-> {}])
  /\ publisher' = [publisher EXCEPT ![c] = {}]
  /\ UNCHANGED <<dispatching, admin>>

Rollback(c) ==
  /\ publisher[c] # {}
  /\ publisher' = [publisher EXCEPT ![c] = {}]
  /\ UNCHANGED <<events, dispatching, admin>>

-----------------------------------------------------------------------------
(* Dispatch.                                                               *)

FirstOnly == {"pending"}
AnyUndone == {"pending", "processing", "failed"}
Claimable == {"pending", "failed"}

Waiting == {i \in DOMAIN events : events[i].status \in Claimable}
NextBatch == {i \in Waiting : Cardinality({j \in Waiting : j < i}) < Batch}

\* attempts in memory and in the row.
NextAttempt(attempts) == attempts + 1

\* The events of the batch, in the order of their creation.
InOrder(q) == \A j, k \in DOMAIN q : j < k => q[j] < q[k]

ClaimBatch(d) ==
  /\ batch[d] = <<>> /\ NextBatch # {}
  /\ \E q \in [1..Cardinality(NextBatch) -> NextBatch] :
       /\ InOrder(q)
       /\ batch' = [batch EXCEPT ![d] = [k \in DOMAIN q |->
            [event |-> q[k], attempts |-> NextAttempt(events[q[k]].attempts)]]]
  /\ events' = [i \in DOMAIN events |->
       IF i \in NextBatch
       THEN [events[i] EXCEPT !.status = "processing", !.attempts = NextAttempt(@)]
       ELSE events[i]]
  /\ UNCHANGED <<publisher, position, failed, admin>>

Current(d) == Head(batch[d]).event

\* The next handler returns, or raises: either is recorded as a delivery.
Handle(d, ok) ==
  /\ batch[d] # <<>> /\ position[d] \in DOMAIN Handlers
  /\ events' = IF ok THEN [events EXCEPT ![Current(d)].succeeded = @ \cup {position[d]}]
                     ELSE events
  /\ failed' = [failed EXCEPT ![d] = @ \/ ~ok]
  /\ position' = [position EXCEPT ![d] = @ + 1]
  /\ UNCHANGED <<publisher, batch, admin>>

\* The status an event is left in after a round of its handlers.
OutcomeLenient(anyFailed, attempts) ==
  IF ~anyFailed \/ attempts >= MaxAttempts THEN "dispatched" ELSE "failed"
Outcome(anyFailed, attempts) ==
  IF ~anyFailed THEN "dispatched"
  ELSE IF attempts >= MaxAttempts THEN "dead_letter" ELSE "failed"

\* Only the status is saved, not the attempts; the next event is up.
Settle(d) ==
  /\ batch[d] # <<>> /\ position[d] > Len(Handlers)
  /\ events' = [events EXCEPT ![Current(d)].status =
                  Outcome(failed[d], Head(batch[d]).attempts)]
  /\ batch' = [batch EXCEPT ![d] = Tail(@)]
  /\ position' = [position EXCEPT ![d] = 1]
  /\ failed' = [failed EXCEPT ![d] = FALSE]
  /\ shown' = IF failed[d] THEN shown \cup {Current(d)} ELSE shown
  /\ UNCHANGED <<publisher, retries, forced>>

\* The process dies with the rest of its batch: nothing in the code looks for
\* events that are being processed.
Die(d) ==
  /\ batch[d] # <<>>
  /\ batch' = [batch EXCEPT ![d] = <<>>]
  /\ position' = [position EXCEPT ![d] = 1]
  /\ failed' = [failed EXCEPT ![d] = FALSE]
  /\ UNCHANGED <<events, publisher, admin>>

-----------------------------------------------------------------------------
(* The admin list shows a Retry button for these events.  The handler does *)
(* not look at the event's status again.                                   *)

Retryable(i) == events[i].status \in {"failed", "dead_letter"}

Retry(i) ==
  /\ i \in shown
  /\ retries < MaxRetries
  /\ events' = [events EXCEPT ![i].status = "pending", ![i].attempts = 0]
  /\ retries' = retries + 1
  /\ forced' = IF Retryable(i) THEN forced ELSE forced \cup {i}
  /\ UNCHANGED <<publisher, dispatching, shown>>

-----------------------------------------------------------------------------
Process(d) == (\E ok \in BOOLEAN : Handle(d, ok)) \/ Settle(d)

EventNext ==
  \/ \E c \in Publisher : (\E key \in Key : Publish(c, key)) \/ Commit(c) \/ Rollback(c)
  \/ \E d \in Dispatcher : ClaimBatch(d) \/ Process(d) \/ Die(d)
  \/ \E i \in DOMAIN events : Retry(i)

\* Dispatchers poll for ever and handlers return or raise; nobody has to
\* publish, to die or to press Retry.
EventFairness == \A d \in Dispatcher : WF_eventVars(ClaimBatch(d)) /\ WF_eventVars(Process(d))

EventSpec == EventInit /\ [][EventNext]_eventVars
EventFairSpec == EventSpec /\ EventFairness

-----------------------------------------------------------------------------
\* Events and copies have the types of their columns; batches hold copies of
\* numbered events and handlers are called from the first on.
EventTypeOK ==
  /\ events \in Seq(Event)
  /\ publisher \in [Publisher -> SUBSET Key]
  /\ batch \in [Dispatcher -> Seq(Copy)]
  /\ position \in [Dispatcher -> Nat \ {0}]
  /\ failed \in [Dispatcher -> BOOLEAN]
  /\ shown \subseteq DOMAIN events /\ forced \subseteq shown
  /\ retries \in Nat

Holds(d, i) == \E k \in DOMAIN batch[d] : batch[d][k].event = i

\* "prevent duplicate processing by concurrent dispatchers" (bus.py 81): an
\* event is in the batch of one dispatcher at most, and there once, unless an
\* admin retried it from a page out of date.
OneDispatcherPerEvent ==
  \A c, d \in Dispatcher : \A j \in DOMAIN batch[c], k \in DOMAIN batch[d] :
    batch[c][j].event = batch[d][k].event /\ batch[c][j].event \notin forced
      => c = d /\ j = k

\* Every subscriber has handled an event that counts as dispatched, however
\* many rounds, dispatchers and deaths that took.
DispatchedMeansDelivered ==
  \A i \in DOMAIN events :
    events[i].status = "dispatched" => events[i].succeeded = DOMAIN Handlers

\* An event is given up after MaxAttempts rounds, not earlier and not later,
\* unless it is forced.
GivenUpAfterMaxAttempts ==
  \A i \in DOMAIN events \ forced :
    /\ events[i].attempts <= MaxAttempts
    /\ events[i].status = "dead_letter" => events[i].attempts = MaxAttempts

\* What these rest on: the copy in a batch is current, an event that waits has
\* attempts left, and a round without a failure has reached every subscriber
\* that it has called.
CopyIsCurrent ==
  \A d \in Dispatcher : \A k \in DOMAIN batch[d] :
    LET c == batch[d][k]
    IN /\ c.event \in DOMAIN events
       /\ c.event \notin forced =>
            events[c.event].status = "processing" /\ events[c.event].attempts = c.attempts

\* An event that waits may be tried again.
AttemptsLeft ==
  \A i \in DOMAIN events \ forced :
    events[i].status \in Claimable => events[i].attempts < MaxAttempts

\* Handlers are called in order, and each that returned has its delivery.
RoundInOrder ==
  \A d \in Dispatcher :
    /\ batch[d] = <<>> => position[d] = 1 /\ ~failed[d]
    /\ batch[d] # <<>> /\ ~failed[d] =>
         \A h \in DOMAIN Handlers : h < position[d] => h \in events[Current(d)].succeeded

\* Inductive: rows, batches and rounds agree after every transaction.
EventInv ==
  /\ EventTypeOK /\ OneDispatcherPerEvent /\ CopyIsCurrent /\ AttemptsLeft
  /\ GivenUpAfterMaxAttempts /\ RoundInOrder /\ DispatchedMeansDelivered

\* What was dispatched is never processed again, unless it is forced.
DispatchedForGood ==
  [][\A i \in DOMAIN events \ forced' :
       events[i].status = "dispatched" => events'[i].status = "dispatched"]_eventVars

\* An event whose dispatcher died before it was through with its batch.
Orphan(i) == events[i].status = "processing" /\ \A d \in Dispatcher : ~Holds(d, i)

Settled(i) ==
  i \in DOMAIN events /\ (events[i].status \in {"dispatched", "dead_letter"} \/ Orphan(i))

\* Every event that was committed is dispatched in the end, or given up, or its
\* dispatcher has died: no failure of a handler makes the outbox forget it.
EveryEventSettles ==
  \A i \in 1..MaxEvents :
    (i \in DOMAIN events /\ events[i].status = "pending") ~> Settled(i)

=============================================================================
