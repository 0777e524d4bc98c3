------------------------------ MODULE JobQueue ------------------------------
(***************************************************************************)
(* The database-backed job queue of core/jobs/queue.py with its workers    *)
(* (management command run_jobs) and the retry button of the admin list    *)
(* (core/views/jobs.py).                                                   *)
(*                                                                         *)
(* A worker claims a job in one transaction, runs its task in no           *)
(* transaction at all, and saves the outcome from the copy of the job it   *)
(* has had in memory since the claim.  A worker may die while it runs the  *)
(* task; whoever supervises it starts it again.                            *)
(***************************************************************************)
EXTENDS Integers, Sequences

CONSTANTS
  Caller,          \* the requests that enqueue jobs
  Worker,          \* the worker processes
  JobKey,          \* idempotency keys; NoJobKey is the empty one
  NoJobKey,
  Priority,        \* lower numbers first
  MaxJobAttempts,  \* Job.max_attempts
  MaxJobs,         \* bound: on the jobs ever enqueued
  MaxJobRetries    \* bound: how often Retry is pressed

ASSUME JobQueueAssumption ==
  /\ NoJobKey \in JobKey /\ Priority \subseteq Nat
  /\ MaxJobAttempts \in Nat \ {0}
  /\ MaxJobs \in Nat /\ MaxJobRetries \in Nat

VARIABLES
  jobs,        \* the rows of Job, in the order of their creation
  caller,      \* what a request is about to insert, Nothing otherwise
  worker,      \* the copy of the job a worker runs, Idle otherwise
  jobsShown,   \* the jobs an admin page may show with a Retry button: those that
               \* have failed, for a page that is still open shows them later on
  jobRetries,  \* how often Retry was pressed
  jobsForced   \* the jobs it was pressed for when they had not failed (any more)

jobAdmin == <<jobsShown, jobRetries, jobsForced>>
jobVars == <<jobs, caller, worker, jobAdmin>>

JobStatus == {"pending", "running", "completed", "failed"}
Job == [key : JobKey, priority : Priority, status : JobStatus, attempts : Nat,
        due : BOOLEAN]   \* scheduled_at <= now

Nothing == [key |-> NoJobKey, priority |-> -1]
Idle == [job |-> 0, attempts |-> 0]

JobInit ==
  /\ jobs = <<>>
  /\ caller = [c \in Caller |-> Nothing]
  /\ worker = [w \in Worker |-> Idle]
  /\ jobsShown = {}
  /\ jobRetries = 0
  /\ jobsForced = {}

-----------------------------------------------------------------------------
(* Enqueue: the key is looked up, then the job is inserted.                *)

PendingOnly == {"pending"}
ActiveStatus == {"pending", "running", "completed"}

ExistingJob(key) ==
  key # NoJobKey /\ \E i \in DOMAIN jobs : jobs[i].key = key /\ jobs[i].status \in ActiveStatus

\* An existing job is returned instead, and nothing happens.
CheckKey(c, key, priority) ==
  /\ caller[c] = Nothing
  /\ ~ExistingJob(key)
  /\ caller' = [caller EXCEPT ![c] = [key |-> key, priority |-> priority]]
  /\ UNCHANGED <<jobs, worker, jobAdmin>>

Insert(c) ==
  /\ caller[c] # Nothing
  /\ Len(jobs) < MaxJobs
  /\ jobs' = Append(jobs, [key |-> caller[c].key, priority |-> caller[c].priority,
                           status |-> "pending", attempts |-> 0, due |-> TRUE])
  /\ caller' = [caller EXCEPT ![c] = Nothing]
  /\ UNCHANGED <<worker, jobAdmin>>

-----------------------------------------------------------------------------
(* Workers.                                                                *)

Unfinished(i) == jobs[i].due /\ jobs[i].status \in {"pending", "running"}
FirstTime(i) == jobs[i].due /\ jobs[i].status = "pending" /\ jobs[i].attempts = 0
ClaimableJob(i) == jobs[i].due /\ jobs[i].status = "pending"

NextJobAttempt(attempts) == attempts + 1

\* claim_next_job: the first row in priority order that is not locked.
Claim(w, i) ==
  /\ worker[w] = Idle
  /\ ClaimableJob(i)
  /\ \A k \in DOMAIN jobs : ClaimableJob(k) => jobs[i].priority <= jobs[k].priority
  /\ jobs' = [jobs EXCEPT ![i].status = "running", ![i].attempts = NextJobAttempt(@)]
  /\ worker' = [worker EXCEPT ![w] =
                  [job |-> i, attempts |-> NextJobAttempt(jobs[i].attempts)]]
  /\ UNCHANGED <<caller, jobAdmin>>

\* execute_job saves every column of its copy: the row's attempts, too.
Save(w, status) ==
  /\ worker[w] # Idle
  /\ jobs' = [jobs EXCEPT ![worker[w].job].status = status,
                          ![worker[w].job].attempts = worker[w].attempts,
                          ![worker[w].job].due = status # "pending"]
  /\ worker' = [worker EXCEPT ![w] = Idle]
  /\ jobsShown' = IF status = "failed" THEN jobsShown \cup {worker[w].job} ELSE jobsShown
  /\ UNCHANGED <<caller, jobRetries, jobsForced>>

Succeed(w) == Save(w, "completed")

\* The task raised: the job waits for its backoff, or has failed for good.
MayTryAgain(attempts) == attempts < MaxJobAttempts
Fail(w) == Save(w, IF MayTryAgain(worker[w].attempts) THEN "pending" ELSE "failed")

\* The process dies: nothing in the code looks for jobs it was running.
WorkerDies(w) ==
  /\ worker[w] # Idle
  /\ worker' = [worker EXCEPT ![w] = Idle]
  /\ UNCHANGED <<jobs, caller, jobAdmin>>

\* The backoff of 2^attempts * 10 seconds is over.
BecomeDue(i) ==
  /\ ~jobs[i].due
  /\ jobs' = [jobs EXCEPT ![i].due = TRUE]
  /\ UNCHANGED <<caller, worker, jobAdmin>>

-----------------------------------------------------------------------------
(* The admin list shows a Retry button for a failed job.  The handler does *)
(* not look at the job's status again.                                     *)

RetryJob(i) ==
  /\ i \in jobsShown
  /\ jobRetries < MaxJobRetries
  /\ jobs' = [jobs EXCEPT ![i].status = "pending", ![i].attempts = 0, ![i].due = TRUE]
  /\ jobRetries' = jobRetries + 1
  /\ jobsForced' = IF jobs[i].status = "failed" THEN jobsForced ELSE jobsForced \cup {i}
  /\ UNCHANGED <<caller, worker, jobsShown>>

-----------------------------------------------------------------------------
Enqueue(c) ==
  \/ \E key \in JobKey, priority \in Priority : CheckKey(c, key, priority)
  \/ Insert(c)

ClaimNext(w) == \E i \in DOMAIN jobs : Claim(w, i)
Finish(w) == Succeed(w) \/ Fail(w)

JobNext ==
  \/ \E c \in Caller : Enqueue(c)
  \/ \E w \in Worker : ClaimNext(w) \/ Finish(w) \/ WorkerDies(w)
  \/ \E i \in DOMAIN jobs : BecomeDue(i) \/ RetryJob(i)

\* Workers poll for ever, tasks return or raise, time passes; nobody has to
\* enqueue, to die or to press Retry.
JobFairness ==
  /\ \A w \in Worker : WF_jobVars(ClaimNext(w)) /\ WF_jobVars(Finish(w))
  /\ \A i \in 1..MaxJobs : WF_jobVars(i \in DOMAIN jobs /\ BecomeDue(i))

JobSpec == JobInit /\ [][JobNext]_jobVars
JobFairSpec == JobSpec /\ JobFairness

-----------------------------------------------------------------------------
\* Jobs and the workers' copies have the types of their columns.
JobTypeOK ==
  /\ jobs \in Seq(Job)
  /\ caller \in [Caller -> {Nothing} \cup [key : JobKey, priority : Priority]]
  /\ worker \in [Worker -> [job : Nat, attempts : Nat]]
  /\ \A w \in Worker : worker[w] # Idle => worker[w].job \in DOMAIN jobs
  /\ jobsShown \subseteq DOMAIN jobs /\ jobsForced \subseteq jobsShown
  /\ jobRetries \in Nat

RunBy(w, i) == worker[w] # Idle /\ worker[w].job = i

\* "concurrency-safe claiming" (core/models/jobs.py 14): no two workers run one
\* job at the same time, unless an admin retried it from a page out of date.
OneWorkerPerJob ==
  \A i \in DOMAIN jobs \ jobsForced, v, w \in Worker :
    RunBy(v, i) /\ RunBy(w, i) => v = w

\* What a worker has in memory is what the row says: saving all of it at the
\* end overwrites nobody's change.
JobCopyIsCurrent ==
  \A w \in Worker, i \in DOMAIN jobs \ jobsForced : RunBy(w, i) =>
    /\ jobs[i].status = "running"
    /\ jobs[i].attempts = worker[w].attempts

\* A task that keeps failing is run MaxAttempts times and not once more, unless
\* an admin asks for it.
AttemptsWithinMax == \A i \in DOMAIN jobs : jobs[i].attempts <= MaxJobAttempts

\* A job that has been done is never done again, unless it is forced.
CompletedForGood ==
  [][\A i \in DOMAIN jobs \ jobsForced' :
       jobs[i].status = "completed" => jobs'[i].status = "completed"]_jobVars

\* What these rest on: a job that waits has attempts left, and a copy was taken
\* by one of the allowed attempts.
JobAttemptsLeft ==
  /\ \A i \in DOMAIN jobs : jobs[i].status = "pending" => jobs[i].attempts < MaxJobAttempts
  /\ \A w \in Worker : worker[w].attempts <= MaxJobAttempts

\* Inductive: rows and the workers' copies of them agree after every save.
JobInv ==
  JobTypeOK /\ OneWorkerPerJob /\ JobCopyIsCurrent /\ AttemptsWithinMax /\ JobAttemptsLeft

\* The row of a job whose worker died.
OrphanJob(i) == jobs[i].status = "running" /\ \A w \in Worker : ~RunBy(w, i)

JobSettled(i) ==
  i \in DOMAIN jobs /\ (jobs[i].status \in {"completed", "failed"} \/ OrphanJob(i))

\* Every job is done in the end, or has failed MaxAttempts times, or its worker
\* has died: failures and backoffs never make the queue forget it.
EveryJobSettles ==
  \A i \in 1..MaxJobs :
    (i \in DOMAIN jobs /\ jobs[i].status = "pending") ~> JobSettled(i)

=============================================================================
