------------------------------ MODULE JobQueue ------------------------------
(***************************************************************************)
(* The transactional outbox, pg-boss and the worker's execution locks      *)
(* (worker/outbox-dispatcher.ts, worker/job-execution-lock.ts, the frame   *)
(* every handler of worker/register-handlers.ts shares).                   *)
(*                                                                         *)
(* pg-boss is outside the repository: a job is created, fetched (active),  *)
(* and completed, or failed and, while attempts are left, retried.  When a *)
(* heartbeat is missed pg-boss fails the attempt by itself; the callback   *)
(* that was running it may be dead, or only late.                          *)
(***************************************************************************)
EXTENDS Naturals, Sequences, FiniteSets

CONSTANTS Slots,          \* callbacks that can run at once, one per worker process
          Scenarios       \* what a behaviour may be about: records of inputs and bounds

ASSUME JobQueueAssumption ==
  \A s \in Scenarios :
    /\ s.slots \subseteq Slots
    /\ s.retryLimit \in Nat
    /\ s.faultKinds \subseteq {"crash", "refused", "late", "duplicate", "ambiguous"}
    /\ s.maxFaults \in Nat

VARIABLES outbox,   \* outbox_event rows: work (queue and object) and business key
          sent,     \* those with dispatched_at set
          jobs,     \* pgboss.job rows by work, each in the order of (created_on, id)
          slot,     \* [Slots -> the callback running there]
          rec,      \* the terminal reconciler: the job it is projecting
          faults,   \* how many faults there were
          scenario  \* the inputs and bounds of this behaviour, fixed from the start

queueVars == <<outbox, sent, jobs, slot, rec>>
faultVars == <<faults, scenario>>

RetryLimit == scenario.retryLimit   \* retryLimit of every queue
FaultKinds == scenario.faultKinds   \* which faults happen
MaxFaults  == scenario.maxFaults    \* bound: how many

JobStates   == {"created", "active", "retry", "completed", "failed"}

Idle    == [pc |-> "idle"]
RecIdle == [pc |-> "idle"]

QueueInit(works) ==
  /\ scenario \in Scenarios
  /\ outbox = {}
  /\ sent = {}
  /\ jobs = [w \in works |-> <<>>]
  /\ slot = [s \in Slots |-> Idle]
  /\ rec = RecIdle
  /\ faults = 0

(* A process that dies, a statement the database refuses, an attempt that  *)
(* times out while its callback still runs, an event dispatched twice, a   *)
(* COMMIT that took effect and whose answer was lost.                      *)
Fault(kind) ==
  /\ kind \in FaultKinds /\ faults < MaxFaults
  /\ faults' = faults + 1
  /\ UNCHANGED scenario

Job(c) == jobs[c.work][c.n]

-----------------------------------------------------------------------------
(* The dispatcher.                                                         *)

Pending(w) == \E e \in outbox \ sent : e.work = w

NewJob(e) == [event |-> e, state |-> "created", retries |-> 0,
              overtaken |-> FALSE, marked |-> FALSE]

Send(e) == jobs' = [jobs EXCEPT ![e.work] = Append(@, NewJob(e))]

(* dispatchOutbox hands the event to pg-boss and then marks it dispatched. *)
Dispatch(e) ==
  /\ e \notin sent
  /\ Send(e)
  /\ sent' = sent \cup {e}
  /\ UNCHANGED <<outbox, slot, rec>>

\* Mutated form: the event is marked before it is sent, and the sending is lost.
DispatchLost(e) ==
  /\ e \notin sent
  /\ Fault("duplicate")
  /\ sent' = sent \cup {e}
  /\ UNCHANGED <<outbox, jobs, slot, rec>>

(* pg-boss inserts on a connection of its own: when the transaction that   *)
(* claimed the event dies before its UPDATE, the job is there and the      *)
(* event is dispatched again.                                              *)
DispatchUnmarked(e) ==
  /\ e \notin sent
  /\ Fault("duplicate")
  /\ Send(e)
  /\ UNCHANGED <<outbox, sent, slot, rec>>

-----------------------------------------------------------------------------
(* pg-boss.  The attempts of a job that has ended are forgotten: nothing   *)
(* asks for them.                                                          *)

(* An attempt that failed: another one, or the end.                        *)
FailAttempt(job) ==
  IF job.retries < RetryLimit
  THEN [job EXCEPT !.state = "retry"]
  ELSE [job EXCEPT !.state = "failed", !.retries = 0]

Fetch(s, w, n) ==
  LET job     == jobs[w][n]
      retries == IF job.state = "retry" THEN job.retries + 1 ELSE job.retries
  IN  /\ s \in scenario.slots /\ slot[s] = Idle
      /\ job.state \in {"created", "retry"}
      /\ jobs' = [jobs EXCEPT ![w][n] = [job EXCEPT !.state = "active", !.retries = retries]]
      /\ slot' = [slot EXCEPT ![s] = [pc |-> "fetched", work |-> w, n |-> n,
                                      last |-> retries >= RetryLimit]]
      /\ UNCHANGED <<outbox, sent, rec>>

(* Heartbeat or lease run out: the callback died, or it only is late.      *)
Abandoned(w, n) == \A s \in Slots : slot[s] # Idle => <<slot[s].work, slot[s].n>> # <<w, n>>

Expire(w, n) ==
  /\ jobs[w][n].state = "active" /\ Abandoned(w, n)
  /\ jobs' = [jobs EXCEPT ![w][n] = FailAttempt(@)]
  /\ UNCHANGED <<outbox, sent, slot, rec>>

ExpireLate(w, n) ==
  /\ jobs[w][n].state = "active" /\ ~Abandoned(w, n)
  /\ Fault("late")
  /\ jobs' = [jobs EXCEPT ![w][n] = FailAttempt(@)]
  /\ UNCHANGED <<outbox, sent, slot, rec>>

-----------------------------------------------------------------------------
(* The frame of a handler.                                                 *)

Executing(s) == slot[s].pc \notin {"idle", "fetched", "ack"}

(* withJobExecutionLocks: a session advisory lock on queue and object,     *)
(* gone when the callback returns or its process dies.                     *)
LockFree(w) ==
  /\ \A s \in Slots : Executing(s) => slot[s].work # w
  /\ rec # RecIdle => rec.work # w

(* Under the lock the handler asks whether the job is still active; if not *)
(* it reports success, which pg-boss ignores.                              *)
Begin(s) ==
  /\ slot[s].pc = "fetched"
  /\ LockFree(slot[s].work)
  /\ slot' = [slot EXCEPT ![s] = IF Job(@).state = "active" THEN [@ EXCEPT !.pc = "work"] ELSE Idle]
  /\ UNCHANGED <<outbox, sent, jobs, rec>>

(* What a step of a handler leaves in its slot: the result to report, and  *)
(* the failure code to project first when the failure is a final one.      *)
Report(s, result) ==
  slot' = [slot EXCEPT ![s] = [pc |-> "ack", work |-> @.work, n |-> @.n, result |-> result]]
Continue(s, pc, run) ==
  slot' = [slot EXCEPT ![s] = [pc |-> pc, work |-> @.work, n |-> @.n, last |-> @.last, run |-> run]]
ProjectThen(s, pc, result, code) ==
  slot' = [slot EXCEPT ![s] = [pc |-> pc, work |-> @.work, n |-> @.n, last |-> @.last,
                               result |-> result, code |-> code]]

(* A failure that may go away: only the last attempt is projected.         *)
TransientFailure(s) ==
  IF slot[s].last THEN ProjectThen(s, "project", "failed", "exhausted") ELSE Report(s, "failed")

(* The answer reaches pg-boss after the lock is gone; it counts only while *)
(* the job is active, for whichever attempt that is.                       *)
Acknowledged(job, result) ==
  IF job.state # "active" THEN job
  ELSE CASE result = "completed"  -> [job EXCEPT !.state = "completed", !.retries = 0]
         [] result = "deadletter" -> [job EXCEPT !.state = "failed", !.retries = 0]
         [] result = "failed"     -> FailAttempt(job)

Ack(s) ==
  /\ slot[s].pc = "ack"
  /\ jobs' = [jobs EXCEPT ![slot[s].work][slot[s].n] = Acknowledged(@, slot[s].result)]
  /\ slot' = [slot EXCEPT ![s] = Idle]
  /\ UNCHANGED <<outbox, sent, rec>>

(* The process dies; the job stays active until it expires.                *)
Crash(s) ==
  /\ slot[s] # Idle
  /\ Fault("crash")
  /\ slot' = [slot EXCEPT ![s] = Idle]
  /\ UNCHANGED <<outbox, sent, jobs, rec>>

-----------------------------------------------------------------------------
(* The terminal reconciler, as far as it is the same for every queue: one  *)
(* job of a cycle.                                                         *)

(* A job is superseded when the same queue has a newer job for the object, *)
(* in whatever state, or an event for it that is not dispatched yet.       *)
\* Mutated form: a job counts as newer than itself.
SupersededByItself(w, n) == n <= Len(jobs[w]) \/ Pending(w)
Superseded(w, n) == n < Len(jobs[w]) \/ Pending(w)

Reconcilable(job) == job.state = "failed" /\ ~job.marked
Reconciled(job) == [job EXCEPT !.marked = TRUE, !.overtaken = FALSE]

(* The lock is tried (a busy one only defers the job), superseded jobs are *)
(* marked done, the others projected.                                      *)
BeginReconciliation(w, n) ==
  /\ rec = RecIdle
  /\ Reconcilable(jobs[w][n])
  /\ LockFree(w)
  /\ IF Superseded(w, n)
     THEN jobs' = [jobs EXCEPT ![w][n] = Reconciled(@)] /\ UNCHANGED rec
     ELSE rec' = [pc |-> "project", work |-> w, n |-> n] /\ UNCHANGED jobs
  /\ UNCHANGED <<outbox, sent, slot>>

EndReconciliation ==
  /\ rec.pc = "record"
  /\ jobs' = [jobs EXCEPT ![rec.work][rec.n] = Reconciled(@)]
  /\ rec' = RecIdle
  /\ UNCHANGED <<outbox, sent, slot>>

(* The process dies, or the database refuses a statement: the job is taken *)
(* up again in a later cycle.                                              *)
ReconciliationLost ==
  /\ rec # RecIdle
  /\ Fault("refused")
  /\ rec' = RecIdle
  /\ UNCHANGED <<outbox, sent, jobs, slot>>

-----------------------------------------------------------------------------
(* The queue's own steps, over whatever work there is.                     *)

DispatcherStep == \E e \in outbox : Dispatch(e)

Take(s) == \E w \in DOMAIN jobs : \E n \in DOMAIN jobs[w] : Fetch(s, w, n)
Expiry  == \E w \in DOMAIN jobs : \E n \in DOMAIN jobs[w] : Expire(w, n)

QueueStep ==
  \/ DispatcherStep
  \/ \E s \in Slots : Take(s) \/ Begin(s) \/ Ack(s)
  \/ Expiry

QueueFault ==
  \/ \E e \in outbox : DispatchUnmarked(e)
  \/ \E w \in DOMAIN jobs : \E n \in DOMAIN jobs[w] : ExpireLate(w, n)
  \/ \E s \in Slots : Crash(s)

(* Work on an object is not finished: an event, a job, or a failed job the *)
(* reconciler has not dealt with.                                          *)
Open(job) == job.state # "completed" /\ ~job.marked
Unfinished(w) == Pending(w) \/ \E n \in DOMAIN jobs[w] : Open(jobs[w][n])

=============================================================================
