------------------------- MODULE TerminalReconciler -------------------------
(***************************************************************************)
(* The periodic reconciliation of failed jobs with the business objects    *)
(* they were about (worker/terminal-reconciler.ts), and the whole pipeline *)
(* put together.                                                           *)
(***************************************************************************)
EXTENDS Pipeline

StartReconciliation(w, n) == BeginReconciliation(w, n) /\ UNCHANGED <<businessVars, committed>>

(* The run of a batch created last: inputs only move forward.              *)
RunsOf(b) == {r \in Runs : r.batch = b /\ run[r] # "ABSENT"}
IsLatest(r) == \A q \in RunsOf(r.batch) :
                 \/ q.data < r.data
                 \/ q.data = r.data /\ q.rates <= r.rates
LatestStatus(b) ==
  IF RunsOf(b) = {} THEN "ABSENT" ELSE run[CHOOSE r \in RunsOf(b) : IsLatest(r)]

\* Mutated form: the batch's updated_at is not compared with completed_on.
NotOvertakenIgnored(c) == TRUE
NotOvertaken(c) == ~Job(c).overtaken

ProjectCommitFailure(b) ==
  SetBatchWhen(batch[b].status = "COMMITTING" /\ NotOvertaken(rec), b, "FAILED", "exhausted")

ProjectCalculationRequest(b) ==
  LET waiting == batch[b].status \in Calculable /\ NotOvertaken(rec)
  IN  IF LatestStatus(b) \in {"QUEUED", "READY"}
      THEN SetBatchWhen(waiting, b, "CALCULATING", "none")
      ELSE SetBatchWhen(waiting, b, "FAILED", "exhausted")

WasPublished(r) == r \in snapshots

Unpublished == Calculable \cup {"READY_FOR_REVIEW", "RESULT_PUBLISHING"}

ProjectAutoPublishFailure(b, r) ==
  IF WasPublished(r)
  THEN SetBatchWhen(batch[b].status # "RESULT_PUBLISHED" /\ NotOvertaken(rec),
                    b, "RESULT_PUBLISHED", "none")
  ELSE SetBatchWhen(batch[b].status \in Unpublished /\ NotOvertaken(rec),
                    b, "READY_FOR_REVIEW", "exhausted")

ProjectFailure ==
  LET w == rec.work
  IN  /\ rec.pc = "project"
      /\ CASE w.topic = "import.commit" ->
                ProjectCommitFailure(w.obj) /\ UNCHANGED run
           [] w.topic = "calculation.requested" ->
                ProjectCalculationRequest(w.obj) /\ UNCHANGED run
           [] w.topic = "calculation.run" ->
                MarkCalculationRunFailed(w.obj, "exhausted")
           [] w.topic = "report.auto-publish" ->
                ProjectAutoPublishFailure(w.obj, Job(rec).event.key) /\ UNCHANGED run
      /\ rec' = [rec EXCEPT !.pc = "record"]
      /\ UNCHANGED <<outbox, sent, slot, data, rates, hard, snapshots, current, committed>>

RecordReconciliation == EndReconciliation /\ UNCHANGED <<businessVars, committed>>

ReconciliationFails == ReconciliationLost /\ UNCHANGED <<businessVars, committed>>

-----------------------------------------------------------------------------

Api ==
  \/ \E b \in scenario.batches, key \in scenario.keys : Confirm(b, key) \/ Resume(b, key)
  \/ \E b \in scenario.batches : Preflight(b)
  \/ AcknowledgeHard
  \/ SyncRates

HandlerStep(s) ==
  \/ CommitWork(s) \/ PersistSafeFailure(s)
  \/ RequestWork(s) \/ AdvanceBatch(s)
  \/ CalculateWork(s)
  \/ AnnouncePublish(s) \/ PublishSnapshot(s) \/ RecordPublished(s)
  \/ ProjectTerminal(s)

ReconcilerStep ==
  \/ \E w \in Works : \E n \in DOMAIN jobs[w] : StartReconciliation(w, n)
  \/ ProjectFailure
  \/ RecordReconciliation

QueueOnly(A) == A /\ UNCHANGED <<faultVars, businessVars, committed>>
NoFault(A)   == A /\ UNCHANGED faultVars

Next ==
  \/ NoFault(Api)
  \/ QueueOnly(QueueStep)
  \/ NoFault(\E s \in Slots : HandlerStep(s))
  \/ NoFault(ReconcilerStep)
  \/ QueueFault /\ UNCHANGED <<businessVars, committed>>
  \/ \E s \in Slots : StepFails(s) \/ ProjectionFails(s)
  \/ ReconciliationFails

Spec == Init /\ [][Next]_vars

(* What keeps running: the dispatcher and the reconciler are timers of     *)
(* every worker, pg-boss polls, waiters get an advisory lock in turn, and  *)
(* a callback runs to its end or its attempt expires.  No fairness is      *)
(* asked of the API, and faults are never obliged to happen.               *)
FairSpec ==
  /\ Spec
  /\ WF_vars(QueueOnly(DispatcherStep))
  /\ \A s \in Slots : /\ WF_vars(QueueOnly(Take(s)))
                      /\ SF_vars(QueueOnly(Begin(s)))
                      /\ WF_vars(QueueOnly(Ack(s)))
                      /\ WF_vars(NoFault(HandlerStep(s)))
  /\ WF_vars(QueueOnly(Expiry))
  /\ WF_vars(NoFault(ReconcilerStep))

-----------------------------------------------------------------------------
(* Properties.                                                             *)

Events == {CommitEvent(b, key) : b \in Batches, key \in Keys \cup {SystemKey}}
            \cup {RequestEvent(b, key) : b \in Batches, key \in Keys \cup {SystemKey}}
            \cup {RunEvent(r) : r \in Runs} \cup {PublishEvent(r) : r \in Runs}

(* Every row holds what its table allows, and what a callback or the       *)
(* reconciler has in hand is a job that exists.                            *)
TypeOK ==
  /\ outbox \subseteq Events /\ sent \subseteq outbox
  /\ \A w \in Works : \A n \in DOMAIN jobs[w] :
       LET job == jobs[w][n]
       IN  /\ job.event \in outbox /\ job.event.work = w /\ job.state \in JobStates
           /\ job.retries \in 0..RetryLimit
           /\ job.overtaken \/ job.marked => job.state = "failed"
  /\ \A s \in Slots : slot[s] # Idle => slot[s].n \in DOMAIN jobs[slot[s].work]
  /\ rec # RecIdle => Job(rec).state = "failed" /\ ~Job(rec).marked
  /\ batch \in [Batches -> [status : BatchStatus, code : Codes]]
  /\ run \in [Runs -> {"ABSENT", "QUEUED", "READY", "FAILED"}]
  /\ data \in 0..Cardinality(Batches) /\ rates \in 0..MaxRates /\ hard \in BOOLEAN
  /\ snapshots \subseteq Runs /\ current \in snapshots \cup {NoRun}

(* However often import.commit is dispatched, retried, expired or raced by *)
(* a late callback, a batch's facts are materialised at most once.         *)
CommittedOnce == data = Cardinality(committed)

(* RESULT_PUBLISHED is shown only of a batch one of whose runs has a       *)
(* snapshot, whoever wrote the status: the handler, or the reconciler in   *)
(* its place.                                                              *)
PublishedHasSnapshot ==
  \A b \in Batches : batch[b].status = "RESULT_PUBLISHED" => \E r \in snapshots : r.batch = b

(* What a batch claims to have done has been done, and once. The first     *)
(* part is the type invariant.                                             *)
ResultsBacked == TypeOK /\ CommittedOnce /\ PublishedHasSnapshot

(* The snapshot a shop shows is never replaced by one calculated from an   *)
(* older dataset, in whatever order two batches' publications arrive.      *)
CurrentMovesForward ==
  [][ current' # current /\ current # NoRun => current'.data >= current.data ]_vars

(* The reconciler fails a commit only when no newer work for the batch is  *)
(* waiting or running: between its look for newer work and its UPDATE the  *)
(* user may have confirmed the batch again.                                *)
NewerUnfinished(c) ==
  \/ Pending(c.work)
  \/ \E n \in DOMAIN jobs[c.work] :
       n > c.n /\ jobs[c.work][n].state \in {"created", "active", "retry"}
NewWorkNotFailed ==
  [][ rec # RecIdle /\ slot' = slot =>
        \A b \in Batches :
          batch[b].status # "FAILED" /\ batch'[b].status = "FAILED" => ~NewerUnfinished(rec)
    ]_vars

(* A batch shows COMMITTING, and a run QUEUED, only while there is work    *)
(* that can still settle it: through crashes, retries, late callbacks,     *)
(* failed projections, and newer work that makes the reconciler pass over  *)
(* a failed job.                                                           *)
WorkNeverForgotten ==
  /\ \A b \in Batches : batch[b].status = "COMMITTING" => Unfinished(Work("import.commit", b))
  /\ \A r \in Runs : run[r] = "QUEUED" => Unfinished(Work("calculation.run", r))

(* And that work does settle it.                                           *)
WorkSettles ==
  /\ \A b \in Batches : batch[b].status = "COMMITTING" ~> batch[b].status # "COMMITTING"
  /\ \A r \in Runs : run[r] = "QUEUED" ~> run[r] # "QUEUED"

(* The same of every status that shows work in progress, and all work of   *)
(* the batch.                                                              *)
InProgress(b) ==
  batch[b].status \in {"COMMITTING", "COMMITTED", "CALCULATING", "RESULT_PUBLISHING"}
NeverStranded ==
  \A b \in Batches : InProgress(b) =>
    \/ \E w \in Works : BatchOf(w) = b /\ Unfinished(w)
    \/ \E s \in Slots : slot[s] # Idle /\ BatchOf(slot[s].work) = b

=============================================================================
