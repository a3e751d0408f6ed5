------------------------------ MODULE Pipeline ------------------------------
(***************************************************************************)
(* From a confirmed import to a published result, for one shop:            *)
(*   import.commit -> calculation.requested -> calculation.run             *)
(*     -> report.auto-publish                                              *)
(* Each arrow is an outbox event written in the transaction that finishes  *)
(* the step before it.  A step of a handler is one database transaction;   *)
(* between two of them its process may die, its job may time out, and the  *)
(* API, another worker and the terminal reconciler may act.                *)
(*                                                                         *)
(* COMMITTED stands for COMMITTED_WITH_EXCLUSIONS too: no guard tells them *)
(* apart.  A run is RUNNING only inside its own transaction, and no code   *)
(* writes BLOCKED.                                                         *)
(***************************************************************************)
EXTENDS JobQueue

CONSTANTS Batches,      \* import batches of the shop
          Keys,         \* idempotency keys of confirmations
          SystemKey,    \* the key of an event the system names itself
          NoRun,
          MaxRates      \* bound: completed FX synchronisations

VARIABLES batch,        \* [Batches -> import_batch status and failure code]
          run,          \* [Runs -> calculation_run status, ABSENT before the insert]
          data,         \* how often the shop's dataset pointers moved: the current versions
          rates,        \* the latest FX synchronisation
          hard,         \* an incomplete slice nobody has acknowledged is current
          snapshots,    \* runs with a published_snapshot
          current,      \* the run behind shop_current_published_snapshot
          committed     \* history: batches whose facts were materialised

businessVars == <<batch, run, data, rates, hard, snapshots, current>>
vars == <<outbox, sent, jobs, slot, rec, faultVars, batch, run, data, rates, hard, snapshots, current,
          committed>>

(* A run is named by its input manifest.                                   *)
Runs == [batch : Batches, data : 1..Cardinality(Batches), rates : 0..MaxRates]

Codes == {"none", "capacity", "rejected", "hard", "exhausted"}
Committing == {"COMMITTING"}
Calculable == {"COMMITTED", "CALCULATING"}
Settled    == {"READY_FOR_REVIEW", "RESULT_PUBLISHED", "FAILED"}
BatchStatus == {"AWAITING_COMMIT_CONFIRMATION", "RESULT_PUBLISHING"}
                 \cup Committing \cup Calculable \cup Settled

ASSUME PipelineAssumption ==
  /\ IsFiniteSet(Batches)
  /\ SystemKey \notin Keys
  /\ NoRun \notin Runs
  /\ MaxRates \in Nat
  /\ \A s \in Scenarios : /\ s.batches \subseteq Batches /\ s.keys \subseteq Keys
                           /\ s.maxRates \in 0..MaxRates
                           /\ s.keysReused \in BOOLEAN

(* What is executed: a queue and the object its lock is taken on.          *)
Work(topic, obj) == [topic |-> topic, obj |-> obj]
Works == [topic : {"import.commit", "calculation.requested", "report.auto-publish"}, obj : Batches]
           \cup [topic : {"calculation.run"}, obj : Runs]

CommitEvent(b, key)  == [work |-> Work("import.commit", b), key |-> key]
RequestEvent(b, key) == [work |-> Work("calculation.requested", b), key |-> key]
RunEvent(r)          == [work |-> Work("calculation.run", r), key |-> SystemKey]
PublishEvent(r)      == [work |-> Work("report.auto-publish", r.batch), key |-> r]

BatchOf(w) == IF w.topic = "calculation.run" THEN w.obj.batch ELSE w.obj

Init ==
  /\ QueueInit(Works)
  /\ batch = [b \in Batches |-> [status |-> "AWAITING_COMMIT_CONFIRMATION", code |-> "none"]]
  /\ run = [r \in Runs |-> "ABSENT"]
  /\ data = 0 /\ rates = 0 /\ hard = FALSE
  /\ snapshots = {} /\ current = NoRun
  /\ committed = {}

-----------------------------------------------------------------------------
(* Every write of an import_batch row moves its updated_at, which the      *)
(* reconciler compares with completed_on: a failed job whose batch was     *)
(* written after it failed is overtaken.  Nothing compares the two of a    *)
(* job that is reconciled.                                                 *)
Overtaken(job) ==
  IF job.state = "failed" /\ ~job.marked THEN [job EXCEPT !.overtaken = TRUE] ELSE job
Overtake(b) ==
  jobs' = [w \in Works |-> IF BatchOf(w) = b
                           THEN [n \in DOMAIN jobs[w] |-> Overtaken(jobs[w][n])] ELSE jobs[w]]

SetBatch(b, status, code) ==
  /\ batch' = [batch EXCEPT ![b] = [status |-> status, code |-> code]]
  /\ Overtake(b)

SetBatchWhen(allowed, b, status, code) ==
  IF allowed THEN SetBatch(b, status, code) ELSE UNCHANGED <<batch, jobs>>

(* INSERT ... ON CONFLICT (topic, business_key) DO NOTHING.                *)
Enqueue(e) == outbox' = outbox \cup {e}

-----------------------------------------------------------------------------
(* The API and the upload preflight.                                       *)

(* confirmImportBatch; a batch that is already on its way is left alone.   *)
Confirm(b, key) ==
  /\ \/ batch[b].status = "AWAITING_COMMIT_CONFIRMATION"
     \/ batch[b].status = "FAILED" /\ batch[b].code = "capacity"
  /\ scenario.keysReused \/ CommitEvent(b, key) \notin outbox
  /\ SetBatch(b, "COMMITTING", "none")
  /\ Enqueue(CommitEvent(b, key))
  /\ UNCHANGED <<sent, slot, rec, run, data, rates, hard, snapshots, current, committed>>

(* confirmImportBatch once every incomplete slice has been acknowledged.   *)
Resume(b, key) ==
  /\ batch[b].status = "FAILED" /\ batch[b].code = "hard" /\ ~hard
  /\ scenario.keysReused \/ RequestEvent(b, key) \notin outbox
  /\ SetBatch(b, "COMMITTED", "none")
  /\ Enqueue(RequestEvent(b, key))
  /\ UNCHANGED <<sent, slot, rec, run, data, rates, hard, snapshots, current, committed>>

(* The last analysed file commits the batch without asking.                *)
Preflight(b) ==
  /\ batch[b].status = "AWAITING_COMMIT_CONFIRMATION"
  /\ SetBatch(b, "COMMITTING", "none")
  /\ Enqueue(CommitEvent(b, SystemKey))
  /\ UNCHANGED <<sent, slot, rec, run, data, rates, hard, snapshots, current, committed>>

(* PostgresImportService.acknowledge, for the last incomplete slice.       *)
AcknowledgeHard ==
  /\ hard
  /\ hard' = FALSE
  /\ UNCHANGED <<queueVars, batch, run, data, rates, snapshots, current, committed>>

SyncRates ==
  /\ rates < scenario.maxRates
  /\ rates' = rates + 1
  /\ UNCHANGED <<queueVars, batch, run, data, hard, snapshots, current, committed>>

-----------------------------------------------------------------------------
(* Failures any handler can meet.  The database refuses a step, or the     *)
(* projection of a final failure: then the callback throws, and the job    *)
(* fails without its business object having been told.                     *)
StepFails(s) ==
  /\ Executing(s) /\ slot[s].pc # "project"
  /\ Fault("refused")
  /\ TransientFailure(s)
  /\ UNCHANGED <<outbox, sent, jobs, rec, businessVars, committed>>

ProjectionFails(s) ==
  /\ slot[s].pc = "project"
  /\ Fault("refused")
  /\ Report(s, "failed")
  /\ UNCHANGED <<outbox, sent, jobs, rec, businessVars, committed>>

-----------------------------------------------------------------------------
(* import.commit: commitImportBatch, then persistSafeFailure or            *)
(* markImportCommitFailed.                                                 *)

AlreadyCommitted == Calculable \cup {"READY_FOR_REVIEW"}

\* Mutated form: a batch in any other state is committed again.
AnyBatch(b) == TRUE
MayCommit(b) == batch[b].status = "COMMITTING"

CommitWork(s) ==
  LET b == slot[s].work.obj
  IN  /\ slot[s].pc = "work" /\ slot[s].work.topic = "import.commit"
      /\ \/ /\ batch[b].status \in AlreadyCommitted
            /\ Report(s, "completed")
            /\ UNCHANGED <<outbox, jobs, businessVars, committed>>
         \/ /\ batch[b].status \notin AlreadyCommitted /\ MayCommit(b)
            /\ SetBatch(b, "COMMITTED", "none")
            /\ Enqueue(RequestEvent(b, SystemKey))
            /\ data' = data + 1 /\ hard' \in BOOLEAN
            /\ committed' = committed \cup {b}
            /\ Report(s, "completed")
            /\ UNCHANGED <<run, rates, snapshots, current>>
         \/ /\ MayCommit(b)
            /\ \E code \in {"capacity", "rejected"} : ProjectThen(s, "persist", "deadletter", code)
            /\ UNCHANGED <<outbox, jobs, businessVars, committed>>
         \/ /\ ~MayCommit(b) /\ batch[b].status \notin AlreadyCommitted
            /\ TransientFailure(s)
            /\ UNCHANGED <<outbox, jobs, businessVars, committed>>
      /\ UNCHANGED <<sent, rec>>

PersistSafeFailure(s) ==
  LET b == slot[s].work.obj
  IN  /\ slot[s].pc = "persist"
      /\ SetBatchWhen(batch[b].status = "COMMITTING", b, "FAILED", slot[s].code)
      /\ ProjectThen(s, "project", slot[s].result, slot[s].code)
      /\ UNCHANGED <<outbox, sent, rec, run, data, rates, hard, snapshots, current, committed>>

MarkImportCommitFailed(b, code) ==
  SetBatchWhen(batch[b].status = "COMMITTING", b, "FAILED", code)

-----------------------------------------------------------------------------
(* calculation.requested: requestCalculation inserts the run of the        *)
(* current inputs or finds it, and then, in a statement of its own, the    *)
(* batch is advanced.                                                      *)

CurrentRun(b) == [batch |-> b, data |-> data, rates |-> rates]

RequestWork(s) ==
  LET b == slot[s].work.obj
      r == CurrentRun(b)
  IN  /\ slot[s].pc = "work" /\ slot[s].work.topic = "calculation.requested"
      /\ \/ /\ ~hard
            /\ run' = [run EXCEPT ![r] = IF @ = "ABSENT" THEN "QUEUED" ELSE @]
            /\ IF run'[r] = "QUEUED" THEN Enqueue(RunEvent(r)) ELSE UNCHANGED outbox
            /\ Continue(s, "advance", r)
         \/ /\ hard
            /\ ProjectThen(s, "project", "deadletter", "hard")
            /\ UNCHANGED <<outbox, run>>
         \/ /\ ProjectThen(s, "project", "deadletter", "rejected")
            /\ UNCHANGED <<outbox, run>>
      /\ UNCHANGED <<sent, jobs, rec, batch, data, rates, hard, snapshots, current, committed>>

MayAdvance(b, r) == batch[b].status \in Calculable /\ run[r] = "QUEUED"

AdvanceBatch(s) ==
  LET b == slot[s].work.obj
  IN  /\ slot[s].pc = "advance"
      /\ SetBatchWhen(MayAdvance(b, slot[s].run), b, "CALCULATING", "none")
      /\ Report(s, "completed")
      /\ UNCHANGED <<outbox, sent, rec, run, data, rates, hard, snapshots, current, committed>>

MarkCalculationRequestFailed(b, code) ==
  SetBatchWhen(batch[b].status \in Calculable, b, "FAILED", code)

-----------------------------------------------------------------------------
(* calculation.run: calculateRun, one transaction; a run that is ready     *)
(* only has its publication enqueued again.                                *)

CalculateWork(s) ==
  LET r == slot[s].work.obj
  IN  /\ slot[s].pc = "work" /\ slot[s].work.topic = "calculation.run"
      /\ \/ /\ run[r] \in {"QUEUED", "READY"}
            /\ run' = [run EXCEPT ![r] = "READY"]
            /\ Enqueue(PublishEvent(r))
            /\ Report(s, "completed")
         \/ /\ run[r] # "READY"
            /\ ProjectThen(s, "project", "deadletter", "rejected")
            /\ UNCHANGED <<outbox, run>>
      /\ UNCHANGED <<sent, jobs, rec, batch, data, rates, hard, snapshots, current, committed>>

MarkCalculationRunFailed(r, code) ==
  IF run[r] = "QUEUED"
  THEN /\ run' = [run EXCEPT ![r] = "FAILED"]
       /\ SetBatchWhen(batch[r.batch].status \in Calculable, r.batch, "FAILED", code)
  ELSE UNCHANGED <<run, batch, jobs>>

-----------------------------------------------------------------------------
(* report.auto-publish: autoPublishCalculation announces, publishes in one *)
(* transaction, and records the outcome.  Authorisation may have been      *)
(* withdrawn: that is one of the failures of the first step.               *)

AnnouncePublish(s) ==
  /\ slot[s].pc = "work" /\ slot[s].work.topic = "report.auto-publish"
  /\ SetBatch(slot[s].work.obj, "RESULT_PUBLISHING", "none")
  /\ Continue(s, "publish", Job(slot[s]).event.key)
  /\ UNCHANGED <<outbox, sent, rec, run, data, rates, hard, snapshots, current, committed>>

\* Mutated form: the dataset versions are not compared.
PublishableWhenReady(r) == run[r] = "READY"
Publishable(r) == run[r] = "READY" /\ r.data = data

PublishSnapshot(s) ==
  LET r == slot[s].run
  IN  /\ slot[s].pc = "publish"
      /\ IF r \in snapshots \/ Publishable(r)
         THEN /\ snapshots' = snapshots \cup {r}
              /\ current' = IF r \in snapshots THEN current ELSE r
              /\ Continue(s, "published", r)
         ELSE /\ TransientFailure(s)
              /\ UNCHANGED <<snapshots, current>>
      /\ UNCHANGED <<outbox, sent, jobs, rec, batch, run, data, rates, hard, committed>>

RecordPublished(s) ==
  /\ slot[s].pc = "published"
  /\ SetBatch(slot[s].work.obj, "RESULT_PUBLISHED", "none")
  /\ Report(s, "completed")
  /\ UNCHANGED <<outbox, sent, rec, run, data, rates, hard, snapshots, current, committed>>

MarkAutoPublishFailed(b) ==
  SetBatchWhen(batch[b].status # "RESULT_PUBLISHED", b, "READY_FOR_REVIEW", "exhausted")

-----------------------------------------------------------------------------
(* A final failure is projected onto the business object by its handler.   *)
ProjectTerminal(s) ==
  LET e == slot[s].work
  IN  /\ slot[s].pc = "project"
      /\ CASE e.topic = "import.commit" ->
                MarkImportCommitFailed(e.obj, slot[s].code) /\ UNCHANGED run
           [] e.topic = "calculation.requested" ->
                MarkCalculationRequestFailed(e.obj, slot[s].code) /\ UNCHANGED run
           [] e.topic = "calculation.run" ->
                MarkCalculationRunFailed(e.obj, slot[s].code)
           [] e.topic = "report.auto-publish" ->
                MarkAutoPublishFailed(e.obj) /\ UNCHANGED run
      /\ Report(s, slot[s].result)
      /\ UNCHANGED <<outbox, sent, rec, data, rates, hard, snapshots, current, committed>>

=============================================================================
