--------------------------- MODULE PipelineProofs ---------------------------
(***************************************************************************)
(* What the pipeline of TerminalReconciler guarantees for every number of  *)
(* batches, workers, retries, faults and rates: its type invariant, that a *)
(* batch's facts are materialised at most once, that RESULT_PUBLISHED is   *)
(* backed by a snapshot (together ResultsBacked), and that the snapshot a  *)
(* shop shows only moves to newer datasets (CurrentMovesForward); that the *)
(* reconciler fails a batch only when no newer work for it is waiting or   *)
(* running (NewWorkNotFailed), and that no step leaves a batch COMMITTING  *)
(* or a run QUEUED with nothing that can still settle it                   *)
(* (WorkNeverForgotten).                                                   *)
(***************************************************************************)
EXTENDS TerminalReconciler, FiniteSetTheorems, TLAPS

(* Works and events, taken apart.                                           *)
LEMMA WorkFacts ==
  ASSUME NEW w \in Works
  PROVE  /\ w.topic \in {"import.commit", "calculation.requested", "calculation.run", "report.auto-publish"}
         /\ w.topic = "calculation.run" => w.obj \in Runs
         /\ w.topic # "calculation.run" => w.obj \in Batches
         /\ BatchOf(w) \in Batches
BY DEF Works, BatchOf, Runs

LEMMA EventFacts ==
  ASSUME NEW e \in Events
  PROVE  /\ e.work \in Works
         /\ e.work.topic = "report.auto-publish" => e.key \in Runs /\ e.work.obj = e.key.batch
BY DEF Events, CommitEvent, RequestEvent, RunEvent, PublishEvent, Work, Works, Runs

LEMMA KeyedEvents ==
  ASSUME NEW b \in Batches, NEW key \in Keys \cup {SystemKey}
  PROVE  /\ CommitEvent(b, key) \in Events /\ CommitEvent(b, key).work.topic = "import.commit"
         /\ RequestEvent(b, key) \in Events /\ BatchOf(RequestEvent(b, key).work) = b
BY DEF Events, CommitEvent, RequestEvent, Work, BatchOf

LEMMA RunEvents ==
  ASSUME NEW r \in Runs
  PROVE  /\ RunEvent(r) \in Events /\ BatchOf(RunEvent(r).work) = r.batch
         /\ PublishEvent(r) \in Events /\ BatchOf(PublishEvent(r).work) = r.batch
BY DEF Events, RunEvent, PublishEvent, Work, BatchOf

-----------------------------------------------------------------------------
(* The inductive invariant.                                                 *)

JobRow == [event : Events, state : JobStates, retries : Nat, overtaken : BOOLEAN, marked : BOOLEAN]

JobFits(w, job) ==
  /\ job.event \in outbox /\ job.event.work = w
  /\ job.retries <= RetryLimit
  /\ job.state = "retry" => job.retries < RetryLimit
  /\ job.overtaken \/ job.marked => job.state = "failed"

JobsOK ==
  /\ jobs \in [Works -> Seq(JobRow)]
  /\ \A w \in Works : \A n \in DOMAIN jobs[w] : JobFits(w, jobs[w][n])

EventsOK == outbox \subseteq Events /\ sent \subseteq outbox

(* What a callback has in hand belongs to its job: codes and runs by topic, *)
(* and whatever it is about to call published has its snapshot.             *)
SlotFits(v) ==
  v = Idle \/
    (/\ "pc" \in DOMAIN v /\ v.pc # "idle" /\ v.work \in Works /\ v.n \in DOMAIN jobs[v.work]
     /\ v.pc = "ack" => v.result \in {"completed", "deadletter", "failed"}
     /\ v.pc = "persist" => v.work.topic = "import.commit"
     /\ v.pc \in {"persist", "project"} =>
          /\ v.result \in {"deadletter", "failed"}
          /\ v.code \in Codes \ {"none"}
          /\ v.code = "capacity" => v.work.topic = "import.commit"
          /\ v.code = "hard" => v.work.topic # "import.commit"
     /\ v.pc = "advance" => v.work.topic = "calculation.requested" /\ v.run \in Runs
     /\ v.pc \in {"publish", "published"} =>
          v.work.topic = "report.auto-publish" /\ v.run \in Runs /\ v.run.batch = v.work.obj
     /\ v.pc = "published" => v.run \in snapshots)

SlotsOK == DOMAIN slot = Slots /\ \A s \in Slots : SlotFits(slot[s])

RecOK ==
  rec # RecIdle => /\ rec = [pc |-> rec.pc, work |-> rec.work, n |-> rec.n]
                   /\ rec.work \in Works /\ rec.n \in DOMAIN jobs[rec.work]
                   /\ Job(rec).state = "failed" /\ ~Job(rec).marked

RowsOK ==
  /\ batch \in [Batches -> [status : BatchStatus, code : Codes]]
  /\ run \in [Runs -> {"ABSENT", "QUEUED", "READY", "FAILED"}]
  /\ rates \in 0..MaxRates /\ hard \in BOOLEAN
  /\ snapshots \subseteq Runs /\ current \in snapshots \cup {NoRun}
  /\ committed \subseteq Batches /\ data = Cardinality(committed)
  /\ \A r \in snapshots : r.data <= data

(* A committed batch never waits for its commit again, and only a committed *)
(* one goes further.                                                        *)
Uncommitted == {"AWAITING_COMMIT_CONFIRMATION", "COMMITTING"}
BatchFits(b, status, code, done, shown) ==
  /\ b \in done => status \notin Uncommitted /\ ~(status = "FAILED" /\ code = "capacity")
  /\ status \notin Uncommitted \cup {"FAILED"} => b \in done
  /\ code = "hard" => b \in done
  /\ status = "RESULT_PUBLISHED" => \E r \in shown : r.batch = b
BatchesFit ==
  \A b \in Batches : BatchFits(b, batch[b].status, batch[b].code, committed, snapshots)
EventsFit  == \A e \in outbox : e.work.topic # "import.commit" => BatchOf(e.work) \in committed

PipelineInv ==
  /\ scenario \in Scenarios
  /\ EventsOK /\ JobsOK /\ SlotsOK /\ RecOK /\ RowsOK /\ BatchesFit /\ EventsFit

-----------------------------------------------------------------------------
(* What steps do to jobs.                                                   *)

(* Jobs stay where they are and what they are about.                        *)
JobsKept ==
  \A w \in Works : \A n \in DOMAIN jobs[w] :
    n \in DOMAIN jobs'[w] /\ jobs'[w][n].event = jobs[w][n].event

(* A failed job that nobody reconciled stays one.                           *)
FailedKept ==
  \A w \in Works : \A n \in DOMAIN jobs[w] :
    jobs[w][n].state = "failed" /\ ~jobs[w][n].marked
      => jobs'[w][n].state = "failed" /\ ~jobs'[w][n].marked

(* One job changes, the others do not.                                      *)
Edited(w, n, job) ==
  /\ \A v \in Works : DOMAIN jobs'[v] = DOMAIN jobs[v]
  /\ \A v \in Works : \A m \in DOMAIN jobs[v] :
       jobs'[v][m] = IF v = w /\ m = n THEN job ELSE jobs[v][m]

LEMMA EditJob ==
  ASSUME JobsOK, outbox \subseteq outbox', scenario' = scenario,
         NEW w \in Works, NEW n \in DOMAIN jobs[w], NEW job \in JobRow,
         jobs' = [jobs EXCEPT ![w][n] = job],
         job.event = jobs[w][n].event, job.retries <= RetryLimit,
         job.state = "retry" => job.retries < RetryLimit,
         job.overtaken \/ job.marked => job.state = "failed"
  PROVE  JobsOK' /\ JobsKept /\ Edited(w, n, job)
<1>1. jobs \in [Works -> Seq(JobRow)] /\ jobs[w] \in Seq(JobRow)
  BY DEF JobsOK
<1> DEFINE row == [jobs[w] EXCEPT ![n] = job]
<1>2. row \in Seq(JobRow) /\ DOMAIN row = DOMAIN jobs[w]
      /\ \A m \in DOMAIN jobs[w] : row[m] = IF m = n THEN job ELSE jobs[w][m]
  BY <1>1
<1>3. jobs' = [jobs EXCEPT ![w] = row]
  OBVIOUS
<1> HIDE DEF row
<1>4. jobs' \in [Works -> Seq(JobRow)]
  BY <1>1, <1>2, <1>3
<1>5. Edited(w, n, job)
  BY <1>1, <1>2, <1>3 DEF Edited
<1>6. RetryLimit' = RetryLimit
  BY DEF RetryLimit
<1>7. ASSUME NEW v \in Works, NEW m \in DOMAIN jobs'[v]
      PROVE  JobFits(v, jobs[v][m])'
  <2>1. m \in DOMAIN jobs[v] /\ JobFits(v, jobs[v][m])
    BY <1>5, <1>7 DEF Edited, JobsOK
  <2>2. jobs'[v][m] = IF v = w /\ m = n THEN job ELSE jobs[v][m]
    BY <1>5, <2>1 DEF Edited
  <2> QED BY <1>6, <2>1, <2>2 DEF JobFits
<1>8. JobsKept
  BY <1>5 DEF Edited, JobsKept
<1> QED BY <1>4, <1>5, <1>7, <1>8 DEF JobsOK

(* Such an edit keeps failed jobs unless it is the one it edits.            *)
LEMMA EditKeepsFailed ==
  ASSUME NEW w \in Works, NEW n \in DOMAIN jobs[w], NEW job, Edited(w, n, job),
         jobs[w][n].state = "failed" => job = jobs[w][n]
  PROVE  FailedKept
BY DEF Edited, FailedKept

(* A new job is the last of its queue and object.                           *)
Appended(e) ==
  /\ \A v \in Works \ {e.work} : jobs'[v] = jobs[v]
  /\ Len(jobs'[e.work]) = Len(jobs[e.work]) + 1
  /\ DOMAIN jobs'[e.work] = DOMAIN jobs[e.work] \cup {Len(jobs[e.work]) + 1}
  /\ \A n \in DOMAIN jobs[e.work] : jobs'[e.work][n] = jobs[e.work][n]
  /\ jobs'[e.work][Len(jobs[e.work]) + 1] = NewJob(e)

LEMMA SendJob ==
  ASSUME EventsOK, JobsOK, scenario \in Scenarios, outbox' = outbox, scenario' = scenario,
         NEW e \in outbox, Send(e)
  PROVE  JobsOK' /\ JobsKept /\ FailedKept /\ Appended(e)
<1> DEFINE w == e.work
           job == NewJob(e)
<1>0. RetryLimit \in Nat /\ RetryLimit' = RetryLimit
  BY JobQueueAssumption DEF RetryLimit
<1>1. jobs \in [Works -> Seq(JobRow)] /\ w \in Works /\ jobs[w] \in Seq(JobRow) /\ e \in Events
  BY EventFacts DEF JobsOK, EventsOK
<1>2. job \in JobRow
  BY <1>1 DEF NewJob, JobRow, JobStates
<1>3. JobFits(w, job)'
  BY <1>0 DEF NewJob, JobFits
<1>4. jobs' = [jobs EXCEPT ![w] = Append(jobs[w], job)]
  BY DEF Send
<1> HIDE DEF job, w
<1>5. Append(jobs[w], job) \in Seq(JobRow)
      /\ Len(Append(jobs[w], job)) = Len(jobs[w]) + 1
      /\ DOMAIN Append(jobs[w], job) = 1..(Len(jobs[w]) + 1) /\ DOMAIN jobs[w] = 1..Len(jobs[w])
      /\ Len(jobs[w]) \in Nat
      /\ Append(jobs[w], job)[Len(jobs[w]) + 1] = job
      /\ \A n \in 1..Len(jobs[w]) : Append(jobs[w], job)[n] = jobs[w][n]
  BY <1>1, <1>2
<1>6. jobs' \in [Works -> Seq(JobRow)]
  BY <1>1, <1>4, <1>5
<1>7. 1..(Len(jobs[w]) + 1) = 1..Len(jobs[w]) \cup {Len(jobs[w]) + 1}
  BY <1>5
<1>8. /\ \A v \in Works \ {w} : jobs'[v] = jobs[v]
      /\ jobs'[w] = Append(jobs[w], job)
  BY <1>1, <1>4
<1>9. Appended(e)
  BY <1>5, <1>7, <1>8 DEF Appended, w, job
<1>10. ASSUME NEW v \in Works, NEW n \in DOMAIN jobs'[v]
       PROVE  JobFits(v, jobs[v][n])'
  <2>1. CASE n \in DOMAIN jobs[v] /\ jobs'[v][n] = jobs[v][n]
    BY <1>0, <2>1 DEF JobsOK, JobFits
  <2>2. CASE v = w /\ jobs'[v][n] = job
    BY <1>3, <2>2
  <2> QED BY <1>5, <1>7, <1>8, <1>10, <2>1, <2>2
<1>11. JobsKept /\ FailedKept
  <2>1. \A v \in Works : \A n \in DOMAIN jobs[v] : n \in DOMAIN jobs'[v] /\ jobs'[v][n] = jobs[v][n]
    BY <1>5, <1>7, <1>8
  <2> QED BY <2>1 DEF JobsKept, FailedKept
<1> QED BY <1>6, <1>9, <1>10, <1>11 DEF JobsOK

(* A write of the batch row only marks jobs overtaken.                      *)
LEMMA OvertakeJobs ==
  ASSUME JobsOK, outbox \subseteq outbox', scenario' = scenario, NEW b, Overtake(b)
  PROVE  /\ JobsOK' /\ JobsKept /\ FailedKept
         /\ \A w \in Works : /\ DOMAIN jobs'[w] = DOMAIN jobs[w] /\ Len(jobs'[w]) = Len(jobs[w])
                             /\ \A n \in DOMAIN jobs[w] :
                                  jobs'[w][n] = IF BatchOf(w) = b THEN Overtaken(jobs[w][n]) ELSE jobs[w][n]
<1>0. RetryLimit' = RetryLimit
  BY DEF RetryLimit
<1>1. jobs \in [Works -> Seq(JobRow)]
  BY DEF JobsOK
<1>2. ASSUME NEW w \in Works, NEW n \in DOMAIN jobs[w]
      PROVE  /\ Overtaken(jobs[w][n]) \in JobRow
             /\ Overtaken(jobs[w][n]).event = jobs[w][n].event
             /\ Overtaken(jobs[w][n]).retries = jobs[w][n].retries
             /\ Overtaken(jobs[w][n]).overtaken => jobs[w][n].state = "failed"
             /\ Overtaken(jobs[w][n]).state = jobs[w][n].state
             /\ Overtaken(jobs[w][n]).marked = jobs[w][n].marked
  <2>1. jobs[w][n] \in JobRow /\ JobFits(w, jobs[w][n])
    BY <1>1, <1>2 DEF JobsOK
  <2> QED BY <2>1 DEF Overtaken, JobRow, JobFits
<1>3. ASSUME NEW w \in Works
      PROVE  /\ jobs'[w] \in Seq(JobRow) /\ DOMAIN jobs'[w] = DOMAIN jobs[w]
             /\ Len(jobs'[w]) = Len(jobs[w])
             /\ \A n \in DOMAIN jobs[w] :
                  jobs'[w][n] = IF BatchOf(w) = b THEN Overtaken(jobs[w][n]) ELSE jobs[w][n]
  <2>0. jobs[w] \in Seq(JobRow) /\ DOMAIN jobs[w] = 1..Len(jobs[w]) /\ Len(jobs[w]) \in Nat
    BY <1>1
  <2>1. CASE BatchOf(w) = b
    <3>1. jobs'[w] = [n \in DOMAIN jobs[w] |-> Overtaken(jobs[w][n])]
      BY <2>1 DEF Overtake
    <3>2. \A n \in 1..Len(jobs[w]) : Overtaken(jobs[w][n]) \in JobRow
      BY <1>2, <2>0
    <3>3. [n \in 1..Len(jobs[w]) |-> Overtaken(jobs[w][n])] \in Seq(JobRow)
          /\ Len([n \in 1..Len(jobs[w]) |-> Overtaken(jobs[w][n])]) = Len(jobs[w])
      BY <2>0, <3>2
    <3> QED BY <2>0, <2>1, <3>1, <3>3
  <2>2. CASE BatchOf(w) # b
    <3>1. jobs'[w] = jobs[w]
      BY <2>2 DEF Overtake
    <3> QED BY <2>0, <2>2, <3>1
  <2> QED BY <2>1, <2>2
<1>4. jobs' \in [Works -> Seq(JobRow)]
  <2>1. jobs' = [w \in Works |-> jobs'[w]]
    BY DEF Overtake
  <2> QED BY <1>3, <2>1
<1>5. ASSUME NEW w \in Works, NEW n \in DOMAIN jobs'[w]
      PROVE  JobFits(w, jobs[w][n])'
  <2>1. n \in DOMAIN jobs[w] /\ JobFits(w, jobs[w][n])
    BY <1>3, <1>5 DEF JobsOK
  <2>2. CASE BatchOf(w) = b
    BY <1>0, <1>2, <1>3, <2>1, <2>2 DEF JobFits
  <2>3. CASE BatchOf(w) # b
    BY <1>0, <1>3, <2>1, <2>3 DEF JobFits
  <2> QED BY <2>2, <2>3
<1>6. JobsKept /\ FailedKept
  BY <1>2, <1>3 DEF JobsKept, FailedKept
<1> QED BY <1>3, <1>4, <1>5, <1>6 DEF JobsOK

LEMMA SameJobs ==
  ASSUME JobsOK, outbox \subseteq outbox', scenario' = scenario, jobs' = jobs
  PROVE  JobsOK' /\ JobsKept /\ FailedKept
<1>1. RetryLimit' = RetryLimit
  BY DEF RetryLimit
<1> QED BY <1>1 DEF JobsOK, JobsKept, FailedKept, JobFits

-----------------------------------------------------------------------------
(* What steps do to slots, to the reconciler and to the rows.               *)

(* A callback's work and its job, whatever it is doing.                     *)
LEMMA SlotFacts ==
  ASSUME JobsOK, EventsOK, SlotsOK, EventsFit, NEW s \in Slots, slot[s] # Idle
  PROVE  /\ SlotFits(slot[s]) /\ slot[s].work \in Works /\ slot[s].n \in DOMAIN jobs[slot[s].work]
         /\ Job(slot[s]).event \in outbox /\ Job(slot[s]).event.work = slot[s].work
         /\ Job(slot[s]).event \in Events /\ Job(slot[s]) \in JobRow
         /\ BatchOf(slot[s].work) \in Batches
         /\ slot[s].work.topic # "import.commit" => BatchOf(slot[s].work) \in committed
<1>1. slot[s].work \in Works /\ slot[s].n \in DOMAIN jobs[slot[s].work] /\ SlotFits(slot[s])
  BY DEF SlotsOK, SlotFits
<1>2. jobs[slot[s].work] \in Seq(JobRow)
  BY <1>1 DEF JobsOK
<1>3. Job(slot[s]) \in JobRow
  BY <1>1, <1>2 DEF Job
<1>4. JobFits(slot[s].work, Job(slot[s]))
  BY <1>1 DEF JobsOK, Job
<1> QED BY <1>1, <1>3, <1>4, WorkFacts DEF JobFits, EventsOK, EventsFit

LEMMA SlotsKept ==
  ASSUME SlotsOK, JobsKept, snapshots \subseteq snapshots', slot' = slot
  PROVE  SlotsOK'
BY DEF SlotsOK, SlotFits, JobsKept

LEMMA SlotWritten ==
  ASSUME SlotsOK, JobsKept, snapshots \subseteq snapshots',
         NEW s \in Slots, NEW v, slot' = [slot EXCEPT ![s] = v], SlotFits(v)
  PROVE  SlotsOK'
<1>1. \A t \in Slots : slot'[t] = IF t = s THEN v ELSE slot[t]
  BY DEF SlotsOK
<1>2. DOMAIN slot' = Slots
  BY DEF SlotsOK
<1>3. \A t \in Slots : SlotFits(slot'[t])
  BY <1>1 DEF SlotsOK
<1>4. ASSUME NEW t \in Slots PROVE SlotFits(slot[t])'
  BY <1>3, <1>4 DEF SlotFits, JobsKept
<1> QED BY <1>2, <1>4 DEF SlotsOK

LEMMA SlotReports ==
  ASSUME SlotsOK, JobsKept, snapshots \subseteq snapshots',
         NEW s \in Slots, slot[s] # Idle,
         NEW result \in {"completed", "deadletter", "failed"}, Report(s, result)
  PROVE  SlotsOK'
<1> DEFINE v == [pc |-> "ack", work |-> slot[s].work, n |-> slot[s].n, result |-> result]
<1>1. slot' = [slot EXCEPT ![s] = v]
  BY DEF Report
<1>2. SlotFits(slot[s])
  BY DEF SlotsOK
<1>3. SlotFits(v)
  BY <1>2 DEF SlotFits
<1> HIDE DEF v
<1> QED BY <1>1, <1>3, SlotWritten

LEMMA SlotProjects ==
  ASSUME SlotsOK, JobsKept, snapshots \subseteq snapshots',
         NEW s \in Slots, slot[s] # Idle, NEW pc \in {"persist", "project"},
         NEW result \in {"deadletter", "failed"}, NEW code \in Codes \ {"none"},
         pc = "persist" => slot[s].work.topic = "import.commit",
         code = "capacity" => slot[s].work.topic = "import.commit",
         code = "hard" => slot[s].work.topic # "import.commit",
         ProjectThen(s, pc, result, code)
  PROVE  SlotsOK'
<1> DEFINE v == [pc |-> pc, work |-> slot[s].work, n |-> slot[s].n, last |-> slot[s].last,
                 result |-> result, code |-> code]
<1>1. slot' = [slot EXCEPT ![s] = v]
  BY DEF ProjectThen
<1>2. SlotFits(slot[s])
  BY DEF SlotsOK
<1>3. SlotFits(v)
  BY <1>2 DEF SlotFits
<1> HIDE DEF v
<1> QED BY <1>1, <1>3, SlotWritten

LEMMA SlotFailsTransiently ==
  ASSUME SlotsOK, JobsKept, snapshots \subseteq snapshots',
         NEW s \in Slots, slot[s] # Idle, TransientFailure(s)
  PROVE  SlotsOK'
<1>1. CASE slot[s].last
  BY <1>1, SlotProjects DEF TransientFailure, Codes
<1>2. CASE ~slot[s].last
  BY <1>2, SlotReports DEF TransientFailure
<1> QED BY <1>1, <1>2

LEMMA SlotFreed ==
  ASSUME SlotsOK, JobsKept, snapshots \subseteq snapshots',
         NEW s \in Slots, slot' = [slot EXCEPT ![s] = Idle]
  PROVE  SlotsOK'
BY SlotWritten DEF SlotFits

LEMMA RecKept ==
  ASSUME RecOK, JobsKept, FailedKept, rec' = rec
  PROVE  RecOK'
BY DEF RecOK, JobsKept, FailedKept, Job

LEMMA RecProjected ==
  ASSUME RecOK, JobsKept, FailedKept, rec # RecIdle, rec' = [rec EXCEPT !.pc = "record"]
  PROVE  RecOK'
<1>1. rec = [pc |-> rec.pc, work |-> rec.work, n |-> rec.n]
  BY DEF RecOK
<1>2. rec' = [pc |-> "record", work |-> rec.work, n |-> rec.n]
  BY <1>1
<1>3. rec'.work = rec.work /\ rec'.n = rec.n /\ rec' = [pc |-> rec'.pc, work |-> rec'.work, n |-> rec'.n]
  BY <1>2
<1> QED BY <1>3 DEF RecOK, JobsKept, FailedKept, Job

(* Steps that leave the business rows and the outbox alone.                 *)
LEMMA RowsKept ==
  ASSUME PipelineInv, scenario' = scenario, outbox' = outbox, sent' \subseteq outbox,
         UNCHANGED <<businessVars, committed>>
  PROVE  EventsOK' /\ RowsOK' /\ BatchesFit' /\ EventsFit' /\ scenario' \in Scenarios
<1>1. EventsOK'
  BY DEF PipelineInv, EventsOK
<1>2. RowsOK'
  BY DEF PipelineInv, RowsOK, businessVars
<1>3. BatchesFit' /\ EventsFit'
  BY DEF PipelineInv, BatchesFit, EventsFit, businessVars
<1> QED BY <1>1, <1>2, <1>3 DEF PipelineInv

(* A write of a batch row that agrees with what has been committed.         *)
LEMMA BatchWritten ==
  ASSUME PipelineInv, scenario' = scenario, outbox \subseteq outbox', snapshots' = snapshots,
         NEW b \in Batches, NEW status \in BatchStatus, NEW code \in Codes, SetBatch(b, status, code),
         committed \subseteq committed', committed' \subseteq committed \cup {b},
         BatchFits(b, status, code, committed', snapshots)
  PROVE  /\ JobsOK' /\ JobsKept /\ FailedKept /\ BatchesFit'
         /\ batch' \in [Batches -> [status : BatchStatus, code : Codes]]
<1> DEFINE row == [status |-> status, code |-> code]
<1>1. JobsOK' /\ JobsKept /\ FailedKept
  BY OvertakeJobs DEF SetBatch, PipelineInv
<1>2. batch \in [Batches -> [status : BatchStatus, code : Codes]] /\ row \in [status : BatchStatus, code : Codes]
  BY DEF PipelineInv, RowsOK
<1>3. batch' = [batch EXCEPT ![b] = row]
  BY DEF SetBatch
<1>4. row.status = status /\ row.code = code
  OBVIOUS
<1> HIDE DEF row
<1>5. batch' \in [Batches -> [status : BatchStatus, code : Codes]]
  BY <1>2, <1>3
<1>6. ASSUME NEW c \in Batches
      PROVE  BatchFits(c, batch'[c].status, batch'[c].code, committed', snapshots')
  <2>1. CASE c = b
    BY <1>2, <1>3, <1>4, <2>1
  <2>2. CASE c # b
    <3>1. batch'[c] = batch[c] /\ (c \in committed' <=> c \in committed)
      BY <1>2, <1>3, <2>2
    <3>2. BatchFits(c, batch[c].status, batch[c].code, committed, snapshots)
      BY DEF PipelineInv, BatchesFit
    <3> QED BY <3>1, <3>2 DEF BatchFits
  <2> QED BY <2>1, <2>2
<1> QED BY <1>1, <1>5, <1>6 DEF BatchesFit

LEMMA BatchWrittenWhen ==
  ASSUME PipelineInv, scenario' = scenario, outbox \subseteq outbox', snapshots' = snapshots,
         committed' = committed,
         NEW b \in Batches, NEW status \in BatchStatus, NEW code \in Codes,
         NEW allowed, SetBatchWhen(allowed, b, status, code),
         allowed => BatchFits(b, status, code, committed, snapshots)
  PROVE  /\ JobsOK' /\ JobsKept /\ FailedKept /\ BatchesFit'
         /\ batch' \in [Batches -> [status : BatchStatus, code : Codes]]
<1>1. CASE allowed
  BY <1>1, BatchWritten DEF SetBatchWhen
<1>2. CASE ~allowed
  <2>1. batch' = batch /\ jobs' = jobs
    BY <1>2 DEF SetBatchWhen
  <2> QED BY <2>1, SameJobs DEF PipelineInv, RowsOK, BatchesFit
<1> QED BY <1>1, <1>2

(* Of the rows only the batch is written, and its run perhaps.              *)
LEMMA OtherRowsKept ==
  ASSUME PipelineInv, UNCHANGED <<data, rates, hard, snapshots, current, committed>>,
         batch' \in [Batches -> [status : BatchStatus, code : Codes]],
         run' \in [Runs -> {"ABSENT", "QUEUED", "READY", "FAILED"}]
  PROVE  RowsOK'
BY DEF PipelineInv, RowsOK

LEMMA EventsUntouched ==
  ASSUME PipelineInv, outbox' = outbox, sent' = sent, committed \subseteq committed', scenario' = scenario
  PROVE  EventsOK' /\ EventsFit' /\ scenario' \in Scenarios
BY DEF PipelineInv, EventsOK, EventsFit

LEMMA EventEnqueued ==
  ASSUME PipelineInv, NEW e \in Events, Enqueue(e), sent' = sent, committed \subseteq committed',
         scenario' = scenario,
         e.work.topic # "import.commit" => BatchOf(e.work) \in committed'
  PROVE  EventsOK' /\ EventsFit' /\ scenario' \in Scenarios /\ outbox \subseteq outbox'
BY DEF PipelineInv, EventsOK, EventsFit, Enqueue

-----------------------------------------------------------------------------
(* The API.                                                                 *)

LEMMA ConfirmStep ==
  ASSUME PipelineInv, NEW b \in scenario.batches, NEW key \in scenario.keys, Confirm(b, key),
         scenario' = scenario
  PROVE  PipelineInv'
<1>1. b \in Batches /\ key \in Keys
  BY PipelineAssumption DEF PipelineInv
<1>2. CommitEvent(b, key) \in Events /\ CommitEvent(b, key).work.topic = "import.commit"
  BY <1>1, KeyedEvents
<1>3. EventsOK' /\ EventsFit' /\ scenario' \in Scenarios /\ outbox \subseteq outbox'
  BY <1>2, EventEnqueued DEF Confirm
<1>4. BatchFits(b, "COMMITTING", "none", committed', snapshots)
  BY <1>1 DEF Confirm, PipelineInv, BatchesFit, BatchFits, Uncommitted
<1>5. JobsOK' /\ JobsKept /\ FailedKept /\ BatchesFit'
      /\ batch' \in [Batches -> [status : BatchStatus, code : Codes]]
  BY <1>1, <1>3, <1>4, BatchWritten DEF Confirm, BatchStatus, Committing, Codes
<1>6. RowsOK'
  BY <1>5, OtherRowsKept DEF Confirm, PipelineInv, RowsOK
<1>7. SlotsOK' /\ RecOK'
  BY <1>5, SlotsKept, RecKept DEF Confirm, PipelineInv
<1> QED BY <1>3, <1>5, <1>6, <1>7 DEF PipelineInv

LEMMA PreflightStep ==
  ASSUME PipelineInv, NEW b \in scenario.batches, Preflight(b), scenario' = scenario
  PROVE  PipelineInv'
<1>1. b \in Batches
  BY PipelineAssumption DEF PipelineInv
<1>2. CommitEvent(b, SystemKey) \in Events /\ CommitEvent(b, SystemKey).work.topic = "import.commit"
  BY <1>1, KeyedEvents
<1>3. EventsOK' /\ EventsFit' /\ scenario' \in Scenarios /\ outbox \subseteq outbox'
  BY <1>2, EventEnqueued DEF Preflight
<1>4. BatchFits(b, "COMMITTING", "none", committed', snapshots)
  BY <1>1 DEF Preflight, PipelineInv, BatchesFit, BatchFits, Uncommitted
<1>5. JobsOK' /\ JobsKept /\ FailedKept /\ BatchesFit'
      /\ batch' \in [Batches -> [status : BatchStatus, code : Codes]]
  BY <1>1, <1>3, <1>4, BatchWritten DEF Preflight, BatchStatus, Committing, Codes
<1>6. RowsOK'
  BY <1>5, OtherRowsKept DEF Preflight, PipelineInv, RowsOK
<1>7. SlotsOK' /\ RecOK'
  BY <1>5, SlotsKept, RecKept DEF Preflight, PipelineInv
<1> QED BY <1>3, <1>5, <1>6, <1>7 DEF PipelineInv

LEMMA ResumeStep ==
  ASSUME PipelineInv, NEW b \in scenario.batches, NEW key \in scenario.keys, Resume(b, key),
         scenario' = scenario
  PROVE  PipelineInv'
<1>1. b \in Batches /\ key \in Keys /\ b \in committed
  BY PipelineAssumption DEF PipelineInv, Resume, BatchesFit, BatchFits
<1>2. RequestEvent(b, key) \in Events /\ BatchOf(RequestEvent(b, key).work) = b
  BY <1>1, KeyedEvents
<1>3. EventsOK' /\ EventsFit' /\ scenario' \in Scenarios /\ outbox \subseteq outbox'
  BY <1>1, <1>2, EventEnqueued DEF Resume
<1>4. BatchFits(b, "COMMITTED", "none", committed', snapshots)
  BY <1>1 DEF Resume, BatchFits, Uncommitted
<1>5. JobsOK' /\ JobsKept /\ FailedKept /\ BatchesFit'
      /\ batch' \in [Batches -> [status : BatchStatus, code : Codes]]
  BY <1>1, <1>3, <1>4, BatchWritten DEF Resume, BatchStatus, Calculable, Codes
<1>6. RowsOK'
  BY <1>5, OtherRowsKept DEF Resume, PipelineInv, RowsOK
<1>7. SlotsOK' /\ RecOK'
  BY <1>5, SlotsKept, RecKept DEF Resume, PipelineInv
<1> QED BY <1>3, <1>5, <1>6, <1>7 DEF PipelineInv

LEMMA AcknowledgeStep ==
  ASSUME PipelineInv, AcknowledgeHard \/ SyncRates, scenario' = scenario
  PROVE  PipelineInv'
<1>0. UNCHANGED <<queueVars, batch, run, data, snapshots, current, committed>>
  BY DEF AcknowledgeHard, SyncRates
<1>1. JobsOK' /\ JobsKept /\ FailedKept
  BY <1>0, SameJobs DEF PipelineInv, queueVars
<1>2. SlotsOK' /\ RecOK'
  BY <1>0, <1>1, SlotsKept, RecKept DEF PipelineInv, queueVars
<1>3. rates' \in 0..MaxRates /\ hard' \in BOOLEAN
  <2>1. rates \in 0..MaxRates /\ hard \in BOOLEAN /\ scenario.maxRates \in 0..MaxRates /\ MaxRates \in Nat
    BY PipelineAssumption DEF PipelineInv, RowsOK
  <2>2. CASE AcknowledgeHard
    BY <2>1, <2>2 DEF AcknowledgeHard
  <2>3. CASE SyncRates
    BY <2>1, <2>3 DEF SyncRates
  <2> QED BY <2>2, <2>3
<1>4. RowsOK' /\ BatchesFit'
  BY <1>0, <1>3 DEF PipelineInv, RowsOK, BatchesFit
<1>5. EventsOK' /\ EventsFit' /\ scenario' \in Scenarios
  BY <1>0, EventsUntouched DEF queueVars
<1> QED BY <1>1, <1>2, <1>4, <1>5 DEF PipelineInv

-----------------------------------------------------------------------------
(* The queue.                                                               *)

LEMMA QueueKeepsRows ==
  ASSUME PipelineInv, scenario' = scenario, outbox' = outbox, sent' \subseteq outbox,
         UNCHANGED <<businessVars, committed>>, JobsOK', JobsKept, SlotsOK', RecOK'
  PROVE  PipelineInv'
BY RowsKept DEF PipelineInv

LEMMA DispatchStep ==
  ASSUME PipelineInv, NEW e \in outbox, Dispatch(e) \/ DispatchUnmarked(e),
         UNCHANGED <<scenario, businessVars, committed>>
  PROVE  PipelineInv'
<1>1. /\ Send(e) /\ outbox' = outbox /\ slot' = slot /\ rec' = rec
      /\ sent' = sent \cup {e} \/ sent' = sent
  BY DEF Dispatch, DispatchUnmarked
<1>2. JobsOK' /\ JobsKept /\ FailedKept
  BY <1>1, SendJob DEF PipelineInv
<1>3. SlotsOK' /\ RecOK'
  BY <1>1, <1>2, SlotsKept, RecKept DEF PipelineInv, businessVars
<1> QED BY <1>1, <1>2, <1>3, QueueKeepsRows DEF PipelineInv, EventsOK

(* One job is edited, within what its row may hold.                         *)
JobEdit(w, n, job) ==
  /\ job \in JobRow /\ job.event = jobs[w][n].event /\ job.retries <= RetryLimit
  /\ job.state = "retry" => job.retries < RetryLimit
  /\ job.overtaken \/ job.marked => job.state = "failed"

LEMMA JobFacts ==
  ASSUME PipelineInv, NEW w \in Works, NEW n \in DOMAIN jobs[w]
  PROVE  /\ jobs[w][n] \in JobRow /\ JobFits(w, jobs[w][n]) /\ RetryLimit \in Nat
         /\ jobs[w] \in Seq(JobRow)
BY JobQueueAssumption DEF PipelineInv, JobsOK, RetryLimit

LEMMA AttemptEdits ==
  ASSUME NEW job \in JobRow, RetryLimit \in Nat, job.retries <= RetryLimit,
         ~job.overtaken, ~job.marked,
         NEW end \in {FailAttempt(job), [job EXCEPT !.state = "completed", !.retries = 0],
                     [job EXCEPT !.state = "failed", !.retries = 0]}
  PROVE  /\ end \in JobRow /\ end.event = job.event /\ end.retries <= RetryLimit
         /\ ~end.overtaken /\ ~end.marked
         /\ end.state = "retry" => end.retries < RetryLimit
<1> DEFINE completed == [job EXCEPT !.state = "completed", !.retries = 0]
           failed    == [job EXCEPT !.state = "failed", !.retries = 0]
           retry     == [job EXCEPT !.state = "retry"]
<1>1. completed \in JobRow /\ failed \in JobRow /\ retry \in JobRow
  BY DEF JobRow, JobStates
<1>2. completed.event = job.event /\ failed.event = job.event /\ retry.event = job.event
  BY DEF JobRow
<1>3. completed.retries = 0 /\ failed.retries = 0 /\ retry.retries = job.retries /\ job.retries \in Nat
  BY DEF JobRow
<1>4. completed.overtaken = job.overtaken /\ failed.overtaken = job.overtaken
      /\ retry.overtaken = job.overtaken
  BY DEF JobRow
<1>5. completed.marked = job.marked /\ failed.marked = job.marked /\ retry.marked = job.marked
  BY DEF JobRow
<1>6. completed.state = "completed" /\ failed.state = "failed" /\ retry.state = "retry"
  BY DEF JobRow
<1>7. end = completed \/ end = failed \/ (end = retry /\ job.retries < RetryLimit)
  BY DEF FailAttempt
<1> HIDE DEF completed, failed, retry
<1> QED BY <1>1, <1>2, <1>3, <1>4, <1>5, <1>6, <1>7

LEMMA ActiveJob ==
  ASSUME PipelineInv, NEW w \in Works, NEW n \in DOMAIN jobs[w], jobs[w][n].state = "active"
  PROVE  ~jobs[w][n].overtaken /\ ~jobs[w][n].marked
BY JobFacts DEF JobFits

LEMMA FailAttemptEdits ==
  ASSUME PipelineInv, NEW w \in Works, NEW n \in DOMAIN jobs[w], jobs[w][n].state = "active"
  PROVE  JobEdit(w, n, FailAttempt(jobs[w][n]))
<1>1. jobs[w][n] \in JobRow /\ jobs[w][n].retries <= RetryLimit /\ RetryLimit \in Nat
      /\ ~jobs[w][n].overtaken /\ ~jobs[w][n].marked
  BY JobFacts, ActiveJob DEF JobFits
<1> QED BY <1>1, AttemptEdits DEF JobEdit

LEMMA AcknowledgedEdits ==
  ASSUME PipelineInv, NEW w \in Works, NEW n \in DOMAIN jobs[w],
         NEW result \in {"completed", "deadletter", "failed"}
  PROVE  /\ JobEdit(w, n, Acknowledged(jobs[w][n], result))
         /\ jobs[w][n].state = "failed" => Acknowledged(jobs[w][n], result) = jobs[w][n]
<1>1. jobs[w][n] \in JobRow /\ JobFits(w, jobs[w][n]) /\ RetryLimit \in Nat
  BY JobFacts
<1>2. CASE jobs[w][n].state # "active"
  BY <1>1, <1>2 DEF Acknowledged, JobEdit, JobFits
<1>3. CASE jobs[w][n].state = "active"
  <2>1. Acknowledged(jobs[w][n], result) \in
          {FailAttempt(jobs[w][n]), [jobs[w][n] EXCEPT !.state = "completed", !.retries = 0],
           [jobs[w][n] EXCEPT !.state = "failed", !.retries = 0]}
    <3>1. CASE result = "completed"
      BY <1>3, <3>1 DEF Acknowledged
    <3>2. CASE result = "deadletter"
      BY <1>3, <3>2 DEF Acknowledged
    <3>3. CASE result = "failed"
      BY <1>3, <3>3 DEF Acknowledged
    <3> QED BY <3>1, <3>2, <3>3
  <2> QED BY <1>1, <1>3, <2>1, ActiveJob, AttemptEdits DEF JobEdit, JobFits
<1> QED BY <1>2, <1>3

(* A step that edits one job that has not failed.                           *)
LEMMA JobEdited ==
  ASSUME PipelineInv, scenario' = scenario, outbox' = outbox, sent' = sent, rec' = rec,
         UNCHANGED <<businessVars, committed>>,
         NEW w \in Works, NEW n \in DOMAIN jobs[w], NEW job, JobEdit(w, n, job),
         jobs' = [jobs EXCEPT ![w][n] = job],
         jobs[w][n].state = "failed" => job = jobs[w][n]
  PROVE  /\ JobsKept /\ FailedKept /\ Edited(w, n, job) /\ JobsOK'
         /\ SlotsOK' => PipelineInv'
<1>1. JobsOK' /\ JobsKept /\ Edited(w, n, job)
  BY EditJob DEF JobEdit, PipelineInv
<1>2. FailedKept
  BY <1>1, EditKeepsFailed
<1>3. RecOK'
  BY <1>1, <1>2, RecKept DEF PipelineInv
<1> QED BY <1>1, <1>2, <1>3, QueueKeepsRows DEF PipelineInv, EventsOK

LEMMA FetchStep ==
  ASSUME PipelineInv, NEW s \in Slots, NEW w \in Works, NEW n \in DOMAIN jobs[w], Fetch(s, w, n),
         UNCHANGED <<faultVars, businessVars, committed>>
  PROVE  PipelineInv'
<1> DEFINE job == jobs[w][n]
           retries == IF job.state = "retry" THEN job.retries + 1 ELSE job.retries
           active == [job EXCEPT !.state = "active", !.retries = retries]
           v == [pc |-> "fetched", work |-> w, n |-> n, last |-> retries >= RetryLimit]
<1>1. job \in JobRow /\ JobFits(w, job) /\ RetryLimit \in Nat
  BY JobFacts
<1>2. job.retries \in Nat /\ retries \in Nat /\ retries <= RetryLimit
  BY <1>1 DEF JobRow, JobFits
<1>3. /\ job.state \in {"created", "retry"}
      /\ jobs' = [jobs EXCEPT ![w][n] = active]
      /\ slot' = [slot EXCEPT ![s] = v]
      /\ UNCHANGED <<outbox, sent, rec>>
  BY DEF Fetch
<1>4. JobEdit(w, n, active)
  <2>1. active \in JobRow
    BY <1>1, <1>2 DEF JobRow, JobStates
  <2>2. active.event = job.event /\ active.retries = retries /\ active.state = "active"
    BY <1>1 DEF JobRow
  <2>3. active.overtaken = job.overtaken /\ active.marked = job.marked
    BY <1>1 DEF JobRow
  <2>4. ~job.overtaken /\ ~job.marked
    BY <1>1, <1>3 DEF JobFits
  <2> QED BY <1>2, <2>1, <2>2, <2>3, <2>4 DEF JobEdit
<1>5. SlotFits(v)
  BY DEF SlotFits
<1> HIDE DEF v, active
<1>6. JobsKept /\ (SlotsOK' => PipelineInv')
  BY <1>3, <1>4, JobEdited DEF faultVars
<1>7. SlotsOK'
  BY <1>3, <1>5, <1>6, SlotWritten DEF PipelineInv, businessVars
<1> QED BY <1>6, <1>7

LEMMA ExpireStep ==
  ASSUME PipelineInv, NEW w \in Works, NEW n \in DOMAIN jobs[w], Expire(w, n) \/ ExpireLate(w, n),
         UNCHANGED <<scenario, businessVars, committed>>
  PROVE  PipelineInv'
<1>1. /\ jobs[w][n].state = "active"
      /\ jobs' = [jobs EXCEPT ![w][n] = FailAttempt(jobs[w][n])]
      /\ UNCHANGED <<outbox, sent, slot, rec>>
  BY DEF Expire, ExpireLate
<1>2. JobEdit(w, n, FailAttempt(jobs[w][n]))
  BY <1>1, FailAttemptEdits
<1>3. JobsKept /\ (SlotsOK' => PipelineInv')
  BY <1>1, <1>2, JobEdited
<1>4. SlotsOK'
  BY <1>1, <1>3, SlotsKept DEF PipelineInv, businessVars
<1> QED BY <1>3, <1>4

LEMMA AckStep ==
  ASSUME PipelineInv, NEW s \in Slots, Ack(s), UNCHANGED <<faultVars, businessVars, committed>>
  PROVE  PipelineInv'
<1>1. slot[s] # Idle /\ slot[s].pc = "ack"
  BY DEF Ack, Idle
<1>2. SlotFits(slot[s]) /\ slot[s].work \in Works /\ slot[s].n \in DOMAIN jobs[slot[s].work]
  BY <1>1, SlotFacts DEF PipelineInv
<1>3. slot[s].result \in {"completed", "deadletter", "failed"}
  BY <1>1, <1>2 DEF SlotFits
<1> DEFINE job == jobs[slot[s].work][slot[s].n]
           acked == Acknowledged(job, slot[s].result)
<1>4. JobEdit(slot[s].work, slot[s].n, acked) /\ (job.state = "failed" => acked = job)
  BY <1>2, <1>3, AcknowledgedEdits
<1>5. /\ jobs' = [jobs EXCEPT ![slot[s].work][slot[s].n] = acked]
      /\ slot' = [slot EXCEPT ![s] = Idle]
      /\ UNCHANGED <<outbox, sent, rec>>
  BY DEF Ack
<1> HIDE DEF acked
<1>6. JobsKept /\ (SlotsOK' => PipelineInv')
  BY <1>2, <1>4, <1>5, JobEdited DEF faultVars
<1>7. SlotsOK'
  BY <1>5, <1>6, SlotFreed DEF PipelineInv, businessVars
<1> QED BY <1>6, <1>7

(* Steps of the queue that touch no job.                                    *)
LEMMA NoJobStep ==
  ASSUME PipelineInv, UNCHANGED <<outbox, sent, jobs, rec, scenario, businessVars, committed>>,
         JobsKept => SlotsOK'
  PROVE  PipelineInv'
<1>1. JobsOK' /\ JobsKept /\ FailedKept
  BY SameJobs DEF PipelineInv
<1>2. RecOK'
  BY <1>1, RecKept DEF PipelineInv
<1> QED BY <1>1, <1>2, QueueKeepsRows DEF PipelineInv, EventsOK

LEMMA BeginStep ==
  ASSUME PipelineInv, NEW s \in Slots, Begin(s), UNCHANGED <<faultVars, businessVars, committed>>
  PROVE  PipelineInv'
<1>1. slot[s] # Idle /\ slot[s].pc = "fetched" /\ UNCHANGED <<outbox, sent, jobs, rec>>
      /\ slot' = [slot EXCEPT ![s] = IF Job(slot[s]).state = "active"
                                     THEN [slot[s] EXCEPT !.pc = "work"] ELSE Idle]
  BY DEF Begin, Idle
<1>2. SlotFits(slot[s])
  BY DEF PipelineInv, SlotsOK
<1>3. SlotsOK /\ snapshots' = snapshots
  BY DEF PipelineInv, businessVars
<1>4. CASE Job(slot[s]).state # "active"
  <2>1. slot' = [slot EXCEPT ![s] = Idle]
    BY <1>1, <1>4
  <2> QED BY <1>1, <1>3, <2>1, SlotFreed, NoJobStep DEF faultVars
<1>5. CASE Job(slot[s]).state = "active"
  <2> DEFINE v == [slot[s] EXCEPT !.pc = "work"]
  <2>1. slot' = [slot EXCEPT ![s] = v]
    BY <1>1, <1>5
  <2>2. "pc" \in DOMAIN v /\ v.pc = "work" /\ v.work = slot[s].work /\ v.n = slot[s].n
    BY <1>1, <1>2 DEF SlotFits
  <2>3. SlotFits(v)
    BY <1>1, <1>2, <2>2 DEF SlotFits
  <2> HIDE DEF v
  <2> QED BY <1>1, <1>3, <2>1, <2>3, SlotWritten, NoJobStep DEF faultVars
<1> QED BY <1>4, <1>5

LEMMA CrashStep ==
  ASSUME PipelineInv, NEW s \in Slots, Crash(s), UNCHANGED <<scenario, businessVars, committed>>
  PROVE  PipelineInv'
<1>1. UNCHANGED <<outbox, sent, jobs, rec>> /\ slot' = [slot EXCEPT ![s] = Idle]
  BY DEF Crash
<1>2. JobsKept => SlotsOK'
  BY <1>1, SlotFreed DEF PipelineInv, businessVars
<1> QED BY <1>1, <1>2, NoJobStep

-----------------------------------------------------------------------------
(* The handlers.                                                            *)

(* Steps that write the batch row, perhaps its run, and nothing else of the *)
(* business.                                                                *)
LEMMA BatchOnlyStep ==
  ASSUME PipelineInv,
         UNCHANGED <<outbox, sent, data, rates, hard, snapshots, current, committed, scenario>>,
         run' \in [Runs -> {"ABSENT", "QUEUED", "READY", "FAILED"}],
         NEW b \in Batches, NEW status \in BatchStatus, NEW code \in Codes,
         NEW allowed, SetBatchWhen(allowed, b, status, code),
         allowed => BatchFits(b, status, code, committed, snapshots),
         JobsKept /\ FailedKept => SlotsOK' /\ RecOK'
  PROVE  PipelineInv'
<1>1. /\ JobsOK' /\ JobsKept /\ FailedKept /\ BatchesFit'
      /\ batch' \in [Batches -> [status : BatchStatus, code : Codes]]
  BY BatchWrittenWhen
<1>2. RowsOK'
  BY <1>1, OtherRowsKept
<1>3. EventsOK' /\ EventsFit' /\ scenario' \in Scenarios
  BY EventsUntouched
<1> QED BY <1>1, <1>2, <1>3 DEF PipelineInv

(* Steps that write no batch row.                                           *)
LEMMA JobsUntouched ==
  ASSUME PipelineInv, outbox \subseteq outbox', jobs' = jobs, rec' = rec, scenario' = scenario
  PROVE  JobsOK' /\ JobsKept /\ FailedKept /\ RecOK'
BY SameJobs, RecKept DEF PipelineInv

LEMMA RunTyped ==
  ASSUME PipelineInv
  PROVE  run \in [Runs -> {"ABSENT", "QUEUED", "READY", "FAILED"}]
BY DEF PipelineInv, RowsOK

LEMMA BatchRow ==
  ASSUME PipelineInv, NEW b \in Batches
  PROVE  /\ BatchFits(b, batch[b].status, batch[b].code, committed, snapshots)
         /\ batch[b].status \in BatchStatus /\ batch[b].code \in Codes
BY DEF PipelineInv, BatchesFit, RowsOK

LEMMA CommitStep ==
  ASSUME PipelineInv, NEW s \in Slots, CommitWork(s), UNCHANGED faultVars
  PROVE  PipelineInv'
<1> DEFINE b == slot[s].work.obj
<1>0. scenario' = scenario /\ sent' = sent /\ rec' = rec
  BY DEF faultVars, CommitWork
<1>1. slot[s] # Idle /\ slot[s].work.topic = "import.commit" /\ slot[s].work \in Works /\ b \in Batches
  BY SlotFacts, WorkFacts DEF CommitWork, Idle, PipelineInv
<1>2. CASE MayCommit(b) /\ SetBatch(b, "COMMITTED", "none") /\ Enqueue(RequestEvent(b, SystemKey))
           /\ data' = data + 1 /\ hard' \in BOOLEAN /\ committed' = committed \cup {b}
           /\ Report(s, "completed") /\ UNCHANGED <<run, rates, snapshots, current>>
  <2>1. b \notin committed
    BY <1>1, <1>2, BatchRow DEF BatchFits, MayCommit, Uncommitted
  <2>2. RequestEvent(b, SystemKey) \in Events /\ BatchOf(RequestEvent(b, SystemKey).work) = b
    BY <1>1, KeyedEvents
  <2>3. EventsOK' /\ EventsFit' /\ scenario' \in Scenarios /\ outbox \subseteq outbox'
    BY <1>0, <1>2, <2>2, EventEnqueued
  <2>4. BatchFits(b, "COMMITTED", "none", committed', snapshots)
    BY <1>2 DEF BatchFits, Uncommitted
  <2>5. /\ JobsOK' /\ JobsKept /\ FailedKept /\ BatchesFit'
        /\ batch' \in [Batches -> [status : BatchStatus, code : Codes]]
    BY <1>0, <1>1, <1>2, <2>3, <2>4, BatchWritten DEF BatchStatus, Calculable, Codes
  <2>6. data' = Cardinality(committed') /\ data \in Nat
    <3>1. IsFiniteSet(committed) /\ data = Cardinality(committed)
      BY PipelineAssumption, FS_Subset DEF PipelineInv, RowsOK
    <3>2. Cardinality(committed \cup {b}) = Cardinality(committed) + 1
      BY <2>1, <3>1, FS_AddElement
    <3> QED BY <1>2, <3>1, <3>2, FS_CardinalityType
  <2>7. RowsOK'
    <3>1. \A r \in snapshots' : r.data \in Nat /\ r.data <= data
      BY <1>2 DEF PipelineInv, RowsOK, Runs
    <3>2. \A r \in snapshots' : r.data <= data'
      BY <1>2, <2>6, <3>1
    <3> QED BY <1>1, <1>2, <2>5, <2>6, <3>2 DEF PipelineInv, RowsOK
  <2>8. SlotsOK' /\ RecOK'
    BY <1>0, <1>1, <1>2, <2>5, SlotReports, RecKept DEF PipelineInv
  <2> QED BY <2>3, <2>5, <2>7, <2>8 DEF PipelineInv
<1>3. CASE UNCHANGED <<outbox, jobs, businessVars, committed>>
           /\ \/ Report(s, "completed") \/ TransientFailure(s)
              \/ \E code \in {"capacity", "rejected"} : ProjectThen(s, "persist", "deadletter", code)
  <2>1. snapshots' = snapshots /\ SlotsOK
    BY <1>3 DEF businessVars, PipelineInv
  <2>2. JobsKept => SlotsOK'
    <3>1. CASE Report(s, "completed")
      BY <1>1, <2>1, <3>1, SlotReports
    <3>2. CASE TransientFailure(s)
      BY <1>1, <2>1, <3>2, SlotFailsTransiently
    <3>3. ASSUME NEW code \in {"capacity", "rejected"}, ProjectThen(s, "persist", "deadletter", code)
          PROVE  JobsKept => SlotsOK'
      BY <1>1, <2>1, <3>3, SlotProjects DEF Codes
    <3> QED BY <1>3, <3>1, <3>2, <3>3
  <2> QED BY <1>0, <1>3, <2>2, NoJobStep
<1> QED BY <1>2, <1>3 DEF CommitWork

LEMMA PersistStep ==
  ASSUME PipelineInv, NEW s \in Slots, PersistSafeFailure(s), UNCHANGED faultVars
  PROVE  PipelineInv'
<1> DEFINE b == slot[s].work.obj
<1>1. /\ slot[s] # Idle /\ slot[s].pc = "persist" /\ SlotFits(slot[s]) /\ slot[s].work \in Works
      /\ slot[s].work.topic = "import.commit" /\ b \in Batches
  BY SlotFacts, WorkFacts DEF PersistSafeFailure, Idle, PipelineInv, SlotFits
<1>2. slot[s].code \in Codes \ {"none"} /\ slot[s].code # "hard"
      /\ slot[s].result \in {"deadletter", "failed"}
  BY <1>1 DEF SlotFits
<1>3. batch[b].status = "COMMITTING" => BatchFits(b, "FAILED", slot[s].code, committed, snapshots)
  BY <1>1, <1>2, BatchRow DEF BatchFits, Uncommitted
<1>4. JobsKept /\ FailedKept => SlotsOK' /\ RecOK'
  BY <1>1, <1>2, SlotProjects, RecKept DEF PersistSafeFailure, PipelineInv
<1> QED BY <1>1, <1>2, <1>3, <1>4, RunTyped, BatchOnlyStep
        DEF PersistSafeFailure, faultVars, BatchStatus, Settled

(* What a callback of the later queues holds, and that its batch has been   *)
(* committed.                                                               *)
LEMMA LaterWork ==
  ASSUME PipelineInv, NEW s \in Slots, slot[s] # Idle, slot[s].work.topic # "import.commit"
  PROVE  /\ slot[s].work \in Works /\ BatchOf(slot[s].work) \in committed
         /\ BatchOf(slot[s].work) \in Batches /\ SlotFits(slot[s])
         /\ slot[s].work.topic = "calculation.run" => slot[s].work.obj \in Runs
         /\ slot[s].work.topic # "calculation.run" => BatchOf(slot[s].work) = slot[s].work.obj
BY SlotFacts, WorkFacts DEF PipelineInv, BatchOf

(* The dataset a committed batch is calculated from has a number.           *)
LEMMA DataCounted ==
  ASSUME PipelineInv
  PROVE  /\ data \in 0..Cardinality(Batches) /\ Cardinality(Batches) \in Nat
         /\ committed # {} => data >= 1
<1>1. IsFiniteSet(Batches) /\ committed \subseteq Batches /\ data = Cardinality(committed)
  BY PipelineAssumption DEF PipelineInv, RowsOK
<1>2. IsFiniteSet(committed) /\ Cardinality(committed) <= Cardinality(Batches)
  BY <1>1, FS_Subset
<1>3. Cardinality(committed) \in Nat /\ Cardinality(Batches) \in Nat
  BY <1>1, <1>2, FS_CardinalityType
<1>4. committed # {} => Cardinality(committed) # 0
  BY <1>2, FS_EmptySet
<1> QED BY <1>1, <1>2, <1>3, <1>4

LEMMA CurrentRunExists ==
  ASSUME PipelineInv, NEW b \in committed
  PROVE  CurrentRun(b) \in Runs /\ CurrentRun(b).batch = b
<1>1. data \in 1..Cardinality(Batches) /\ b \in Batches /\ rates \in 0..MaxRates
  BY DataCounted DEF PipelineInv, RowsOK
<1> QED BY <1>1 DEF CurrentRun, Runs

LEMMA RequestStep ==
  ASSUME PipelineInv, NEW s \in Slots, RequestWork(s), UNCHANGED faultVars
  PROVE  PipelineInv'
<1> DEFINE b == slot[s].work.obj
           r == CurrentRun(b)
<1>1. slot[s] # Idle /\ slot[s].work.topic = "calculation.requested" /\ b \in committed
  BY LaterWork DEF RequestWork, Idle
<1>2. r \in Runs /\ r.batch = b
  BY <1>1, CurrentRunExists
<1>3. /\ UNCHANGED <<sent, jobs, rec, batch, data, rates, hard, snapshots, current, committed>>
      /\ scenario' = scenario
  BY DEF RequestWork, faultVars
<1> HIDE DEF r
<1>4. /\ run' \in [Runs -> {"ABSENT", "QUEUED", "READY", "FAILED"}]
      /\ outbox' = outbox \/ Enqueue(RunEvent(r))
      /\ \/ Continue(s, "advance", r) \/ ProjectThen(s, "project", "deadletter", "hard")
         \/ ProjectThen(s, "project", "deadletter", "rejected")
  BY <1>2, RunTyped DEF RequestWork, r
<1>5. EventsOK' /\ EventsFit' /\ scenario' \in Scenarios /\ outbox \subseteq outbox'
  <2>1. CASE outbox' = outbox
    BY <1>3, <2>1, EventsUntouched
  <2>2. CASE Enqueue(RunEvent(r))
    BY <1>1, <1>2, <1>3, <2>2, RunEvents, EventEnqueued
  <2> QED BY <1>4, <2>1, <2>2
<1>6. JobsOK' /\ JobsKept /\ FailedKept /\ RecOK'
  BY <1>3, <1>5, JobsUntouched
<1>7. SlotsOK'
  <2>0. SlotsOK /\ snapshots' = snapshots /\ SlotFits(slot[s])
    BY <1>3 DEF PipelineInv, SlotsOK
  <2>1. CASE Continue(s, "advance", r)
    <3> DEFINE v == [pc |-> "advance", work |-> slot[s].work, n |-> slot[s].n, last |-> slot[s].last,
                     run |-> r]
    <3>1. slot' = [slot EXCEPT ![s] = v]
      BY <2>1 DEF Continue
    <3>2. SlotFits(v)
      BY <1>1, <1>2, <2>0 DEF SlotFits
    <3> HIDE DEF v
    <3> QED BY <1>6, <2>0, <3>1, <3>2, SlotWritten
  <2>2. CASE ProjectThen(s, "project", "deadletter", "hard")
    BY <1>1, <1>6, <2>0, <2>2, SlotProjects DEF Codes
  <2>3. CASE ProjectThen(s, "project", "deadletter", "rejected")
    BY <1>1, <1>6, <2>0, <2>3, SlotProjects DEF Codes
  <2> QED BY <1>4, <2>1, <2>2, <2>3
<1>8. RowsOK' /\ BatchesFit'
  BY <1>3, <1>4 DEF PipelineInv, RowsOK, BatchesFit
<1> QED BY <1>5, <1>6, <1>7, <1>8 DEF PipelineInv

LEMMA AdvanceStep ==
  ASSUME PipelineInv, NEW s \in Slots, AdvanceBatch(s), UNCHANGED faultVars
  PROVE  PipelineInv'
<1> DEFINE b == slot[s].work.obj
<1>1. slot[s] # Idle /\ slot[s].work.topic = "calculation.requested" /\ b \in committed /\ b \in Batches
  <2>1. slot[s] # Idle /\ slot[s].pc = "advance"
    BY DEF AdvanceBatch, Idle
  <2>2. slot[s].work.topic = "calculation.requested"
    BY <2>1 DEF PipelineInv, SlotsOK, SlotFits
  <2> QED BY <2>1, <2>2, LaterWork
<1>2. BatchFits(b, "CALCULATING", "none", committed, snapshots)
  BY <1>1 DEF BatchFits, Uncommitted
<1>3. JobsKept /\ FailedKept => SlotsOK' /\ RecOK'
  BY <1>1, SlotReports, RecKept DEF AdvanceBatch, PipelineInv
<1> QED BY <1>1, <1>2, <1>3, RunTyped, BatchOnlyStep
        DEF AdvanceBatch, faultVars, BatchStatus, Calculable, Codes

LEMMA CalculateStep ==
  ASSUME PipelineInv, NEW s \in Slots, CalculateWork(s), UNCHANGED faultVars
  PROVE  PipelineInv'
<1> DEFINE r == slot[s].work.obj
<1>1. slot[s] # Idle /\ slot[s].work.topic = "calculation.run" /\ r \in Runs /\ r.batch \in committed
  BY LaterWork DEF CalculateWork, Idle, BatchOf
<1>2. /\ UNCHANGED <<sent, jobs, rec, batch, data, rates, hard, snapshots, current, committed>>
      /\ scenario' = scenario
  BY DEF CalculateWork, faultVars
<1>3. /\ run' \in [Runs -> {"ABSENT", "QUEUED", "READY", "FAILED"}]
      /\ outbox' = outbox \/ Enqueue(PublishEvent(r))
      /\ Report(s, "completed") \/ ProjectThen(s, "project", "deadletter", "rejected")
  BY <1>1, RunTyped DEF CalculateWork
<1>4. EventsOK' /\ EventsFit' /\ scenario' \in Scenarios /\ outbox \subseteq outbox'
  <2>1. CASE outbox' = outbox
    BY <1>2, <2>1, EventsUntouched
  <2>2. CASE Enqueue(PublishEvent(r))
    BY <1>1, <1>2, <2>2, RunEvents, EventEnqueued
  <2> QED BY <1>3, <2>1, <2>2
<1>5. JobsOK' /\ JobsKept /\ FailedKept /\ RecOK'
  BY <1>2, <1>4, JobsUntouched
<1>6. SlotsOK'
  BY <1>1, <1>2, <1>3, <1>5, SlotReports, SlotProjects DEF PipelineInv, Codes
<1>7. RowsOK' /\ BatchesFit'
  BY <1>2, <1>3 DEF PipelineInv, RowsOK, BatchesFit
<1> QED BY <1>4, <1>5, <1>6, <1>7 DEF PipelineInv

LEMMA AnnounceStep ==
  ASSUME PipelineInv, NEW s \in Slots, AnnouncePublish(s), UNCHANGED faultVars
  PROVE  PipelineInv'
<1> DEFINE b == slot[s].work.obj
           r == Job(slot[s]).event.key
<1>1. slot[s] # Idle /\ slot[s].work.topic = "report.auto-publish" /\ b \in committed /\ b \in Batches
  BY LaterWork DEF AnnouncePublish, Idle
<1>2. Job(slot[s]).event \in Events /\ Job(slot[s]).event.work = slot[s].work
  BY <1>1, SlotFacts DEF PipelineInv
<1>3. r \in Runs /\ r.batch = b
  BY <1>1, <1>2, EventFacts
<1>4. BatchFits(b, "RESULT_PUBLISHING", "none", committed, snapshots)
  BY <1>1 DEF BatchFits, Uncommitted
<1>5. JobsKept /\ FailedKept => SlotsOK' /\ RecOK'
  <2> DEFINE v == [pc |-> "publish", work |-> slot[s].work, n |-> slot[s].n, last |-> slot[s].last,
                   run |-> r]
  <2>1. slot' = [slot EXCEPT ![s] = v]
    BY DEF AnnouncePublish, Continue
  <2>2. SlotFits(slot[s])
    BY DEF PipelineInv, SlotsOK
  <2>3. SlotFits(v)
    BY <1>1, <1>3, <2>2 DEF SlotFits
  <2> HIDE DEF v
  <2> QED BY <2>1, <2>3, SlotWritten, RecKept DEF AnnouncePublish, PipelineInv
<1>6. SetBatchWhen(TRUE, b, "RESULT_PUBLISHING", "none")
  BY DEF AnnouncePublish, SetBatchWhen
<1> QED BY <1>1, <1>4, <1>5, <1>6, RunTyped, BatchOnlyStep
        DEF AnnouncePublish, faultVars, BatchStatus, Codes

LEMMA PublishStep ==
  ASSUME PipelineInv, NEW s \in Slots, PublishSnapshot(s), UNCHANGED faultVars
  PROVE  PipelineInv' /\ (current' # current => current' \in Runs /\ current'.data = data)
<1> DEFINE r == slot[s].run
<1>1. slot[s] # Idle /\ slot[s].pc = "publish" /\ SlotFits(slot[s])
  BY DEF PublishSnapshot, Idle, PipelineInv, SlotsOK
<1>2. r \in Runs /\ slot[s].work.topic = "report.auto-publish" /\ r.batch = slot[s].work.obj
  BY <1>1 DEF SlotFits
<1>3. /\ UNCHANGED <<outbox, sent, jobs, rec, batch, run, data, rates, hard, committed>>
      /\ scenario' = scenario
  BY DEF PublishSnapshot, faultVars
<1>4. JobsOK' /\ JobsKept /\ FailedKept /\ RecOK'
  BY <1>3, JobsUntouched
<1>5. EventsOK' /\ EventsFit' /\ scenario' \in Scenarios
  BY <1>3, EventsUntouched
<1>6. CASE (r \in snapshots \/ Publishable(r)) /\ snapshots' = snapshots \cup {r}
           /\ current' = (IF r \in snapshots THEN current ELSE r) /\ Continue(s, "published", r)
  <2>1. RowsOK'
    <3>1. r.data <= data
      BY <1>6, DataCounted DEF Publishable, PipelineInv, RowsOK
    <3>2. \A q \in snapshots' : q.data <= data'
      BY <1>3, <1>6, <3>1 DEF PipelineInv, RowsOK
    <3> QED BY <1>2, <1>3, <1>6, <3>2 DEF PipelineInv, RowsOK
  <2>2. BatchesFit'
    BY <1>3, <1>6 DEF PipelineInv, BatchesFit, BatchFits
  <2>3. SlotsOK'
    <3> DEFINE v == [pc |-> "published", work |-> slot[s].work, n |-> slot[s].n,
                     last |-> slot[s].last, run |-> r]
    <3>1. slot' = [slot EXCEPT ![s] = v] /\ v # Idle
      BY <1>6 DEF Continue, Idle
    <3>2. /\ "pc" \in DOMAIN v /\ v.pc = "published" /\ v.work = slot[s].work /\ v.n = slot[s].n /\ v.run = r
          /\ r \in snapshots'
      BY <1>6
    <3> HIDE DEF v
    <3>3. \A t \in Slots : slot'[t] = IF t = s THEN v ELSE slot[t]
      BY <3>1 DEF PipelineInv, SlotsOK
    <3>4. ASSUME NEW t \in Slots PROVE SlotFits(slot[t])'
      <4>1. CASE t = s
        BY <1>1, <1>2, <1>4, <3>1, <3>2, <3>3, <4>1 DEF SlotFits, JobsKept
      <4>2. CASE t # s
        <5>1. SlotFits(slot[t]) /\ slot'[t] = slot[t]
          BY <3>3, <4>2 DEF PipelineInv, SlotsOK
        <5> QED BY <1>4, <1>6, <5>1 DEF SlotFits, JobsKept
      <4> QED BY <4>1, <4>2
    <3>5. DOMAIN slot' = Slots
      BY <3>1 DEF PipelineInv, SlotsOK
    <3> QED BY <3>4, <3>5 DEF SlotsOK
  <2>4. current' # current => current' \in Runs /\ current'.data = data
    BY <1>2, <1>6 DEF Publishable
  <2> QED BY <1>4, <1>5, <2>1, <2>2, <2>3, <2>4 DEF PipelineInv
<1>7. CASE TransientFailure(s) /\ UNCHANGED <<snapshots, current>>
  <2>1. JobsKept => SlotsOK'
    BY <1>1, <1>7, SlotFailsTransiently DEF PipelineInv
  <2> QED BY <1>3, <1>7, <2>1, NoJobStep DEF businessVars
<1> QED BY <1>6, <1>7 DEF PublishSnapshot

LEMMA RecordStep ==
  ASSUME PipelineInv, NEW s \in Slots, RecordPublished(s), UNCHANGED faultVars
  PROVE  PipelineInv'
<1> DEFINE b == slot[s].work.obj
<1>1. slot[s] # Idle /\ slot[s].pc = "published" /\ SlotFits(slot[s])
  BY DEF RecordPublished, Idle, PipelineInv, SlotsOK
<1>2. slot[s].work.topic = "report.auto-publish" /\ slot[s].run \in snapshots /\ slot[s].run.batch = b
  BY <1>1 DEF SlotFits
<1>3. b \in committed /\ b \in Batches
  BY <1>1, <1>2, LaterWork
<1>4. BatchFits(b, "RESULT_PUBLISHED", "none", committed, snapshots)
  BY <1>2, <1>3 DEF BatchFits, Uncommitted
<1>5. JobsKept /\ FailedKept => SlotsOK' /\ RecOK'
  BY <1>1, SlotReports, RecKept DEF RecordPublished, PipelineInv
<1>6. SetBatchWhen(TRUE, b, "RESULT_PUBLISHED", "none")
  BY DEF RecordPublished, SetBatchWhen
<1> QED BY <1>3, <1>4, <1>5, <1>6, RunTyped, BatchOnlyStep
        DEF RecordPublished, faultVars, BatchStatus, Settled, Codes

(* A run that fails, and its batch with it.                                 *)
LEMMA RunFails ==
  ASSUME PipelineInv, NEW r \in Runs, r.batch \in committed, NEW code \in Codes \ {"capacity"},
         MarkCalculationRunFailed(r, code)
  PROVE  /\ run' \in [Runs -> {"ABSENT", "QUEUED", "READY", "FAILED"}]
         /\ r.batch \in Batches
         /\ BatchFits(r.batch, "FAILED", code, committed, snapshots)
         /\ \E allowed \in BOOLEAN : SetBatchWhen(allowed, r.batch, "FAILED", code)
<1>1. r.batch \in Batches /\ BatchFits(r.batch, "FAILED", code, committed, snapshots)
  BY DEF Runs, BatchFits, Uncommitted
<1>2. CASE run[r] = "QUEUED"
  <2>1. run' = [run EXCEPT ![r] = "FAILED"]
        /\ SetBatchWhen(batch[r.batch].status \in Calculable, r.batch, "FAILED", code)
    BY <1>2 DEF MarkCalculationRunFailed
  <2>2. (batch[r.batch].status \in Calculable) \in BOOLEAN
    OBVIOUS
  <2> QED BY <1>1, <2>1, <2>2, RunTyped
<1>3. CASE run[r] # "QUEUED"
  <2>1. UNCHANGED <<run, batch, jobs>>
    BY <1>3 DEF MarkCalculationRunFailed
  <2>2. SetBatchWhen(FALSE, r.batch, "FAILED", code)
    BY <2>1 DEF SetBatchWhen
  <2> QED BY <1>1, <2>1, <2>2, RunTyped
<1> QED BY <1>2, <1>3

LEMMA ProjectStep ==
  ASSUME PipelineInv, NEW s \in Slots, ProjectTerminal(s), UNCHANGED faultVars
  PROVE  PipelineInv'
<1> DEFINE w == slot[s].work
           code == slot[s].code
<1>1. /\ slot[s] # Idle /\ slot[s].pc = "project" /\ SlotFits(slot[s]) /\ w \in Works
      /\ BatchOf(w) \in Batches
  BY SlotFacts DEF ProjectTerminal, Idle, PipelineInv
<1>2. /\ code \in Codes \ {"none"} /\ slot[s].result \in {"deadletter", "failed"}
      /\ code = "capacity" => w.topic = "import.commit"
      /\ code = "hard" => w.topic # "import.commit"
  BY <1>1 DEF SlotFits
<1>3. JobsKept /\ FailedKept => SlotsOK' /\ RecOK'
  BY <1>1, <1>2, SlotReports, RecKept DEF ProjectTerminal, PipelineInv
<1>4. /\ UNCHANGED <<outbox, sent, data, rates, hard, snapshots, current, committed, scenario>>
  BY DEF ProjectTerminal, faultVars
<1> HIDE DEF code
<1>5. CASE w.topic = "import.commit"
  <2>1. MarkImportCommitFailed(w.obj, code) /\ run' = run /\ w.obj \in Batches
    BY <1>1, <1>5 DEF ProjectTerminal, code, BatchOf
  <2>2. batch[w.obj].status = "COMMITTING" => BatchFits(w.obj, "FAILED", code, committed, snapshots)
    BY <1>2, <1>5, <2>1, BatchRow DEF BatchFits, Uncommitted
  <2> QED BY <1>2, <1>3, <1>4, <2>1, <2>2, RunTyped, BatchOnlyStep
          DEF MarkImportCommitFailed, BatchStatus, Settled
<1>6. CASE w.topic = "calculation.requested"
  <2>1. MarkCalculationRequestFailed(w.obj, code) /\ run' = run /\ w.obj \in Batches
    BY <1>1, <1>6 DEF ProjectTerminal, code, BatchOf
  <2>2. BatchFits(w.obj, "FAILED", code, committed, snapshots)
    BY <1>1, <1>2, <1>6, LaterWork DEF BatchFits, Uncommitted
  <2> QED BY <1>2, <1>3, <1>4, <2>1, <2>2, RunTyped, BatchOnlyStep
          DEF MarkCalculationRequestFailed, BatchStatus, Settled
<1>7. CASE w.topic = "calculation.run"
  <2>1. MarkCalculationRunFailed(w.obj, code) /\ w.obj \in Runs /\ w.obj.batch \in committed
    BY <1>1, <1>7, LaterWork DEF ProjectTerminal, code, BatchOf
  <2>2. code \in Codes \ {"capacity"}
    BY <1>2, <1>7
  <2> QED BY <1>3, <1>4, <2>1, <2>2, RunFails, BatchOnlyStep DEF BatchStatus, Settled
<1>8. CASE w.topic = "report.auto-publish"
  <2>1. MarkAutoPublishFailed(w.obj) /\ run' = run /\ w.obj \in Batches
    BY <1>1, <1>8 DEF ProjectTerminal, BatchOf
  <2>2. BatchFits(w.obj, "READY_FOR_REVIEW", "exhausted", committed, snapshots)
    BY <1>1, <1>8, LaterWork DEF BatchFits, Uncommitted
  <2> QED BY <1>3, <1>4, <2>1, <2>2, RunTyped, BatchOnlyStep
          DEF MarkAutoPublishFailed, BatchStatus, Settled, Codes
<1> QED BY <1>1, <1>5, <1>6, <1>7, <1>8, WorkFacts

-----------------------------------------------------------------------------
(* The faults of a handler.                                                 *)

LEMMA FailStep ==
  ASSUME PipelineInv, NEW s \in Slots, StepFails(s) \/ ProjectionFails(s)
  PROVE  PipelineInv'
<1>1. UNCHANGED <<outbox, sent, jobs, rec, scenario, businessVars, committed>> /\ slot[s] # Idle
      /\ (TransientFailure(s) \/ Report(s, "failed"))
  BY DEF StepFails, ProjectionFails, Fault, Executing, Idle
<1>2. SlotsOK /\ snapshots' = snapshots
  BY <1>1 DEF PipelineInv, businessVars
<1>3. JobsKept => SlotsOK'
  <2>1. CASE TransientFailure(s)
    BY <1>1, <1>2, <2>1, SlotFailsTransiently
  <2>2. CASE Report(s, "failed")
    BY <1>1, <1>2, <2>2, SlotReports
  <2> QED BY <1>1, <2>1, <2>2
<1> QED BY <1>1, <1>3, NoJobStep

-----------------------------------------------------------------------------
(* The reconciler.                                                          *)

(* What the reconciler has in hand.                                         *)
LEMMA RecFacts ==
  ASSUME PipelineInv, rec # RecIdle
  PROVE  /\ rec.work \in Works /\ rec.n \in DOMAIN jobs[rec.work] /\ BatchOf(rec.work) \in Batches
         /\ Job(rec) \in JobRow /\ JobFits(rec.work, Job(rec)) /\ Job(rec).event \in Events
         /\ Job(rec).state = "failed" /\ ~Job(rec).marked
         /\ rec.work.topic # "import.commit" => BatchOf(rec.work) \in committed
<1>1. rec.work \in Works /\ rec.n \in DOMAIN jobs[rec.work] /\ Job(rec).state = "failed" /\ ~Job(rec).marked
  BY DEF PipelineInv, RecOK
<1>2. Job(rec) \in JobRow /\ JobFits(rec.work, Job(rec))
  BY <1>1, JobFacts DEF Job
<1> QED BY <1>1, <1>2, WorkFacts DEF PipelineInv, EventsFit, EventsOK, JobFits

LEMMA ReconciledEdits ==
  ASSUME PipelineInv, NEW w \in Works, NEW n \in DOMAIN jobs[w], jobs[w][n].state = "failed"
  PROVE  JobEdit(w, n, Reconciled(jobs[w][n]))
<1> DEFINE job == jobs[w][n]
           done == [job EXCEPT !.marked = TRUE, !.overtaken = FALSE]
<1>1. job \in JobRow /\ JobFits(w, job)
  BY JobFacts
<1>2. done \in JobRow
  BY <1>1 DEF JobRow
<1>3. done.event = job.event /\ done.retries = job.retries /\ done.state = job.state
  BY <1>1 DEF JobRow
<1>4. Reconciled(job) = done
  BY DEF Reconciled
<1> HIDE DEF done
<1> QED BY <1>1, <1>2, <1>3, <1>4 DEF JobEdit, JobFits

(* A failed job is marked done, and the reconciler has nothing in hand.     *)
LEMMA MarkStep ==
  ASSUME PipelineInv, NEW w \in Works, NEW n \in DOMAIN jobs[w], jobs[w][n].state = "failed",
         jobs' = [jobs EXCEPT ![w][n] = Reconciled(jobs[w][n])], rec' = RecIdle,
         UNCHANGED <<outbox, sent, slot, scenario, businessVars, committed>>
  PROVE  PipelineInv'
<1>1. JobsOK' /\ JobsKept
  BY ReconciledEdits, EditJob DEF JobEdit, PipelineInv
<1>2. SlotsOK' /\ RecOK'
  BY <1>1, SlotsKept DEF PipelineInv, RecOK, businessVars
<1> QED BY <1>1, <1>2, QueueKeepsRows DEF PipelineInv, EventsOK

LEMMA StartStep ==
  ASSUME PipelineInv, NEW w \in Works, NEW n \in DOMAIN jobs[w], StartReconciliation(w, n),
         UNCHANGED faultVars
  PROVE  PipelineInv'
<1>1. /\ rec = RecIdle /\ jobs[w][n].state = "failed" /\ ~jobs[w][n].marked
      /\ UNCHANGED <<outbox, sent, slot, scenario, businessVars, committed>>
  BY DEF StartReconciliation, BeginReconciliation, Reconcilable, faultVars
<1>2. CASE Superseded(w, n)
  BY <1>1, <1>2, MarkStep DEF StartReconciliation, BeginReconciliation
<1>3. CASE ~Superseded(w, n)
  <2>1. rec' = [pc |-> "project", work |-> w, n |-> n] /\ jobs' = jobs
    BY <1>3 DEF StartReconciliation, BeginReconciliation
  <2>2. rec'.work = w /\ rec'.n = n /\ rec' = [pc |-> rec'.pc, work |-> rec'.work, n |-> rec'.n]
    BY <2>1
  <2>3. JobsOK' /\ JobsKept
    BY <1>1, <2>1, SameJobs DEF PipelineInv
  <2>4. SlotsOK' /\ RecOK'
    BY <1>1, <2>1, <2>2, <2>3, SlotsKept DEF PipelineInv, RecOK, Job, businessVars
  <2> QED BY <1>1, <2>3, <2>4, QueueKeepsRows DEF PipelineInv, EventsOK
<1> QED BY <1>2, <1>3

LEMMA RecordReconciliationStep ==
  ASSUME PipelineInv, RecordReconciliation, UNCHANGED faultVars
  PROVE  PipelineInv'
<1>1. rec # RecIdle
  BY DEF RecordReconciliation, EndReconciliation, RecIdle
<1> QED BY <1>1, RecFacts, MarkStep
        DEF RecordReconciliation, EndReconciliation, Job, faultVars

LEMMA ReconciliationFailsStep ==
  ASSUME PipelineInv, ReconciliationFails
  PROVE  PipelineInv'
<1>1. UNCHANGED <<outbox, sent, jobs, slot, scenario, businessVars, committed>> /\ rec' = RecIdle
  BY DEF ReconciliationFails, ReconciliationLost, Fault
<1>2. JobsOK' /\ JobsKept
  BY <1>1, SameJobs DEF PipelineInv
<1>3. SlotsOK' /\ RecOK'
  BY <1>1, <1>2, SlotsKept DEF PipelineInv, RecOK, businessVars
<1> QED BY <1>1, <1>2, <1>3, QueueKeepsRows DEF PipelineInv, EventsOK

LEMMA ProjectFailureStep ==
  ASSUME PipelineInv, ProjectFailure, UNCHANGED faultVars
  PROVE  PipelineInv'
<1> DEFINE w == rec.work
<1>1. /\ rec # RecIdle /\ w \in Works /\ BatchOf(w) \in Batches
      /\ w.topic # "import.commit" => BatchOf(w) \in committed
      /\ Job(rec).event \in Events /\ Job(rec).event.work = w
  BY RecFacts DEF ProjectFailure, RecIdle, JobFits
<1>2. UNCHANGED <<outbox, sent, slot, data, rates, hard, snapshots, current, committed, scenario>>
  BY DEF ProjectFailure, faultVars
<1>3. JobsKept /\ FailedKept => SlotsOK' /\ RecOK'
  BY <1>1, <1>2, SlotsKept, RecProjected DEF ProjectFailure, PipelineInv
<1>4. CASE w.topic = "import.commit"
  <2>1. ProjectCommitFailure(w.obj) /\ run' = run /\ w.obj \in Batches
    BY <1>1, <1>4 DEF ProjectFailure, BatchOf
  <2>2. batch[w.obj].status = "COMMITTING"
          => BatchFits(w.obj, "FAILED", "exhausted", committed, snapshots)
    BY <2>1, BatchRow DEF BatchFits, Uncommitted
  <2> QED BY <1>2, <1>3, <2>1, <2>2, RunTyped, BatchOnlyStep
          DEF ProjectCommitFailure, BatchStatus, Settled, Codes
<1>5. CASE w.topic = "calculation.requested"
  <2>1. ProjectCalculationRequest(w.obj) /\ run' = run /\ w.obj \in Batches /\ w.obj \in committed
    BY <1>1, <1>5 DEF ProjectFailure, BatchOf
  <2>2. /\ BatchFits(w.obj, "FAILED", "exhausted", committed, snapshots)
        /\ BatchFits(w.obj, "CALCULATING", "none", committed, snapshots)
    BY <2>1 DEF BatchFits, Uncommitted
  <2> DEFINE waiting == batch[w.obj].status \in Calculable /\ NotOvertaken(rec)
  <2>3. \/ SetBatchWhen(waiting, w.obj, "FAILED", "exhausted")
        \/ SetBatchWhen(waiting, w.obj, "CALCULATING", "none")
    BY <2>1 DEF ProjectCalculationRequest
  <2> HIDE DEF waiting
  <2>4. CASE SetBatchWhen(waiting, w.obj, "FAILED", "exhausted")
    BY <1>2, <1>3, <2>1, <2>2, <2>4, RunTyped, BatchOnlyStep DEF BatchStatus, Settled, Codes
  <2>5. CASE SetBatchWhen(waiting, w.obj, "CALCULATING", "none")
    BY <1>2, <1>3, <2>1, <2>2, <2>5, RunTyped, BatchOnlyStep DEF BatchStatus, Calculable, Codes
  <2> QED BY <2>3, <2>4, <2>5
<1>6. CASE w.topic = "calculation.run"
  <2>1. MarkCalculationRunFailed(w.obj, "exhausted") /\ w.obj \in Runs /\ w.obj.batch \in committed
    BY <1>1, <1>6, WorkFacts DEF ProjectFailure, BatchOf
  <2> QED BY <1>2, <1>3, <2>1, RunFails, BatchOnlyStep DEF BatchStatus, Settled, Codes
<1>7. CASE w.topic = "report.auto-publish"
  <2> DEFINE r == Job(rec).event.key
  <2>1. ProjectAutoPublishFailure(w.obj, r) /\ run' = run /\ w.obj \in Batches /\ w.obj \in committed
    BY <1>1, <1>7 DEF ProjectFailure, BatchOf
  <2>2. r \in Runs /\ r.batch = w.obj
    BY <1>1, <1>7, EventFacts
  <2>3. CASE r \in snapshots
    <3>1. BatchFits(w.obj, "RESULT_PUBLISHED", "none", committed, snapshots)
      BY <2>1, <2>2, <2>3 DEF BatchFits, Uncommitted
    <3> QED BY <1>2, <1>3, <2>1, <2>3, <3>1, RunTyped, BatchOnlyStep
            DEF ProjectAutoPublishFailure, WasPublished, BatchStatus, Settled, Codes
  <2>4. CASE r \notin snapshots
    <3>1. BatchFits(w.obj, "READY_FOR_REVIEW", "exhausted", committed, snapshots)
      BY <2>1 DEF BatchFits, Uncommitted
    <3> QED BY <1>2, <1>3, <2>1, <2>4, <3>1, RunTyped, BatchOnlyStep
            DEF ProjectAutoPublishFailure, WasPublished, BatchStatus, Settled, Codes
  <2> QED BY <2>3, <2>4
<1> QED BY <1>1, <1>4, <1>5, <1>6, <1>7, WorkFacts

-----------------------------------------------------------------------------
(* The invariant holds of every reachable state.                            *)

LEMMA PipelineInvInit == Init => PipelineInv
<1> SUFFICES ASSUME Init PROVE PipelineInv
  OBVIOUS
<1> USE DEF Init, QueueInit
<1>1. EventsOK /\ EventsFit /\ scenario \in Scenarios
  BY DEF EventsOK, EventsFit
<1>2. JobsOK
  <2>1. <<>> \in Seq(JobRow) /\ DOMAIN <<>> = {}
    OBVIOUS
  <2>2. jobs \in [Works -> Seq(JobRow)] /\ \A w \in Works : DOMAIN jobs[w] = {}
    BY <2>1
  <2> QED BY <2>2 DEF JobsOK
<1>3. SlotsOK /\ RecOK
  BY DEF SlotsOK, SlotFits, RecOK
<1>4. RowsOK
  <2>1. Cardinality({}) = 0 /\ 0 \in 0..MaxRates
    BY PipelineAssumption, FS_EmptySet
  <2>2. batch \in [Batches -> [status : BatchStatus, code : Codes]]
    BY DEF BatchStatus, Codes
  <2> QED BY <2>1, <2>2 DEF RowsOK
<1>5. BatchesFit
  BY DEF BatchesFit, BatchFits, Uncommitted
<1> QED BY <1>1, <1>2, <1>3, <1>4, <1>5 DEF PipelineInv

LEMMA UnchangedKeepsPipelineInv ==
  ASSUME PipelineInv, UNCHANGED vars
  PROVE  PipelineInv'
<1>1. UNCHANGED <<outbox, sent, jobs, slot, rec, scenario, businessVars, committed>>
  BY DEF vars, faultVars, businessVars
<1>2. JobsKept => SlotsOK'
  BY <1>1, SlotsKept DEF PipelineInv, businessVars
<1> QED BY <1>1, <1>2, NoJobStep

LEMMA ApiStep ==
  ASSUME PipelineInv, NoFault(Api)
  PROVE  PipelineInv'
<1>1. Api /\ scenario' = scenario
  BY DEF NoFault, faultVars
<1> QED BY <1>1, ConfirmStep, ResumeStep, PreflightStep, AcknowledgeStep DEF Api

LEMMA QueueSteps ==
  ASSUME PipelineInv,
         \/ QueueOnly(QueueStep)
         \/ QueueFault /\ UNCHANGED <<businessVars, committed>>
  PROVE  PipelineInv'
<1>1. DOMAIN jobs = Works
  BY DEF PipelineInv, JobsOK
<1>2. CASE QueueOnly(QueueStep)
  <2>1. QueueStep /\ UNCHANGED <<faultVars, businessVars, committed>> /\ scenario' = scenario
    BY <1>2 DEF QueueOnly, faultVars
  <2>2. CASE DispatcherStep
    BY <2>1, <2>2, DispatchStep DEF DispatcherStep
  <2>3. ASSUME NEW s \in Slots, Take(s) PROVE PipelineInv'
    BY <1>1, <2>1, <2>3, FetchStep DEF Take
  <2>4. ASSUME NEW s \in Slots, Begin(s) PROVE PipelineInv'
    BY <2>1, <2>4, BeginStep
  <2>5. ASSUME NEW s \in Slots, Ack(s) PROVE PipelineInv'
    BY <2>1, <2>5, AckStep
  <2>6. CASE Expiry
    BY <1>1, <2>1, <2>6, ExpireStep DEF Expiry
  <2> QED BY <2>1, <2>2, <2>3, <2>4, <2>5, <2>6 DEF QueueStep
<1>3. CASE QueueFault /\ UNCHANGED <<businessVars, committed>>
  <2>1. ASSUME NEW e \in outbox, DispatchUnmarked(e) PROVE PipelineInv'
    BY <1>3, <2>1, DispatchStep DEF DispatchUnmarked, Fault
  <2>2. ASSUME NEW w \in DOMAIN jobs, NEW n \in DOMAIN jobs[w], ExpireLate(w, n) PROVE PipelineInv'
    BY <1>1, <1>3, <2>2, ExpireStep DEF ExpireLate, Fault
  <2>3. ASSUME NEW s \in Slots, Crash(s) PROVE PipelineInv'
    BY <1>3, <2>3, CrashStep DEF Crash, Fault
  <2> QED BY <1>3, <2>1, <2>2, <2>3 DEF QueueFault
<1> QED BY <1>2, <1>3

LEMMA HandlerSteps ==
  ASSUME PipelineInv, NoFault(\E s \in Slots : HandlerStep(s))
  PROVE  PipelineInv'
<1>1. PICK s \in Slots : HandlerStep(s)
  BY DEF NoFault
<1>2. UNCHANGED faultVars
  BY DEF NoFault
<1>3. CASE CommitWork(s) \/ PersistSafeFailure(s)
  BY <1>2, <1>3, CommitStep, PersistStep
<1>4. CASE RequestWork(s) \/ AdvanceBatch(s) \/ CalculateWork(s)
  BY <1>2, <1>4, RequestStep, AdvanceStep, CalculateStep
<1>5. CASE AnnouncePublish(s) \/ PublishSnapshot(s) \/ RecordPublished(s)
  BY <1>2, <1>5, AnnounceStep, PublishStep, RecordStep
<1>6. CASE ProjectTerminal(s)
  BY <1>2, <1>6, ProjectStep
<1> QED BY <1>1, <1>3, <1>4, <1>5, <1>6 DEF HandlerStep

LEMMA ReconcilerSteps ==
  ASSUME PipelineInv, NoFault(ReconcilerStep)
  PROVE  PipelineInv'
<1>1. ReconcilerStep /\ UNCHANGED faultVars
  BY DEF NoFault
<1> QED BY <1>1, StartStep, ProjectFailureStep, RecordReconciliationStep DEF ReconcilerStep

LEMMA PipelineInvNext == PipelineInv /\ [Next]_vars => PipelineInv'
BY ApiStep, QueueSteps, HandlerSteps, ReconcilerSteps, FailStep, ReconciliationFailsStep,
   UnchangedKeepsPipelineInv DEF Next

(* The strengthened invariant, for every instance of the pipeline.          *)
THEOREM PipelineInvHolds == Spec => []PipelineInv
BY PipelineInvInit, PipelineInvNext, PTL DEF Spec

LEMMA PipelineInvSuffices == PipelineInv => ResultsBacked
<1> SUFFICES ASSUME PipelineInv PROVE ResultsBacked
  OBVIOUS
<1>1. CommittedOnce
  BY DEF PipelineInv, RowsOK, CommittedOnce
<1>2. PublishedHasSnapshot
  BY DEF PipelineInv, BatchesFit, BatchFits, PublishedHasSnapshot
<1>3. TypeOK
  <2>1. outbox \subseteq Events /\ sent \subseteq outbox
    BY DEF PipelineInv, EventsOK
  <2>2. ASSUME NEW w \in Works, NEW n \in DOMAIN jobs[w]
        PROVE  /\ jobs[w][n].event \in outbox /\ jobs[w][n].event.work = w
               /\ jobs[w][n].state \in JobStates /\ jobs[w][n].retries \in 0..RetryLimit
               /\ jobs[w][n].overtaken \/ jobs[w][n].marked => jobs[w][n].state = "failed"
    BY <2>2, JobFacts DEF JobFits, JobRow
  <2>3. \A s \in Slots : slot[s] # Idle => slot[s].n \in DOMAIN jobs[slot[s].work]
    BY DEF PipelineInv, SlotsOK, SlotFits
  <2>4. rec # RecIdle => Job(rec).state = "failed" /\ ~Job(rec).marked
    BY DEF PipelineInv, RecOK
  <2>5. data \in 0..Cardinality(Batches)
    BY DataCounted
  <2> QED BY <2>1, <2>2, <2>3, <2>4, <2>5 DEF TypeOK, PipelineInv, RowsOK
<1> QED BY <1>1, <1>2, <1>3 DEF ResultsBacked

(* Rows and jobs are well-formed, a batch's facts are materialised at most  *)
(* once however often its commit is dispatched, retried, expired or raced   *)
(* by a late callback (worker/register-handlers.ts), and RESULT_PUBLISHED   *)
(* is backed by a snapshot whoever wrote it.                                *)
THEOREM ResultsBackedHolds == Spec => []ResultsBacked
BY PipelineInvHolds, PipelineInvSuffices, PTL

-----------------------------------------------------------------------------
(* The shop's current snapshot.                                             *)

LEMMA OnlyPublishMovesCurrent ==
  ASSUME Next, current' # current
  PROVE  \E s \in Slots : PublishSnapshot(s) /\ UNCHANGED faultVars
<1>1. CASE NoFault(Api)
  BY <1>1 DEF NoFault, Api, Confirm, Resume, Preflight, AcknowledgeHard, SyncRates
<1>2. CASE QueueOnly(QueueStep) \/ (QueueFault /\ UNCHANGED <<businessVars, committed>>)
  BY <1>2 DEF QueueOnly, businessVars
<1>3. CASE NoFault(\E s \in Slots : HandlerStep(s))
  <2>1. PICK s \in Slots : HandlerStep(s)
    BY <1>3 DEF NoFault
  <2>2. PublishSnapshot(s)
    BY <2>1 DEF HandlerStep, CommitWork, PersistSafeFailure, RequestWork, AdvanceBatch,
       CalculateWork, AnnouncePublish, RecordPublished, ProjectTerminal, businessVars
  <2> QED BY <1>3, <2>2 DEF NoFault
<1>4. CASE NoFault(ReconcilerStep)
  BY <1>4 DEF NoFault, ReconcilerStep, StartReconciliation, ProjectFailure, RecordReconciliation,
     businessVars
<1>5. CASE (\E s \in Slots : StepFails(s) \/ ProjectionFails(s)) \/ ReconciliationFails
  BY <1>5 DEF StepFails, ProjectionFails, ReconciliationFails, businessVars
<1> QED BY <1>1, <1>2, <1>3, <1>4, <1>5 DEF Next

LEMMA CurrentMoves ==
  PipelineInv /\ [Next]_vars
    => (current' # current /\ current # NoRun => current'.data >= current.data)
<1> SUFFICES ASSUME PipelineInv, [Next]_vars, current' # current, current # NoRun
             PROVE  current'.data >= current.data
  OBVIOUS
<1>1. Next
  BY DEF vars
<1>2. current'.data = data
  BY <1>1, OnlyPublishMovesCurrent, PublishStep
<1>3. current \in snapshots /\ current.data \in Nat /\ current.data <= data
  BY DEF PipelineInv, RowsOK, Runs
<1> QED BY <1>2, <1>3, DataCounted

(* publishing/postgres-service.ts compares dataset versions under the       *)
(* shop's lock: whatever order two publications arrive in, the snapshot a   *)
(* shop shows is never replaced by one of an older dataset.                 *)
THEOREM CurrentMovesForwardHolds == Spec => CurrentMovesForward
BY PipelineInvHolds, CurrentMoves, PTL DEF Spec, CurrentMovesForward

-----------------------------------------------------------------------------
(* The terminal reconciler.                                                 *)

-----------------------------------------------------------------------------
(* The inductive invariant.                                                 *)

Commit(b) == Work("import.commit", b)
Run(r)    == Work("calculation.run", r)
Newest(w) == jobs[w][Len(jobs[w])]

(* Work that is certain to be settled: an event to dispatch, or a newest    *)
(* job that is neither completed nor reconciled.  The reconciler passes     *)
(* over a commit whose batch was written after it failed, so the newest     *)
(* commit must not be overtaken either.                                     *)
HeldRun(w) == Pending(w) \/ (Len(jobs[w]) > 0 /\ Open(Newest(w)))
HeldCommit(w) == Pending(w) \/ (Len(jobs[w]) > 0 /\ Open(Newest(w)) /\ ~Newest(w).overtaken)

CommitsHeld == \A b \in Batches : batch[b].status = "COMMITTING" => HeldCommit(Commit(b))
RunsHeld    == \A r \in Runs : run[r] = "QUEUED" => HeldRun(Run(r))

(* Whoever may report a job completed has done its work.                    *)
Reporting(v, w) == v # Idle /\ v.pc = "ack" /\ v.result = "completed" /\ v.work = w
Done(w) == (\E n \in DOMAIN jobs[w] : jobs[w][n].state = "completed")
             \/ (\E s \in Slots : Reporting(slot[s], w))
CommitsDone == \A b \in Batches : Done(Commit(b)) => b \in committed
RunsDone    == \A r \in Runs : Done(Run(r)) => run[r] = "READY"

(* An event is written together with the row it is about.                   *)
EventsAfterRows ==
  \A e \in outbox :
    /\ e.work.topic = "import.commit" => batch[e.work.obj].status # "AWAITING_COMMIT_CONFIRMATION"
    /\ e.work.topic = "calculation.run" => run[e.work.obj] # "ABSENT"

(* Between its look for newer work and its UPDATE the reconciler is         *)
(* overtaken by whoever enqueues more; after its UPDATE nothing waits for   *)
(* the job it is about to mark.                                             *)
RecFresh ==
  rec # RecIdle /\ rec.pc = "project" /\ rec.work.topic # "report.auto-publish" =>
    \/ ~Superseded(rec.work, rec.n)
    \/ rec.work.topic # "calculation.run" /\ Job(rec).overtaken
RecCommit ==
  rec # RecIdle /\ rec.pc = "record" /\ rec.work.topic = "import.commit"
    /\ batch[rec.work.obj].status = "COMMITTING" => Superseded(rec.work, rec.n)
RecRun ==
  rec # RecIdle /\ rec.pc = "record" /\ rec.work.topic = "calculation.run"
    => run[rec.work.obj] # "QUEUED"

ReconcilerInv ==
  /\ CommitsDone /\ RunsDone /\ EventsAfterRows
  /\ RunsHeld /\ RecFresh /\ RecRun
  /\ ~scenario.keysReused => CommitsHeld /\ RecCommit

-----------------------------------------------------------------------------
(* Works, by name.                                                          *)

LEMMA Named ==
  /\ \A b \in Batches : /\ Commit(b) \in Works /\ Commit(b).topic = "import.commit"
                        /\ Commit(b).obj = b /\ BatchOf(Commit(b)) = b
  /\ \A r \in Runs : /\ Run(r) \in Works /\ Run(r).topic = "calculation.run"
                     /\ Run(r).obj = r /\ BatchOf(Run(r)) = r.batch
  /\ \A w \in Works : /\ w.topic = "import.commit" => w.obj \in Batches /\ w = Commit(w.obj)
                      /\ w.topic = "calculation.run" => w.obj \in Runs /\ w = Run(w.obj)
BY DEF Works, Work, Commit, Run, BatchOf

(* A run has one event.                                                     *)
LEMMA OneRunEvent ==
  ASSUME NEW e \in Events, e.work.topic = "calculation.run"
  PROVE  e = RunEvent(e.work.obj)
BY DEF Events, CommitEvent, RequestEvent, RunEvent, PublishEvent, Work

LEMMA RowOf ==
  ASSUME PipelineInv, NEW w \in Works
  PROVE  /\ jobs[w] \in Seq(JobRow) /\ Len(jobs[w]) \in Nat /\ DOMAIN jobs[w] = 1..Len(jobs[w])
         /\ Len(jobs[w]) > 0 => Len(jobs[w]) \in DOMAIN jobs[w]
<1>1. jobs[w] \in Seq(JobRow)
  BY DEF PipelineInv, JobsOK
<1>2. Len(jobs[w]) \in Nat /\ DOMAIN jobs[w] = 1..Len(jobs[w])
  BY <1>1
<1> QED BY <1>1, <1>2

-----------------------------------------------------------------------------
(* Steps that send, complete and reconcile no job.                          *)

Steady ==
  \A w \in Works :
    /\ DOMAIN jobs'[w] = DOMAIN jobs[w] /\ Len(jobs'[w]) = Len(jobs[w])
    /\ \A n \in DOMAIN jobs[w] :
         /\ jobs'[w][n].state = jobs[w][n].state /\ jobs'[w][n].marked = jobs[w][n].marked
         /\ jobs[w][n].overtaken => jobs'[w][n].overtaken

LEMMA SameIsSteady ==
  ASSUME jobs' = jobs
  PROVE  Steady
BY DEF Steady

LEMMA WriteIsSteady ==
  ASSUME PipelineInv, outbox \subseteq outbox', scenario' = scenario,
         NEW allowed, NEW b \in Batches, NEW status, NEW code, SetBatchWhen(allowed, b, status, code)
  PROVE  /\ Steady
         /\ \A w \in Works : BatchOf(w) # b => jobs'[w] = jobs[w]
         /\ \A c \in Batches : c # b => batch'[c] = batch[c]
         /\ allowed => /\ batch'[b].status = status
                       /\ \A w \in Works : BatchOf(w) = b => \A n \in DOMAIN jobs[w] :
                            jobs[w][n].state = "failed" /\ ~jobs[w][n].marked => jobs'[w][n].overtaken
         /\ ~allowed => batch' = batch /\ jobs' = jobs
<1>1. CASE allowed
  <2>1. Overtake(b) /\ batch' = [batch EXCEPT ![b] = [status |-> status, code |-> code]]
    BY <1>1 DEF SetBatchWhen, SetBatch
  <2>2. \A w \in Works : /\ DOMAIN jobs'[w] = DOMAIN jobs[w] /\ Len(jobs'[w]) = Len(jobs[w])
                         /\ \A n \in DOMAIN jobs[w] :
                              jobs'[w][n] = IF BatchOf(w) = b THEN Overtaken(jobs[w][n]) ELSE jobs[w][n]
    BY <2>1, OvertakeJobs DEF PipelineInv
  <2>3. \A w \in Works : \A n \in DOMAIN jobs[w] : jobs[w][n] \in JobRow
    BY JobFacts
  <2>4. ASSUME NEW job \in JobRow
        PROVE  /\ Overtaken(job).state = job.state /\ Overtaken(job).marked = job.marked
               /\ job.overtaken => Overtaken(job).overtaken
               /\ job.state = "failed" /\ ~job.marked => Overtaken(job).overtaken
    BY DEF JobRow, Overtaken
  <2>5. Steady /\ \A w \in Works : BatchOf(w) = b => \A n \in DOMAIN jobs[w] :
                    jobs[w][n].state = "failed" /\ ~jobs[w][n].marked => jobs'[w][n].overtaken
    BY <2>2, <2>3, <2>4 DEF Steady
  <2>6. \A w \in Works : BatchOf(w) # b => jobs'[w] = jobs[w]
    BY <2>1 DEF Overtake
  <2>7. batch'[b].status = status /\ \A c \in Batches : c # b => batch'[c] = batch[c]
    BY <2>1 DEF PipelineInv, RowsOK
  <2> QED BY <1>1, <2>5, <2>6, <2>7
<1>2. CASE ~allowed
  BY <1>2, SameIsSteady DEF SetBatchWhen
<1> QED BY <1>1, <1>2

LEMMA PendingKept ==
  ASSUME outbox \subseteq outbox', sent' = sent, NEW w, Pending(w)
  PROVE  Pending(w)'
BY DEF Pending

LEMMA SteadyHolds ==
  ASSUME PipelineInv, Steady, outbox \subseteq outbox', sent' = sent, NEW w \in Works
  PROVE  /\ HeldRun(w) => HeldRun(w)'
         /\ jobs'[w] = jobs[w] /\ HeldCommit(w) => HeldCommit(w)'
         /\ \A n \in DOMAIN jobs[w] : Superseded(w, n) => Superseded(w, n)'
<1>1. Pending(w) => Pending(w)'
  BY PendingKept
<1>2. Len(jobs[w]) > 0 => Len(jobs[w]) \in DOMAIN jobs[w]
  BY RowOf
<1>3. Len(jobs'[w]) = Len(jobs[w])
  BY DEF Steady
<1>4. ASSUME Len(jobs[w]) > 0, Open(Newest(w))
      PROVE  Open(Newest(w))'
  BY <1>2, <1>3, <1>4 DEF Steady, Newest, Open
<1>5. HeldRun(w) => HeldRun(w)'
  BY <1>1, <1>3, <1>4 DEF HeldRun
<1>6. jobs'[w] = jobs[w] /\ HeldCommit(w) => HeldCommit(w)'
  BY <1>1 DEF HeldCommit, Newest, Open
<1>7. \A n \in DOMAIN jobs[w] : Superseded(w, n) => Superseded(w, n)'
  BY <1>1, <1>3 DEF Superseded
<1> QED BY <1>5, <1>6, <1>7

(* The rows move forward only.                                              *)
RowsForward ==
  /\ committed \subseteq committed'
  /\ \A b \in Batches : batch'[b].status = "AWAITING_COMMIT_CONFIRMATION"
                          => batch[b].status = "AWAITING_COMMIT_CONFIRMATION"
  /\ \A r \in Runs : /\ run'[r] = "ABSENT" => run[r] = "ABSENT"
                     /\ run[r] = "READY" => run'[r] = "READY"

(* What becomes COMMITTING or QUEUED does so with an event to dispatch.     *)
WorkEnqueued ==
  /\ \A r \in Runs : run'[r] = "QUEUED" =>
       run[r] = "QUEUED" \/ (run[r] = "ABSENT" /\ Pending(Run(r))')
  /\ ~scenario.keysReused => \A b \in Batches : batch'[b].status = "COMMITTING" =>
       \/ Pending(Commit(b))'
       \/ batch[b].status = "COMMITTING" /\ jobs'[Commit(b)] = jobs[Commit(b)]

(* New events come after their rows, and overtake the failed jobs of their  *)
(* object.                                                                  *)
EventsAfter ==
  \A e \in outbox' \ outbox :
    /\ e.work \in Works
    /\ e.work.topic = "import.commit" => batch'[e.work.obj].status # "AWAITING_COMMIT_CONFIRMATION"
    /\ e.work.topic = "calculation.run" =>
         /\ run'[e.work.obj] # "ABSENT"
         /\ \A f \in outbox : f.work # e.work
    /\ e.work.topic \in {"import.commit", "calculation.requested"} =>
         \A n \in DOMAIN jobs[e.work] :
           jobs[e.work][n].state = "failed" /\ ~jobs[e.work][n].marked => jobs'[e.work][n].overtaken

(* A callback that comes to report success has done its work.               *)
ReportsEarned ==
  \A s \in Slots : slot'[s] # slot[s] =>
    /\ \A b \in Batches : Reporting(slot'[s], Commit(b)) => b \in committed'
    /\ \A r \in Runs : Reporting(slot'[s], Run(r)) => run'[r] = "READY"

LEMMA RecSteady ==
  ASSUME PipelineInv, ReconcilerInv, Steady, outbox \subseteq outbox', sent' = sent,
         scenario' = scenario, rec' = rec, WorkEnqueued, EventsAfter
  PROVE  RecFresh' /\ RecRun' /\ (~scenario.keysReused => RecCommit')
<1>0. CASE rec = RecIdle
  BY <1>0 DEF RecFresh, RecRun, RecCommit
<1>1. CASE rec # RecIdle
  <2> DEFINE w == rec.work
             n == rec.n
  <2>1. /\ w \in Works /\ n \in DOMAIN jobs[w] /\ Job(rec).state = "failed" /\ ~Job(rec).marked
        /\ Job(rec).event \in outbox /\ Job(rec).event.work = w
    BY <1>1, RecFacts DEF JobFits
  <2>2. Len(jobs'[w]) = Len(jobs[w])
    BY <2>1 DEF Steady
  <2>3. RecFresh'
    <3> SUFFICES ASSUME rec.pc = "project", w.topic # "report.auto-publish"
                 PROVE  (~Superseded(w, n))' \/ (w.topic # "calculation.run" /\ Job(rec)'.overtaken)
      BY DEF RecFresh
    <3>1. CASE ~Superseded(w, n) /\ \E e \in outbox' \ outbox : e.work = w
      <4>1. PICK e \in outbox' \ outbox : e.work = w
        BY <3>1
      <4>2. w.topic # "calculation.run"
        BY <2>1, <4>1 DEF EventsAfter
      <4>3. jobs'[w][n].overtaken
        BY <2>1, <4>1, <4>2, WorkFacts DEF EventsAfter, Job
      <4> QED BY <4>2, <4>3 DEF Job
    <3>2. CASE ~Superseded(w, n) /\ ~\E e \in outbox' \ outbox : e.work = w
      <4>1. (~Pending(w))'
        BY <3>2 DEF Superseded, Pending
      <4> QED BY <2>2, <3>2, <4>1 DEF Superseded
    <3>3. CASE w.topic # "calculation.run" /\ Job(rec).overtaken
      BY <2>1, <3>3 DEF Steady, Job
    <3> QED BY <1>1, <3>1, <3>2, <3>3 DEF ReconcilerInv, RecFresh
  <2>4. RecRun'
    <3> SUFFICES ASSUME rec.pc = "record", w.topic = "calculation.run", run'[w.obj] = "QUEUED"
                 PROVE  FALSE
      BY DEF RecRun
    <3>1. w.obj \in Runs /\ run[w.obj] # "QUEUED" /\ run[w.obj] # "ABSENT"
      BY <1>1, <2>1, Named DEF ReconcilerInv, RecRun, EventsAfterRows
    <3> QED BY <3>1 DEF WorkEnqueued
  <2>5. ~scenario.keysReused => RecCommit'
    <3> SUFFICES ASSUME ~scenario.keysReused, rec.pc = "record", w.topic = "import.commit",
                        batch'[w.obj].status = "COMMITTING"
                 PROVE  Superseded(w, n)'
      BY DEF RecCommit
    <3>1. w.obj \in Batches /\ w = Commit(w.obj)
      BY <2>1, Named
    <3>2. CASE Pending(w)'
      BY <3>2 DEF Superseded
    <3>3. CASE batch[w.obj].status = "COMMITTING"
      BY <1>1, <2>1, <3>3, SteadyHolds DEF ReconcilerInv, RecCommit
    <3> QED BY <3>1, <3>2, <3>3 DEF WorkEnqueued
  <2> QED BY <2>3, <2>4, <2>5
<1> QED BY <1>0, <1>1

LEMMA SteadyKeeps ==
  ASSUME PipelineInv, ReconcilerInv, Steady, outbox \subseteq outbox', sent' = sent,
         scenario' = scenario, RowsForward, WorkEnqueued, EventsAfter, ReportsEarned,
         RecFresh', RecRun', ~scenario.keysReused => RecCommit'
  PROVE  ReconcilerInv'
<1>1. CommitsDone'
  <2> SUFFICES ASSUME NEW b \in Batches, Done(Commit(b))'
               PROVE  b \in committed'
    BY DEF CommitsDone
  <2>1. ASSUME NEW n \in DOMAIN jobs'[Commit(b)], jobs'[Commit(b)][n].state = "completed"
        PROVE  b \in committed'
    BY <2>1, Named DEF Steady, Done, ReconcilerInv, CommitsDone, RowsForward
  <2>2. ASSUME NEW s \in Slots, Reporting(slot'[s], Commit(b))
        PROVE  b \in committed'
    BY <2>2 DEF ReportsEarned, Done, ReconcilerInv, CommitsDone, RowsForward
  <2> QED BY <2>1, <2>2 DEF Done
<1>2. RunsDone'
  <2> SUFFICES ASSUME NEW r \in Runs, Done(Run(r))'
               PROVE  run'[r] = "READY"
    BY DEF RunsDone
  <2>1. ASSUME NEW n \in DOMAIN jobs'[Run(r)], jobs'[Run(r)][n].state = "completed"
        PROVE  run'[r] = "READY"
    BY <2>1, Named DEF Steady, Done, ReconcilerInv, RunsDone, RowsForward
  <2>2. ASSUME NEW s \in Slots, Reporting(slot'[s], Run(r))
        PROVE  run'[r] = "READY"
    BY <2>2 DEF ReportsEarned, Done, ReconcilerInv, RunsDone, RowsForward
  <2> QED BY <2>1, <2>2 DEF Done
<1>3. EventsAfterRows'
  <2> SUFFICES ASSUME NEW e \in outbox'
               PROVE  /\ e.work.topic = "import.commit" =>
                           batch'[e.work.obj].status # "AWAITING_COMMIT_CONFIRMATION"
                      /\ e.work.topic = "calculation.run" => run'[e.work.obj] # "ABSENT"
    BY DEF EventsAfterRows
  <2>1. CASE e \in outbox
    <3>1. e.work \in Works
      BY <2>1, EventFacts DEF PipelineInv, EventsOK
    <3> QED BY <2>1, <3>1, Named DEF ReconcilerInv, EventsAfterRows, RowsForward
  <2>2. CASE e \notin outbox
    BY <2>2 DEF EventsAfter
  <2> QED BY <2>1, <2>2
<1>4. RunsHeld'
  <2> SUFFICES ASSUME NEW r \in Runs, run'[r] = "QUEUED"
               PROVE  HeldRun(Run(r))'
    BY DEF RunsHeld
  <2>1. CASE Pending(Run(r))'
    BY <2>1 DEF HeldRun
  <2>2. CASE run[r] = "QUEUED"
    BY <2>2, Named, SteadyHolds DEF ReconcilerInv, RunsHeld
  <2> QED BY <2>1, <2>2 DEF WorkEnqueued
<1>5. ~scenario.keysReused => CommitsHeld'
  <2> SUFFICES ASSUME ~scenario.keysReused, NEW b \in Batches, batch'[b].status = "COMMITTING"
               PROVE  HeldCommit(Commit(b))'
    BY DEF CommitsHeld
  <2>1. CASE Pending(Commit(b))'
    BY <2>1 DEF HeldCommit
  <2>2. CASE batch[b].status = "COMMITTING" /\ jobs'[Commit(b)] = jobs[Commit(b)]
    BY <2>2, Named, SteadyHolds DEF ReconcilerInv, CommitsHeld
  <2> QED BY <2>1, <2>2 DEF WorkEnqueued
<1> QED BY <1>1, <1>2, <1>3, <1>4, <1>5 DEF ReconcilerInv

-----------------------------------------------------------------------------
(* What callbacks come to report.                                           *)

LEMMA SlotEarned ==
  ASSUME PipelineInv, NEW s \in Slots, NEW v, slot' = [slot EXCEPT ![s] = v],
         v # Idle /\ v.pc = "ack" /\ v.result = "completed" =>
           /\ \A b \in Batches : v.work = Commit(b) => b \in committed'
           /\ \A r \in Runs : v.work = Run(r) => run'[r] = "READY"
  PROVE  ReportsEarned
<1>1. \A t \in Slots : slot'[t] = IF t = s THEN v ELSE slot[t]
  BY DEF PipelineInv, SlotsOK
<1> QED BY <1>1 DEF ReportsEarned, Reporting

LEMMA ReportEarned ==
  ASSUME PipelineInv, NEW s \in Slots, NEW result, Report(s, result),
         result = "completed" =>
           /\ slot[s].work.topic = "import.commit" => slot[s].work.obj \in committed'
           /\ slot[s].work.topic = "calculation.run" => run'[slot[s].work.obj] = "READY"
  PROVE  ReportsEarned
<1> DEFINE v == [pc |-> "ack", work |-> slot[s].work, n |-> slot[s].n, result |-> result]
<1>1. slot' = [slot EXCEPT ![s] = v]
  BY DEF Report
<1>2. v.result = result /\ v.work = slot[s].work
  OBVIOUS
<1> HIDE DEF v
<1>3. result = "completed" =>
        /\ \A b \in Batches : v.work = Commit(b) => b \in committed'
        /\ \A r \in Runs : v.work = Run(r) => run'[r] = "READY"
  BY <1>2, Named
<1> QED BY <1>1, <1>2, <1>3, SlotEarned

LEMMA OtherSlotsEarned ==
  ASSUME PipelineInv, NEW s \in Slots,
         \/ \E pc \in {"persist", "project"}, result \in {"deadletter", "failed"}, code \in Codes :
              ProjectThen(s, pc, result, code)
         \/ \E pc \in {"advance", "publish", "published"}, r \in Runs : Continue(s, pc, r)
         \/ slot' = [slot EXCEPT ![s] = Idle]
  PROVE  ReportsEarned
<1>1. ASSUME NEW pc \in {"persist", "project"}, NEW result \in {"deadletter", "failed"}, NEW code \in Codes,
             ProjectThen(s, pc, result, code)
      PROVE  ReportsEarned
  <2> DEFINE v == [pc |-> pc, work |-> slot[s].work, n |-> slot[s].n, last |-> slot[s].last,
                   result |-> result, code |-> code]
  <2>1. slot' = [slot EXCEPT ![s] = v] /\ v.pc # "ack"
    BY <1>1 DEF ProjectThen
  <2> HIDE DEF v
  <2> QED BY <2>1, SlotEarned
<1>2. ASSUME NEW pc \in {"advance", "publish", "published"}, NEW r \in Runs, Continue(s, pc, r)
      PROVE  ReportsEarned
  <2> DEFINE v == [pc |-> pc, work |-> slot[s].work, n |-> slot[s].n, last |-> slot[s].last,
                   run |-> r]
  <2>1. slot' = [slot EXCEPT ![s] = v] /\ v.pc # "ack"
    BY <1>2 DEF Continue
  <2> HIDE DEF v
  <2> QED BY <2>1, SlotEarned
<1>3. CASE slot' = [slot EXCEPT ![s] = Idle]
  <2>1. \A t \in Slots : slot'[t] = IF t = s THEN Idle ELSE slot[t]
    BY <1>3 DEF PipelineInv, SlotsOK
  <2> QED BY <2>1 DEF ReportsEarned, Reporting
<1> QED BY <1>1, <1>2, <1>3

LEMMA TransientEarned ==
  ASSUME PipelineInv, NEW s \in Slots, TransientFailure(s)
  PROVE  ReportsEarned
<1>1. CASE slot[s].last
  <2>1. ProjectThen(s, "project", "failed", "exhausted")
    BY <1>1 DEF TransientFailure
  <2> QED BY <2>1, OtherSlotsEarned DEF Codes
<1>2. CASE ~slot[s].last
  <2>1. Report(s, "failed")
    BY <1>2 DEF TransientFailure
  <2> QED BY <2>1, ReportEarned
<1> QED BY <1>1, <1>2

LEMMA SlotsEarned ==
  ASSUME slot' = slot
  PROVE  ReportsEarned
BY DEF ReportsEarned

-----------------------------------------------------------------------------
(* Steps that write neither batches, runs nor jobs.                         *)

LEMMA QuietKeeps ==
  ASSUME PipelineInv, ReconcilerInv, ReportsEarned, rec' = rec \/ rec' = RecIdle,
         UNCHANGED <<outbox, sent, jobs, batch, run, committed, scenario>>
  PROVE  ReconcilerInv'
<1>1. Steady /\ RowsForward /\ EventsAfter /\ outbox \subseteq outbox'
  BY SameIsSteady DEF RowsForward, EventsAfter
<1>2. WorkEnqueued
  BY DEF WorkEnqueued
<1>3. RecFresh' /\ RecRun' /\ (~scenario.keysReused => RecCommit')
  <2>1. CASE rec' = rec
    BY <1>1, <1>2, <2>1, RecSteady
  <2>2. CASE rec' = RecIdle
    BY <2>2 DEF RecFresh, RecRun, RecCommit
  <2> QED BY <2>1, <2>2
<1> QED BY <1>1, <1>2, <1>3, SteadyKeeps

(* Steps that write the batch row, forward, and its run perhaps.            *)
LEMMA WriteKeeps ==
  ASSUME PipelineInv, ReconcilerInv, ReportsEarned,
         NEW allowed, NEW b \in Batches, NEW status, NEW code, SetBatchWhen(allowed, b, status, code),
         status \notin {"AWAITING_COMMIT_CONFIRMATION", "COMMITTING"},
         UNCHANGED <<outbox, sent, committed, scenario>>,
         \A r \in Runs : run'[r] = run[r] \/ (run[r] = "QUEUED" /\ run'[r] = "FAILED"),
         \/ rec' = rec
         \/ RecFresh' /\ RecRun' /\ (~scenario.keysReused => RecCommit')
  PROVE  ReconcilerInv'
<1>1. /\ Steady
      /\ \A w \in Works : BatchOf(w) # b => jobs'[w] = jobs[w]
      /\ \A c \in Batches : c # b => batch'[c] = batch[c]
      /\ allowed => batch'[b].status = status
      /\ ~allowed => batch' = batch /\ jobs' = jobs
  BY WriteIsSteady
<1>2. RowsForward
  BY <1>1 DEF RowsForward
<1>3. EventsAfter
  BY DEF EventsAfter
<1>4. WorkEnqueued
  <2>1. ASSUME NEW c \in Batches, batch'[c].status = "COMMITTING"
        PROVE  batch[c].status = "COMMITTING" /\ jobs'[Commit(c)] = jobs[Commit(c)]
    <3>1. CASE c # b
      BY <1>1, <2>1, <3>1, Named
    <3>2. CASE c = b
      BY <1>1, <2>1, <3>2
    <3> QED BY <3>1, <3>2
  <2>2. \A r \in Runs : run'[r] = "QUEUED" => run[r] = "QUEUED"
    OBVIOUS
  <2> QED BY <2>1, <2>2 DEF WorkEnqueued
<1>5. RecFresh' /\ RecRun' /\ (~scenario.keysReused => RecCommit')
  BY <1>1, <1>3, <1>4, RecSteady
<1> QED BY <1>1, <1>2, <1>3, <1>4, <1>5, SteadyKeeps

-----------------------------------------------------------------------------
(* Dispatching.                                                             *)

LEMMA SendHolds ==
  ASSUME PipelineInv, NEW e \in outbox, Appended(e), outbox' = outbox,
         sent' = sent \/ sent' = sent \cup {e}, NEW w \in Works
  PROVE  /\ HeldRun(w) => HeldRun(w)'
         /\ HeldCommit(w) => HeldCommit(w)'
         /\ \A n \in DOMAIN jobs[w] : Superseded(w, n) => Superseded(w, n)'
         /\ w # e.work => Pending(w)' = Pending(w) /\ jobs'[w] = jobs[w]
<1>1. /\ Len(jobs[w]) \in Nat /\ DOMAIN jobs[w] = 1..Len(jobs[w])
  BY RowOf
<1>2. CASE w = e.work
  <2>1. Len(jobs'[w]) = Len(jobs[w]) + 1 /\ jobs'[w][Len(jobs'[w])] = NewJob(e)
    BY <1>2 DEF Appended
  <2>2. HeldRun(w)' /\ HeldCommit(w)'
    BY <1>1, <2>1 DEF HeldRun, HeldCommit, Newest, Open, NewJob
  <2>3. \A n \in DOMAIN jobs[w] : Superseded(w, n)'
    BY <1>1, <2>1 DEF Superseded
  <2> QED BY <1>2, <2>2, <2>3
<1>3. CASE w # e.work
  <2>1. Pending(w)' = Pending(w)
    BY <1>3 DEF Pending
  <2>2. jobs'[w] = jobs[w]
    BY <1>3 DEF Appended
  <2> QED BY <1>3, <2>1, <2>2 DEF HeldRun, HeldCommit, Superseded, Newest
<1> QED BY <1>2, <1>3

LEMMA DispatchKeeps ==
  ASSUME PipelineInv, ReconcilerInv, NEW e \in outbox, Dispatch(e) \/ DispatchUnmarked(e),
         UNCHANGED <<scenario, businessVars, committed>>
  PROVE  ReconcilerInv'
<1>1. /\ e \notin sent /\ Send(e) /\ UNCHANGED <<outbox, slot, rec, batch, run, committed, scenario>>
      /\ sent' = sent \/ sent' = sent \cup {e}
  BY DEF Dispatch, DispatchUnmarked, businessVars
<1>2. JobsKept /\ FailedKept /\ Appended(e)
  BY <1>1, SendJob DEF PipelineInv
<1>3. e.work \in Works /\ Pending(e.work)
  BY <1>1, EventFacts DEF PipelineInv, EventsOK, Pending
<1>4. ASSUME NEW w \in Works, Done(w)'
      PROVE  Done(w)
  <2>1. ASSUME NEW n \in DOMAIN jobs'[w], jobs'[w][n].state = "completed"
        PROVE  n \in DOMAIN jobs[w] /\ jobs[w][n].state = "completed"
    <3>1. CASE w # e.work
      BY <1>2, <2>1, <3>1 DEF Appended
    <3>2. CASE w = e.work /\ n = Len(jobs[w]) + 1
      BY <1>2, <2>1, <3>2 DEF Appended, NewJob
    <3>3. CASE w = e.work /\ n \in DOMAIN jobs[w]
      BY <1>2, <2>1, <3>3 DEF Appended
    <3> QED BY <1>2, <2>1, <3>1, <3>2, <3>3 DEF Appended
  <2> QED BY <1>1, <1>4, <2>1 DEF Done
<1>5. CommitsDone' /\ RunsDone' /\ EventsAfterRows'
  BY <1>1, <1>4, Named DEF ReconcilerInv, CommitsDone, RunsDone, EventsAfterRows
<1>6. RunsHeld' /\ (~scenario.keysReused => CommitsHeld')
  <2>1. \A w \in Works : (HeldRun(w) => HeldRun(w)') /\ (HeldCommit(w) => HeldCommit(w)')
    BY <1>1, <1>2, SendHolds
  <2>2. RunsHeld'
    BY <1>1, <2>1, Named DEF ReconcilerInv, RunsHeld
  <2>3. ~scenario.keysReused => CommitsHeld'
    BY <1>1, <2>1, Named DEF ReconcilerInv, CommitsHeld
  <2> QED BY <2>2, <2>3
<1>7. RecFresh' /\ RecRun' /\ (~scenario.keysReused => RecCommit')
  <2>1. CASE rec = RecIdle
    BY <1>1, <2>1 DEF RecFresh, RecRun, RecCommit
  <2>2. CASE rec # RecIdle
    <3>1. rec.work \in Works /\ rec.n \in DOMAIN jobs[rec.work]
      BY <2>2, RecFacts
    <3>2. Superseded(rec.work, rec.n) => Superseded(rec.work, rec.n)'
      BY <1>1, <1>2, <3>1, SendHolds
    <3>3. ~Superseded(rec.work, rec.n) => ~Superseded(rec.work, rec.n)'
      <4>1. ~Superseded(rec.work, rec.n) => rec.work # e.work
        BY <1>3 DEF Superseded
      <4>2. rec.work # e.work => Pending(rec.work)' = Pending(rec.work) /\ jobs'[rec.work] = jobs[rec.work]
        BY <1>1, <1>2, <3>1, SendHolds
      <4> QED BY <1>1, <4>1, <4>2 DEF Superseded
    <3>4. Job(rec)' = Job(rec)
      BY <1>1, <1>2, <3>1 DEF Appended, Job
    <3> QED BY <1>1, <2>2, <3>2, <3>3, <3>4 DEF ReconcilerInv, RecFresh, RecRun, RecCommit
  <2> QED BY <2>1, <2>2
<1> QED BY <1>1, <1>5, <1>6, <1>7 DEF ReconcilerInv

-----------------------------------------------------------------------------
(* Editing one job.                                                         *)

(* An edit may close the newest job only when there is newer work, or when  *)
(* nothing waits for it.                                                    *)
LEMMA EditKeeps ==
  ASSUME PipelineInv, ReconcilerInv, UNCHANGED <<outbox, sent, batch, run, committed, scenario>>,
         NEW w \in Works, NEW n \in DOMAIN jobs[w], NEW job, Edited(w, n, job),
         jobs'[w] \in Seq(JobRow), Len(jobs'[w]) = Len(jobs[w]),
         \A v \in Works \ {w} : jobs'[v] = jobs[v],
         job.state = "completed" =>
           jobs[w][n].state = "completed" \/ \E s \in Slots : Reporting(slot[s], w),
         \A s \in Slots : slot'[s] # slot[s] => ~\E v \in Works : Reporting(slot'[s], v),
         w.topic = "calculation.run" /\ run[w.obj] = "QUEUED" =>
           Superseded(w, n) \/ Open(job),
         ~scenario.keysReused /\ w.topic = "import.commit" /\ batch[w.obj].status = "COMMITTING" =>
           Superseded(w, n) \/ (Open(job) /\ ~job.overtaken),
         \/ rec' = RecIdle
         \/ rec' = rec /\ (jobs[w][n].state = "failed" => job = jobs[w][n])
  PROVE  ReconcilerInv'
<1>1. /\ Len(jobs[w]) \in Nat /\ DOMAIN jobs[w] = 1..Len(jobs[w])
      /\ \A m \in DOMAIN jobs[w] : jobs'[w][m] = IF m = n THEN job ELSE jobs[w][m]
  BY RowOf DEF Edited
<1>2. \A v \in Works : (Pending(v) <=> Pending(v)')
  BY DEF Pending
<1>3. ASSUME NEW v \in Works, Done(v)'
      PROVE  Done(v)
  BY <1>3 DEF Done, Edited
<1>4. CommitsDone' /\ RunsDone' /\ EventsAfterRows'
  BY <1>3, Named DEF ReconcilerInv, CommitsDone, RunsDone, EventsAfterRows
<1>5. ASSUME NEW v \in Works \ {w}
      PROVE  (HeldRun(v) => HeldRun(v)') /\ (HeldCommit(v) => HeldCommit(v)')
  BY <1>2, <1>5 DEF HeldRun, HeldCommit, Newest
<1>6. Superseded(w, n) /\ HeldRun(w) => HeldRun(w)'
  BY <1>1, <1>2 DEF HeldRun, Superseded, Newest
<1>7. Superseded(w, n) /\ HeldCommit(w) => HeldCommit(w)'
  BY <1>1, <1>2 DEF HeldCommit, Superseded, Newest
<1>8. ~Superseded(w, n) => n = Len(jobs[w]) /\ Len(jobs'[w]) > 0 /\ jobs'[w][Len(jobs'[w])] = job
  BY <1>1 DEF Superseded
<1>9. RunsHeld'
  <2> SUFFICES ASSUME NEW r \in Runs, run[r] = "QUEUED"
               PROVE  HeldRun(Run(r))'
    BY DEF RunsHeld
  <2>1. HeldRun(Run(r)) /\ Run(r) \in Works /\ Run(r).topic = "calculation.run" /\ Run(r).obj = r
    BY Named DEF ReconcilerInv, RunsHeld
  <2>2. CASE Run(r) # w
    BY <1>5, <2>1, <2>2
  <2>3. CASE Run(r) = w /\ Superseded(w, n)
    BY <1>6, <2>1, <2>3
  <2>4. CASE Run(r) = w /\ ~Superseded(w, n)
    BY <1>8, <2>1, <2>4 DEF HeldRun, Newest
  <2> QED BY <2>2, <2>3, <2>4
<1>10. ~scenario.keysReused => CommitsHeld'
  <2> SUFFICES ASSUME ~scenario.keysReused, NEW b \in Batches, batch[b].status = "COMMITTING"
               PROVE  HeldCommit(Commit(b))'
    BY DEF CommitsHeld
  <2>1. HeldCommit(Commit(b)) /\ Commit(b) \in Works /\ Commit(b).topic = "import.commit"
        /\ Commit(b).obj = b
    BY Named DEF ReconcilerInv, CommitsHeld
  <2>2. CASE Commit(b) # w
    BY <1>5, <2>1, <2>2
  <2>3. CASE Commit(b) = w /\ Superseded(w, n)
    BY <1>7, <2>1, <2>3
  <2>4. CASE Commit(b) = w /\ ~Superseded(w, n)
    BY <1>8, <2>1, <2>4 DEF HeldCommit, Newest
  <2> QED BY <2>2, <2>3, <2>4
<1>11. RecFresh' /\ RecRun' /\ (~scenario.keysReused => RecCommit')
  <2>1. CASE rec' = RecIdle
    BY <2>1 DEF RecFresh, RecRun, RecCommit
  <2>2. CASE rec' = rec /\ rec = RecIdle
    BY <2>2 DEF RecFresh, RecRun, RecCommit
  <2>3. CASE rec' = rec /\ rec # RecIdle /\ (jobs[w][n].state = "failed" => job = jobs[w][n])
    <3>1. rec.work \in Works /\ rec.n \in DOMAIN jobs[rec.work] /\ Job(rec).state = "failed"
      BY <2>3, RecFacts
    <3>2. Job(rec)' = Job(rec)
      BY <2>3, <3>1 DEF Edited, Job
    <3>3. Superseded(rec.work, rec.n)' <=> Superseded(rec.work, rec.n)
      BY <1>2, <2>3, <3>1 DEF Superseded
    <3> QED BY <2>3, <3>2, <3>3 DEF ReconcilerInv, RecFresh, RecRun, RecCommit
  <2> QED BY <2>1, <2>2, <2>3
<1> QED BY <1>4, <1>9, <1>10, <1>11 DEF ReconcilerInv

(* The same, of the edit a step writes.                                     *)
LEMMA EditFrame ==
  ASSUME PipelineInv, outbox' = outbox, scenario' = scenario,
         NEW w \in Works, NEW n \in DOMAIN jobs[w], NEW job, JobEdit(w, n, job),
         jobs' = [jobs EXCEPT ![w][n] = job]
  PROVE  /\ Edited(w, n, job) /\ jobs'[w] \in Seq(JobRow) /\ Len(jobs'[w]) = Len(jobs[w])
         /\ \A v \in Works \ {w} : jobs'[v] = jobs[v]
<1>1. JobsOK' /\ Edited(w, n, job)
  BY EditJob DEF JobEdit, PipelineInv
<1>2. jobs'[w] \in Seq(JobRow) /\ jobs[w] \in Seq(JobRow)
  BY <1>1, RowOf DEF JobsOK
<1>3. DOMAIN jobs'[w] = DOMAIN jobs[w]
  BY <1>1 DEF Edited
<1>4. Len(jobs'[w]) = Len(jobs[w])
  BY <1>2, <1>3
<1>5. \A v \in Works \ {w} : jobs'[v] = jobs[v]
  BY DEF PipelineInv, JobsOK
<1> QED BY <1>1, <1>2, <1>4, <1>5

(* Fetching and expiring leave a job open, and say nothing of its batch.    *)
LEMMA OpenEditKeeps ==
  ASSUME PipelineInv, ReconcilerInv, UNCHANGED <<outbox, sent, rec, batch, run, committed, scenario>>,
         NEW w \in Works, NEW n \in DOMAIN jobs[w], NEW job, JobEdit(w, n, job),
         jobs' = [jobs EXCEPT ![w][n] = job],
         jobs[w][n].state # "failed", job.state # "completed", ~job.marked, ~job.overtaken,
         \A s \in Slots : slot'[s] # slot[s] => ~\E v \in Works : Reporting(slot'[s], v)
  PROVE  ReconcilerInv'
<1>1. /\ Edited(w, n, job) /\ jobs'[w] \in Seq(JobRow) /\ Len(jobs'[w]) = Len(jobs[w])
      /\ \A v \in Works \ {w} : jobs'[v] = jobs[v]
  BY EditFrame
<1>2. Open(job)
  BY DEF Open
<1> QED BY <1>1, <1>2, EditKeeps

LEMMA FetchKeeps ==
  ASSUME PipelineInv, ReconcilerInv, NEW s \in Slots, NEW w \in Works, NEW n \in DOMAIN jobs[w],
         Fetch(s, w, n), UNCHANGED <<faultVars, businessVars, committed>>
  PROVE  ReconcilerInv'
<1> DEFINE job == jobs[w][n]
           retries == IF job.state = "retry" THEN job.retries + 1 ELSE job.retries
           active == [job EXCEPT !.state = "active", !.retries = retries]
           v == [pc |-> "fetched", work |-> w, n |-> n, last |-> retries >= RetryLimit]
<1>1. job \in JobRow /\ JobFits(w, job) /\ RetryLimit \in Nat
  BY JobFacts
<1>2. job.retries \in Nat /\ retries \in Nat /\ retries <= RetryLimit
  BY <1>1 DEF JobRow, JobFits
<1>3. /\ job.state \in {"created", "retry"}
      /\ jobs' = [jobs EXCEPT ![w][n] = active]
      /\ slot' = [slot EXCEPT ![s] = v]
      /\ UNCHANGED <<outbox, sent, rec>>
  BY DEF Fetch
<1>4. ~job.overtaken /\ ~job.marked
  BY <1>1, <1>3 DEF JobFits
<1>5. active \in JobRow
  BY <1>1, <1>2 DEF JobRow, JobStates
<1>6. active.event = job.event /\ active.retries = retries /\ active.state = "active"
  BY <1>1 DEF JobRow
<1>7. active.overtaken = job.overtaken /\ active.marked = job.marked
  BY <1>1 DEF JobRow
<1>8. v.pc = "fetched" /\ \A t \in Slots : slot'[t] = IF t = s THEN v ELSE slot[t]
  BY <1>3 DEF PipelineInv, SlotsOK
<1> HIDE DEF active, v
<1>9. JobEdit(w, n, active)
  BY <1>2, <1>4, <1>5, <1>6, <1>7 DEF JobEdit
<1>10. \A t \in Slots : slot'[t] # slot[t] => ~\E u \in Works : Reporting(slot'[t], u)
  BY <1>8 DEF Reporting
<1> QED BY <1>3, <1>4, <1>6, <1>7, <1>9, <1>10, OpenEditKeeps DEF faultVars, businessVars

LEMMA ExpireKeeps ==
  ASSUME PipelineInv, ReconcilerInv, NEW w \in Works, NEW n \in DOMAIN jobs[w],
         Expire(w, n) \/ ExpireLate(w, n), UNCHANGED <<scenario, businessVars, committed>>
  PROVE  ReconcilerInv'
<1>1. /\ jobs[w][n].state = "active"
      /\ jobs' = [jobs EXCEPT ![w][n] = FailAttempt(jobs[w][n])]
      /\ UNCHANGED <<outbox, sent, slot, rec>>
  BY DEF Expire, ExpireLate
<1>2. JobEdit(w, n, FailAttempt(jobs[w][n]))
  BY <1>1, FailAttemptEdits
<1>3. /\ ~FailAttempt(jobs[w][n]).overtaken /\ ~FailAttempt(jobs[w][n]).marked
      /\ FailAttempt(jobs[w][n]).state # "completed"
  <2>1. jobs[w][n] \in JobRow /\ ~jobs[w][n].overtaken /\ ~jobs[w][n].marked
    BY <1>1, JobFacts, ActiveJob
  <2> QED BY <2>1 DEF FailAttempt, JobRow
<1> QED BY <1>1, <1>2, <1>3, OpenEditKeeps DEF businessVars

LEMMA AckKeeps ==
  ASSUME PipelineInv, ReconcilerInv, NEW s \in Slots, Ack(s),
         UNCHANGED <<faultVars, businessVars, committed>>
  PROVE  ReconcilerInv'
<1> DEFINE w == slot[s].work
           n == slot[s].n
           result == slot[s].result
           acked == Acknowledged(jobs[w][n], result)
<1>1. slot[s] # Idle /\ slot[s].pc = "ack"
  BY DEF Ack, Idle
<1>2. SlotFits(slot[s]) /\ w \in Works /\ n \in DOMAIN jobs[w]
  BY <1>1, SlotFacts DEF PipelineInv
<1>3. result \in {"completed", "deadletter", "failed"}
  BY <1>1, <1>2 DEF SlotFits
<1>4. JobEdit(w, n, acked) /\ (jobs[w][n].state = "failed" => acked = jobs[w][n])
  BY <1>2, <1>3, AcknowledgedEdits
<1>5. /\ jobs' = [jobs EXCEPT ![w][n] = acked]
      /\ slot' = [slot EXCEPT ![s] = Idle]
      /\ UNCHANGED <<outbox, sent, rec, batch, run, committed, scenario>>
  BY DEF Ack, businessVars, faultVars
<1>6. /\ Edited(w, n, acked) /\ jobs'[w] \in Seq(JobRow) /\ Len(jobs'[w]) = Len(jobs[w])
      /\ \A v \in Works \ {w} : jobs'[v] = jobs[v]
  <2> HIDE DEF acked
  <2> QED BY <1>2, <1>4, <1>5, EditFrame
<1>7. \A t \in Slots : slot'[t] # slot[t] => ~\E u \in Works : Reporting(slot'[t], u)
  BY <1>5 DEF Reporting, PipelineInv, SlotsOK
<1>8. jobs[w][n] \in JobRow /\ JobFits(w, jobs[w][n])
  BY <1>2, JobFacts
<1>9. /\ acked.state = "completed" => jobs[w][n].state = "completed" \/ result = "completed"
      /\ acked.state # "completed" => acked.overtaken = jobs[w][n].overtaken
                                      /\ acked.marked = jobs[w][n].marked
  <2>1. CASE jobs[w][n].state # "active"
    BY <2>1 DEF Acknowledged
  <2>2. CASE jobs[w][n].state = "active" /\ result = "completed"
    <3>1. acked = [jobs[w][n] EXCEPT !.state = "completed", !.retries = 0]
      BY <2>2 DEF Acknowledged
    <3> QED BY <1>8, <2>2, <3>1 DEF JobRow
  <2>3. CASE jobs[w][n].state = "active" /\ result = "deadletter"
    <3>1. acked = [jobs[w][n] EXCEPT !.state = "failed", !.retries = 0]
      BY <2>3 DEF Acknowledged
    <3> QED BY <1>8, <2>3, <3>1 DEF JobRow
  <2>4. CASE jobs[w][n].state = "active" /\ result = "failed"
    <3>1. acked = FailAttempt(jobs[w][n])
      BY <2>4 DEF Acknowledged
    <3>2. acked.state # "completed"
      BY <1>8, <3>1 DEF JobRow, FailAttempt
    <3>3. acked.overtaken = jobs[w][n].overtaken
      BY <1>8, <3>1 DEF JobRow, FailAttempt
    <3>4. acked.marked = jobs[w][n].marked
      BY <1>8, <3>1 DEF JobRow, FailAttempt
    <3> HIDE DEF acked
    <3> QED BY <3>2, <3>3, <3>4
  <2> QED BY <1>3, <2>1, <2>2, <2>3, <2>4
<1>10. result = "completed" => Reporting(slot[s], w)
  BY <1>1 DEF Reporting
<1> HIDE DEF acked
<1>11. acked.state = "completed" => Done(w)
  BY <1>2, <1>9, <1>10 DEF Done
<1>12. w.topic = "calculation.run" /\ run[w.obj] = "QUEUED" => Superseded(w, n) \/ Open(acked)
  <2> SUFFICES ASSUME w.topic = "calculation.run", run[w.obj] = "QUEUED", ~Superseded(w, n)
               PROVE  Open(acked)
    OBVIOUS
  <2>1. w.obj \in Runs /\ w = Run(w.obj)
    BY <1>2, Named
  <2>2. acked.state # "completed"
    BY <1>11, <2>1 DEF ReconcilerInv, RunsDone
  <2>3. Open(jobs[w][n])
    BY <1>2, <2>1, RowOf DEF ReconcilerInv, RunsHeld, HeldRun, Superseded, Newest
  <2> QED BY <1>9, <2>2, <2>3 DEF Open
<1>13. ~scenario.keysReused /\ w.topic = "import.commit" /\ batch[w.obj].status = "COMMITTING"
         => Superseded(w, n) \/ (Open(acked) /\ ~acked.overtaken)
  <2> SUFFICES ASSUME ~scenario.keysReused, w.topic = "import.commit",
                      batch[w.obj].status = "COMMITTING", ~Superseded(w, n)
               PROVE  Open(acked) /\ ~acked.overtaken
    OBVIOUS
  <2>1. w.obj \in Batches /\ w = Commit(w.obj)
    BY <1>2, Named
  <2>2. acked.state # "completed"
    BY <1>11, <2>1, BatchRow DEF ReconcilerInv, CommitsDone, BatchFits, Uncommitted
  <2>3. Open(jobs[w][n]) /\ ~jobs[w][n].overtaken
    BY <1>2, <2>1, RowOf DEF ReconcilerInv, CommitsHeld, HeldCommit, Superseded, Newest
  <2> QED BY <1>9, <2>2, <2>3 DEF Open
<1>14. acked.state = "completed" => jobs[w][n].state = "completed" \/ \E t \in Slots : Reporting(slot[t], w)
  BY <1>9, <1>10
<1> QED BY <1>2, <1>4, <1>5, <1>6, <1>7, <1>12, <1>13, <1>14, EditKeeps

(* A failed job is marked done.                                             *)
LEMMA MarkKeeps ==
  ASSUME PipelineInv, ReconcilerInv, NEW w \in Works, NEW n \in DOMAIN jobs[w],
         jobs[w][n].state = "failed",
         jobs' = [jobs EXCEPT ![w][n] = Reconciled(jobs[w][n])], rec' = RecIdle,
         UNCHANGED <<outbox, sent, slot, scenario, businessVars, committed>>,
         Superseded(w, n)
           \/ (/\ w.topic = "calculation.run" => run[w.obj] # "QUEUED"
               /\ ~scenario.keysReused /\ w.topic = "import.commit"
                    => batch[w.obj].status # "COMMITTING")
  PROVE  ReconcilerInv'
<1> DEFINE job == Reconciled(jobs[w][n])
<1>1. JobEdit(w, n, job) /\ jobs[w][n] \in JobRow
  BY ReconciledEdits, JobFacts
<1>2. job.state = "failed"
  BY <1>1 DEF Reconciled, JobRow
<1> HIDE DEF job
<1>3. /\ Edited(w, n, job) /\ jobs'[w] \in Seq(JobRow) /\ Len(jobs'[w]) = Len(jobs[w])
      /\ \A v \in Works \ {w} : jobs'[v] = jobs[v]
  BY <1>1, EditFrame DEF job
<1> QED BY <1>2, <1>3, EditKeeps DEF businessVars

LEMMA QueueKeeps ==
  ASSUME PipelineInv, ReconcilerInv,
         \/ QueueOnly(QueueStep)
         \/ QueueFault /\ UNCHANGED <<businessVars, committed>>
  PROVE  ReconcilerInv'
<1>1. DOMAIN jobs = Works
  BY DEF PipelineInv, JobsOK
<1>2. CASE QueueOnly(QueueStep)
  <2>1. QueueStep /\ UNCHANGED <<faultVars, businessVars, committed>> /\ scenario' = scenario
        /\ UNCHANGED <<batch, run, committed>>
    BY <1>2 DEF QueueOnly, faultVars, businessVars
  <2>2. CASE DispatcherStep
    BY <2>1, <2>2, DispatchKeeps DEF DispatcherStep
  <2>3. ASSUME NEW s \in Slots, Take(s) PROVE ReconcilerInv'
    BY <1>1, <2>1, <2>3, FetchKeeps DEF Take
  <2>4. ASSUME NEW s \in Slots, Begin(s) PROVE ReconcilerInv'
    <3> DEFINE v == IF Job(slot[s]).state = "active" THEN [slot[s] EXCEPT !.pc = "work"] ELSE Idle
    <3>1. UNCHANGED <<outbox, sent, jobs, rec>> /\ slot' = [slot EXCEPT ![s] = v] /\ slot[s].pc = "fetched"
      BY <2>4 DEF Begin
    <3>2. v.pc # "ack"
      <4>1. slot[s] # Idle /\ "pc" \in DOMAIN slot[s]
        BY <3>1 DEF Idle, PipelineInv, SlotsOK, SlotFits
      <4> QED BY <3>1, <4>1 DEF Idle
    <3> HIDE DEF v
    <3>3. ReportsEarned
      BY <3>1, <3>2, SlotEarned
    <3> QED BY <2>1, <3>1, <3>3, QuietKeeps
  <2>5. ASSUME NEW s \in Slots, Ack(s) PROVE ReconcilerInv'
    BY <2>1, <2>5, AckKeeps
  <2>6. CASE Expiry
    BY <1>1, <2>1, <2>6, ExpireKeeps DEF Expiry
  <2> QED BY <2>1, <2>2, <2>3, <2>4, <2>5, <2>6 DEF QueueStep
<1>3. CASE QueueFault /\ UNCHANGED <<businessVars, committed>>
  <2>1. ASSUME NEW e \in outbox, DispatchUnmarked(e) PROVE ReconcilerInv'
    BY <1>3, <2>1, DispatchKeeps DEF DispatchUnmarked, Fault
  <2>2. ASSUME NEW w \in DOMAIN jobs, NEW n \in DOMAIN jobs[w], ExpireLate(w, n) PROVE ReconcilerInv'
    BY <1>1, <1>3, <2>2, ExpireKeeps DEF ExpireLate, Fault
  <2>3. ASSUME NEW s \in Slots, Crash(s) PROVE ReconcilerInv'
    <3>1. UNCHANGED <<outbox, sent, jobs, rec, scenario, batch, run, committed>>
          /\ slot' = [slot EXCEPT ![s] = Idle]
      BY <1>3, <2>3 DEF Crash, Fault, businessVars
    <3> QED BY <3>1, OtherSlotsEarned, QuietKeeps
  <2> QED BY <1>3, <2>1, <2>2, <2>3 DEF QueueFault
<1> QED BY <1>2, <1>3

-----------------------------------------------------------------------------
(* The API.                                                                 *)

(* An event that was not in the outbox waits to be dispatched.              *)
LEMMA NewIsPending ==
  ASSUME PipelineInv, NEW e, Enqueue(e), sent' = sent, e \notin outbox
  PROVE  Pending(e.work)'
BY DEF PipelineInv, EventsOK, Enqueue, Pending

LEMMA CommittingKeeps ==
  ASSUME PipelineInv, ReconcilerInv, NEW b \in Batches, NEW key \in Keys \cup {SystemKey},
         ~scenario.keysReused => CommitEvent(b, key) \notin outbox,
         SetBatch(b, "COMMITTING", "none"), Enqueue(CommitEvent(b, key)),
         UNCHANGED <<sent, slot, rec, run, committed, scenario>>
  PROVE  ReconcilerInv'
<1> DEFINE e == CommitEvent(b, key)
<1>1. /\ e.work = Commit(b) /\ outbox \subseteq outbox' /\ \A f \in outbox' \ outbox : f = e
      /\ SetBatchWhen(TRUE, b, "COMMITTING", "none")
  BY DEF CommitEvent, Enqueue, Commit, SetBatchWhen
<1>2. /\ Steady
      /\ \A w \in Works : BatchOf(w) # b => jobs'[w] = jobs[w]
      /\ \A c \in Batches : c # b => batch'[c] = batch[c]
      /\ batch'[b].status = "COMMITTING"
      /\ \A w \in Works : BatchOf(w) = b => \A n \in DOMAIN jobs[w] :
           jobs[w][n].state = "failed" /\ ~jobs[w][n].marked => jobs'[w][n].overtaken
  BY <1>1, WriteIsSteady
<1>3. ~scenario.keysReused => Pending(Commit(b))'
  BY <1>1, NewIsPending
<1>4. RowsForward
  BY <1>2 DEF RowsForward
<1>5. WorkEnqueued
  <2>1. ASSUME ~scenario.keysReused, NEW c \in Batches, batch'[c].status = "COMMITTING"
        PROVE  \/ Pending(Commit(c))'
               \/ batch[c].status = "COMMITTING" /\ jobs'[Commit(c)] = jobs[Commit(c)]
    <3>1. CASE c = b
      BY <1>3, <2>1, <3>1
    <3>2. CASE c # b
      BY <1>2, <2>1, <3>2, Named
    <3> QED BY <3>1, <3>2
  <2> QED BY <2>1 DEF WorkEnqueued
<1>6. EventsAfter
  BY <1>1, <1>2, Named DEF EventsAfter
<1> HIDE DEF e
<1>7. ReportsEarned
  BY SlotsEarned
<1>8. RecFresh' /\ RecRun' /\ (~scenario.keysReused => RecCommit')
  BY <1>1, <1>2, <1>5, <1>6, RecSteady
<1> QED BY <1>1, <1>2, <1>4, <1>5, <1>6, <1>7, <1>8, SteadyKeeps

(* A batch made COMMITTED, with a request to calculate it.                  *)
LEMMA CommittedKeeps ==
  ASSUME PipelineInv, ReconcilerInv, NEW b \in Batches, NEW key \in Keys \cup {SystemKey},
         SetBatch(b, "COMMITTED", "none"), Enqueue(RequestEvent(b, key)), ReportsEarned,
         committed \subseteq committed', UNCHANGED <<sent, rec, run, scenario>>
  PROVE  ReconcilerInv'
<1> DEFINE e == RequestEvent(b, key)
<1>1. /\ e.work \in Works /\ e.work.topic = "calculation.requested" /\ BatchOf(e.work) = b
      /\ outbox \subseteq outbox' /\ \A f \in outbox' \ outbox : f = e
      /\ SetBatchWhen(TRUE, b, "COMMITTED", "none")
  BY DEF RequestEvent, Work, Works, BatchOf, Enqueue, SetBatchWhen
<1>2. /\ Steady
      /\ \A w \in Works : BatchOf(w) # b => jobs'[w] = jobs[w]
      /\ \A c \in Batches : c # b => batch'[c] = batch[c]
      /\ batch'[b].status = "COMMITTED"
      /\ \A w \in Works : BatchOf(w) = b => \A n \in DOMAIN jobs[w] :
           jobs[w][n].state = "failed" /\ ~jobs[w][n].marked => jobs'[w][n].overtaken
  BY <1>1, WriteIsSteady
<1>3. RowsForward
  BY <1>2 DEF RowsForward
<1>4. WorkEnqueued
  <2>1. ASSUME NEW c \in Batches, batch'[c].status = "COMMITTING"
        PROVE  batch[c].status = "COMMITTING" /\ jobs'[Commit(c)] = jobs[Commit(c)]
    <3>1. c # b
      BY <1>2, <2>1
    <3> QED BY <1>2, <2>1, <3>1, Named
  <2> QED BY <2>1 DEF WorkEnqueued
<1>5. EventsAfter
  BY <1>1, <1>2 DEF EventsAfter
<1> HIDE DEF e
<1>6. RecFresh' /\ RecRun' /\ (~scenario.keysReused => RecCommit')
  BY <1>1, <1>2, <1>4, <1>5, RecSteady
<1> QED BY <1>1, <1>2, <1>3, <1>4, <1>5, <1>6, SteadyKeeps

LEMMA ApiKeeps ==
  ASSUME PipelineInv, ReconcilerInv, NoFault(Api)
  PROVE  ReconcilerInv'
<1>1. Api /\ scenario' = scenario /\ scenario.batches \subseteq Batches /\ scenario.keys \subseteq Keys
  BY PipelineAssumption DEF NoFault, faultVars, PipelineInv
<1>2. ASSUME NEW b \in Batches, NEW key \in Keys, Confirm(b, key) PROVE ReconcilerInv'
  BY <1>1, <1>2, CommittingKeeps DEF Confirm
<1>3. ASSUME NEW b \in Batches, Preflight(b) PROVE ReconcilerInv'
  <2>1. CommitEvent(b, SystemKey) \notin outbox
    <3>1. /\ CommitEvent(b, SystemKey).work.topic = "import.commit"
          /\ CommitEvent(b, SystemKey).work.obj = b
      BY DEF CommitEvent, Work
    <3> QED BY <1>3, <3>1 DEF Preflight, ReconcilerInv, EventsAfterRows
  <2> QED BY <1>1, <1>3, <2>1, CommittingKeeps DEF Preflight
<1>4. ASSUME NEW b \in Batches, NEW key \in Keys, Resume(b, key) PROVE ReconcilerInv'
  BY <1>1, <1>4, CommittedKeeps, SlotsEarned DEF Resume
<1>5. CASE AcknowledgeHard \/ SyncRates
  BY <1>1, <1>5, QuietKeeps, SlotsEarned DEF AcknowledgeHard, SyncRates, queueVars
<1> QED BY <1>1, <1>2, <1>3, <1>4, <1>5 DEF Api

-----------------------------------------------------------------------------
(* The handlers.                                                            *)

LEMMA CommitKeeps ==
  ASSUME PipelineInv, ReconcilerInv, NEW s \in Slots, CommitWork(s), UNCHANGED faultVars
  PROVE  ReconcilerInv'
<1> DEFINE b == slot[s].work.obj
<1>0. scenario' = scenario /\ sent' = sent /\ rec' = rec
  BY DEF faultVars, CommitWork
<1>1. slot[s] # Idle /\ slot[s].work.topic = "import.commit" /\ slot[s].work \in Works /\ b \in Batches
  BY SlotFacts, WorkFacts DEF CommitWork, Idle, PipelineInv
<1>2. CASE batch[b].status \in AlreadyCommitted /\ Report(s, "completed")
           /\ UNCHANGED <<outbox, jobs, businessVars, committed>>
  <2>1. b \in committed'
    BY <1>1, <1>2, BatchRow DEF BatchFits, AlreadyCommitted, Calculable, Uncommitted
  <2>2. ReportsEarned
    BY <1>1, <1>2, <2>1, ReportEarned
  <2> QED BY <1>0, <1>2, <2>2, QuietKeeps DEF businessVars
<1>3. CASE SetBatch(b, "COMMITTED", "none") /\ Enqueue(RequestEvent(b, SystemKey))
           /\ committed' = committed \cup {b} /\ Report(s, "completed") /\ run' = run
  <2>1. ReportsEarned
    BY <1>1, <1>3, ReportEarned
  <2> QED BY <1>0, <1>1, <1>3, <2>1, CommittedKeeps
<1>4. CASE UNCHANGED <<outbox, jobs, businessVars, committed>>
           /\ \/ TransientFailure(s)
              \/ \E code \in {"capacity", "rejected"} : ProjectThen(s, "persist", "deadletter", code)
  <2>1. ReportsEarned
    BY <1>4, TransientEarned, OtherSlotsEarned DEF Codes
  <2> QED BY <1>0, <1>4, <2>1, QuietKeeps DEF businessVars
<1> QED BY <1>2, <1>3, <1>4 DEF CommitWork

LEMMA PersistKeeps ==
  ASSUME PipelineInv, ReconcilerInv, NEW s \in Slots, PersistSafeFailure(s), UNCHANGED faultVars
  PROVE  ReconcilerInv'
<1>1. /\ slot[s] # Idle /\ slot[s].pc = "persist" /\ SlotFits(slot[s]) /\ slot[s].work \in Works
      /\ slot[s].work.topic = "import.commit" /\ slot[s].work.obj \in Batches
  BY SlotFacts, WorkFacts DEF PersistSafeFailure, Idle, PipelineInv, SlotFits
<1>2. slot[s].code \in Codes /\ slot[s].result \in {"deadletter", "failed"}
  BY <1>1 DEF SlotFits
<1>3. ReportsEarned
  BY <1>2, OtherSlotsEarned DEF PersistSafeFailure
<1> QED BY <1>1, <1>3, WriteKeeps DEF PersistSafeFailure, faultVars

LEMMA RequestKeeps ==
  ASSUME PipelineInv, ReconcilerInv, NEW s \in Slots, RequestWork(s), UNCHANGED faultVars
  PROVE  ReconcilerInv'
<1>1. slot[s] # Idle /\ slot[s].work.topic = "calculation.requested" /\ slot[s].work.obj \in committed
  BY LaterWork DEF RequestWork, Idle
<1>2. PICK r \in Runs : r = CurrentRun(slot[s].work.obj)
  BY <1>1, CurrentRunExists
<1> DEFINE e == RunEvent(r)
<1>3. UNCHANGED <<sent, jobs, rec, batch, committed, scenario>>
  BY DEF RequestWork, faultVars
<1>4. CASE /\ run' = [run EXCEPT ![r] = IF run[r] = "ABSENT" THEN "QUEUED" ELSE run[r]]
           /\ IF run'[r] = "QUEUED" THEN Enqueue(e) ELSE UNCHANGED outbox
           /\ Continue(s, "advance", r)
  <2>1. e.work = Run(r) /\ e \in Events
    BY <1>2, RunEvents DEF RunEvent, Run
  <2>2. \A q \in Runs : run'[q] = IF q = r /\ run[q] = "ABSENT" THEN "QUEUED" ELSE run[q]
    BY <1>2, <1>4 DEF PipelineInv, RowsOK
  <2> HIDE DEF e
  <2>3. /\ outbox \subseteq outbox' /\ (\A f \in outbox' \ outbox : f = e)
        /\ outbox' = outbox \/ run'[r] = "QUEUED"
    BY <1>4 DEF Enqueue
  <2>4. \A f \in outbox : f.work = Run(r) => f = e
    <3>1. ASSUME NEW f \in outbox, f.work = Run(r) PROVE f = e
      <4>1. f \in Events /\ f.work.topic = "calculation.run" /\ f.work.obj = r
        BY <1>2, <3>1, Named DEF PipelineInv, EventsOK
      <4> QED BY <4>1, OneRunEvent DEF e
    <3> QED BY <3>1
  <2>5. run[r] = "ABSENT" => Pending(Run(r))'
    <3> SUFFICES ASSUME run[r] = "ABSENT" PROVE Pending(Run(r))'
      OBVIOUS
    <3>1. e \notin outbox
      BY <1>2, <2>1, Named DEF ReconcilerInv, EventsAfterRows
    <3>2. Enqueue(e)
      BY <1>2, <1>4, <2>2
    <3> QED BY <1>3, <2>1, <3>1, <3>2, NewIsPending
  <2>6. Steady /\ RowsForward
    BY <1>3, <2>2, SameIsSteady DEF RowsForward
  <2>7. WorkEnqueued
    <3>1. \A q \in Runs : run'[q] = "QUEUED" =>
            run[q] = "QUEUED" \/ (run[q] = "ABSENT" /\ Pending(Run(q))')
      BY <2>2, <2>5
    <3> QED BY <1>3, <3>1 DEF WorkEnqueued
  <2>8. EventsAfter
    <3>1. ASSUME NEW f \in outbox' \ outbox
          PROVE  f = e /\ run'[r] # "ABSENT" /\ \A g \in outbox : g.work # Run(r)
      BY <2>3, <2>4, <3>1
    <3> QED BY <1>2, <2>1, <3>1, Named DEF EventsAfter
  <2>9. ReportsEarned
    BY <1>2, <1>4, OtherSlotsEarned
  <2>10. RecFresh' /\ RecRun' /\ (~scenario.keysReused => RecCommit')
    BY <1>3, <2>3, <2>6, <2>7, <2>8, RecSteady
  <2> QED BY <1>3, <2>3, <2>6, <2>7, <2>8, <2>9, <2>10, SteadyKeeps
<1>5. CASE UNCHANGED <<outbox, run>>
           /\ (ProjectThen(s, "project", "deadletter", "hard")
                \/ ProjectThen(s, "project", "deadletter", "rejected"))
  <2>1. ReportsEarned
    BY <1>5, OtherSlotsEarned DEF Codes
  <2> QED BY <1>3, <1>5, <2>1, QuietKeeps
<1> QED BY <1>2, <1>4, <1>5 DEF RequestWork

LEMMA CalculateKeeps ==
  ASSUME PipelineInv, ReconcilerInv, NEW s \in Slots, CalculateWork(s), UNCHANGED faultVars
  PROVE  ReconcilerInv'
<1> DEFINE r == slot[s].work.obj
           e == PublishEvent(r)
<1>1. slot[s] # Idle /\ slot[s].work.topic = "calculation.run" /\ r \in Runs
  BY LaterWork DEF CalculateWork, Idle
<1>2. UNCHANGED <<sent, jobs, rec, batch, committed, scenario>>
  BY DEF CalculateWork, faultVars
<1>3. CASE /\ run[r] \in {"QUEUED", "READY"} /\ run' = [run EXCEPT ![r] = "READY"]
           /\ Enqueue(e) /\ Report(s, "completed")
  <2>1. e.work.topic = "report.auto-publish" /\ e.work \in Works
    BY <1>1 DEF PublishEvent, Work, Works, Runs
  <2> HIDE DEF e
  <2>2. outbox \subseteq outbox' /\ \A f \in outbox' \ outbox : f = e
    BY <1>3 DEF Enqueue
  <2>3. \A q \in Runs : run'[q] = IF q = r THEN "READY" ELSE run[q]
    BY <1>1, <1>3 DEF PipelineInv, RowsOK
  <2>4. Steady /\ RowsForward
    BY <1>2, <1>3, <2>3, SameIsSteady DEF RowsForward
  <2>5. WorkEnqueued
    BY <1>2, <2>3 DEF WorkEnqueued
  <2>6. EventsAfter
    BY <2>1, <2>2 DEF EventsAfter
  <2>7. ReportsEarned
    BY <1>1, <1>3, <2>3, ReportEarned
  <2>8. RecFresh' /\ RecRun' /\ (~scenario.keysReused => RecCommit')
    BY <1>2, <2>2, <2>4, <2>5, <2>6, RecSteady
  <2> QED BY <1>2, <2>2, <2>4, <2>5, <2>6, <2>7, <2>8, SteadyKeeps
<1>4. CASE ProjectThen(s, "project", "deadletter", "rejected") /\ UNCHANGED <<outbox, run>>
  <2>1. ReportsEarned
    BY <1>4, OtherSlotsEarned DEF Codes
  <2> QED BY <1>2, <1>4, <2>1, QuietKeeps
<1> QED BY <1>3, <1>4 DEF CalculateWork

(* The same of a write that asks nothing of the row.                        *)
LEMMA UnguardedKeeps ==
  ASSUME PipelineInv, ReconcilerInv, ReportsEarned,
         NEW b \in Batches, NEW status, NEW code, SetBatch(b, status, code),
         status \notin {"AWAITING_COMMIT_CONFIRMATION", "COMMITTING"},
         UNCHANGED <<outbox, sent, rec, run, committed, scenario>>
  PROVE  ReconcilerInv'
<1> DEFINE allowed == b \in Batches
<1>1. allowed
  OBVIOUS
<1>2. SetBatchWhen(allowed, b, status, code)
  BY <1>1 DEF SetBatchWhen
<1> HIDE DEF allowed
<1> QED BY <1>2, WriteKeeps

(* Writes of the batch row by the handlers that come after the commit.      *)
LEMMA LaterWritesKeep ==
  ASSUME PipelineInv, ReconcilerInv, NEW s \in Slots,
         AdvanceBatch(s) \/ AnnouncePublish(s) \/ RecordPublished(s), UNCHANGED faultVars
  PROVE  ReconcilerInv'
<1> DEFINE b == slot[s].work.obj
<1>1. slot[s] # Idle /\ slot[s].work.topic \in {"calculation.requested", "report.auto-publish"}
  BY DEF AdvanceBatch, AnnouncePublish, RecordPublished, Idle, PipelineInv, SlotsOK, SlotFits
<1>2. slot[s].work \in Works /\ b \in Batches
  BY <1>1, LaterWork
<1>3. UNCHANGED <<outbox, sent, rec, run, committed, scenario>>
  BY DEF AdvanceBatch, AnnouncePublish, RecordPublished, faultVars
<1>4. CASE AdvanceBatch(s)
  <2>1. ReportsEarned
    BY <1>1, <1>4, ReportEarned DEF AdvanceBatch
  <2> QED BY <1>2, <1>3, <1>4, <2>1, WriteKeeps DEF AdvanceBatch
<1>5. CASE AnnouncePublish(s)
  <2>1. Job(slot[s]).event.key \in Runs
    BY <1>1, <1>5, SlotFacts, EventFacts DEF AnnouncePublish, PipelineInv
  <2>2. ReportsEarned
    BY <1>5, <2>1, OtherSlotsEarned DEF AnnouncePublish
  <2>3. SetBatch(b, "RESULT_PUBLISHING", "none")
    BY <1>5 DEF AnnouncePublish
  <2> QED BY <1>2, <1>3, <2>2, <2>3, UnguardedKeeps
<1>6. CASE RecordPublished(s)
  <2>1. ReportsEarned
    BY <1>1, <1>6, ReportEarned DEF RecordPublished
  <2>2. SetBatch(b, "RESULT_PUBLISHED", "none")
    BY <1>6 DEF RecordPublished
  <2> QED BY <1>2, <1>3, <2>1, <2>2, UnguardedKeeps
<1> QED BY <1>4, <1>5, <1>6

LEMMA PublishKeeps ==
  ASSUME PipelineInv, ReconcilerInv, NEW s \in Slots, PublishSnapshot(s), UNCHANGED faultVars
  PROVE  ReconcilerInv'
<1>1. slot[s] # Idle /\ slot[s].run \in Runs
  BY DEF PublishSnapshot, Idle, PipelineInv, SlotsOK, SlotFits
<1>2. ReportsEarned
  BY <1>1, TransientEarned, OtherSlotsEarned DEF PublishSnapshot
<1> QED BY <1>2, QuietKeeps DEF PublishSnapshot, faultVars

(* A run that fails was QUEUED.                                             *)
LEMMA RunFailsForward ==
  ASSUME PipelineInv, NEW r \in Runs, NEW code, MarkCalculationRunFailed(r, code)
  PROVE  /\ \A q \in Runs : run'[q] = run[q] \/ (run[q] = "QUEUED" /\ run'[q] = "FAILED")
         /\ run'[r] # "QUEUED" /\ r.batch \in Batches
         /\ \E allowed \in BOOLEAN : /\ SetBatchWhen(allowed, r.batch, "FAILED", code)
                                     /\ allowed => run[r] = "QUEUED"
<1>1. r.batch \in Batches
  BY DEF Runs
<1>2. CASE run[r] = "QUEUED"
  <2> DEFINE allowed == batch[r.batch].status \in Calculable
  <2>1. run' = [run EXCEPT ![r] = "FAILED"] /\ SetBatchWhen(allowed, r.batch, "FAILED", code)
    BY <1>2 DEF MarkCalculationRunFailed
  <2>2. \A q \in Runs : run'[q] = IF q = r THEN "FAILED" ELSE run[q]
    BY <2>1 DEF PipelineInv, RowsOK
  <2>3. allowed \in BOOLEAN
    OBVIOUS
  <2> HIDE DEF allowed
  <2>4. \E ok \in BOOLEAN : SetBatchWhen(ok, r.batch, "FAILED", code) /\ (ok => run[r] = "QUEUED")
    BY <1>2, <2>1, <2>3
  <2> QED BY <1>1, <1>2, <2>2, <2>4
<1>3. CASE run[r] # "QUEUED"
  <2> DEFINE allowed == run[r] = "QUEUED"
  <2>1. UNCHANGED <<run, batch, jobs>> /\ ~allowed /\ allowed \in BOOLEAN
    BY <1>3 DEF MarkCalculationRunFailed
  <2>2. SetBatchWhen(allowed, r.batch, "FAILED", code)
    BY <2>1 DEF SetBatchWhen
  <2> HIDE DEF allowed
  <2>3. \E ok \in BOOLEAN : SetBatchWhen(ok, r.batch, "FAILED", code) /\ (ok => run[r] = "QUEUED")
    BY <2>1, <2>2
  <2> QED BY <1>1, <1>3, <2>1, <2>3
<1> QED BY <1>2, <1>3

LEMMA ProjectKeeps ==
  ASSUME PipelineInv, ReconcilerInv, NEW s \in Slots, ProjectTerminal(s), UNCHANGED faultVars
  PROVE  ReconcilerInv'
<1> DEFINE w == slot[s].work
<1>1. /\ slot[s] # Idle /\ slot[s].pc = "project" /\ SlotFits(slot[s]) /\ w \in Works
      /\ BatchOf(w) \in Batches
  BY SlotFacts DEF ProjectTerminal, Idle, PipelineInv
<1>2. slot[s].result \in {"deadletter", "failed"}
  BY <1>1 DEF SlotFits
<1>3. ReportsEarned
  BY <1>2, ReportEarned DEF ProjectTerminal
<1>4. UNCHANGED <<outbox, sent, rec, committed, scenario>>
  BY DEF ProjectTerminal, faultVars
<1>5. CASE w.topic = "import.commit"
  <2>1. MarkImportCommitFailed(w.obj, slot[s].code) /\ run' = run /\ w.obj \in Batches
    BY <1>1, <1>5 DEF ProjectTerminal, BatchOf
  <2> QED BY <1>3, <1>4, <2>1, WriteKeeps DEF MarkImportCommitFailed
<1>6. CASE w.topic = "calculation.requested"
  <2>1. MarkCalculationRequestFailed(w.obj, slot[s].code) /\ run' = run /\ w.obj \in Batches
    BY <1>1, <1>6 DEF ProjectTerminal, BatchOf
  <2> QED BY <1>3, <1>4, <2>1, WriteKeeps DEF MarkCalculationRequestFailed
<1>7. CASE w.topic = "calculation.run"
  <2>1. MarkCalculationRunFailed(w.obj, slot[s].code) /\ w.obj \in Runs
    BY <1>1, <1>7, WorkFacts DEF ProjectTerminal
  <2> QED BY <1>3, <1>4, <2>1, RunFailsForward, WriteKeeps
<1>8. CASE w.topic = "report.auto-publish"
  <2>1. MarkAutoPublishFailed(w.obj) /\ run' = run /\ w.obj \in Batches
    BY <1>1, <1>8 DEF ProjectTerminal, BatchOf
  <2> QED BY <1>3, <1>4, <2>1, WriteKeeps DEF MarkAutoPublishFailed
<1> QED BY <1>1, <1>5, <1>6, <1>7, <1>8, WorkFacts

LEMMA HandlerKeeps ==
  ASSUME PipelineInv, ReconcilerInv, NoFault(\E s \in Slots : HandlerStep(s))
  PROVE  ReconcilerInv'
<1>1. PICK s \in Slots : HandlerStep(s)
  BY DEF NoFault
<1>2. UNCHANGED faultVars
  BY DEF NoFault
<1>3. CASE CommitWork(s) \/ PersistSafeFailure(s) \/ RequestWork(s) \/ CalculateWork(s)
  BY <1>2, <1>3, CommitKeeps, PersistKeeps, RequestKeeps, CalculateKeeps
<1>4. CASE AdvanceBatch(s) \/ AnnouncePublish(s) \/ RecordPublished(s)
  BY <1>2, <1>4, LaterWritesKeep
<1>5. CASE PublishSnapshot(s) \/ ProjectTerminal(s)
  BY <1>2, <1>5, PublishKeeps, ProjectKeeps
<1> QED BY <1>1, <1>3, <1>4, <1>5 DEF HandlerStep

LEMMA FaultKeeps ==
  ASSUME PipelineInv, ReconcilerInv,
         (\E s \in Slots : StepFails(s) \/ ProjectionFails(s)) \/ ReconciliationFails
  PROVE  ReconcilerInv'
<1>1. UNCHANGED <<outbox, sent, jobs, batch, run, committed, scenario>>
      /\ (rec' = rec \/ rec' = RecIdle)
  BY DEF StepFails, ProjectionFails, ReconciliationFails, ReconciliationLost, Fault, businessVars
<1>2. ReportsEarned
  <2>1. ASSUME NEW s \in Slots, StepFails(s) PROVE ReportsEarned
    BY <2>1, TransientEarned DEF StepFails
  <2>2. ASSUME NEW s \in Slots, ProjectionFails(s) PROVE ReportsEarned
    BY <2>2, ReportEarned DEF ProjectionFails
  <2>3. CASE ReconciliationFails
    BY <2>3, SlotsEarned DEF ReconciliationFails, ReconciliationLost
  <2> QED BY <2>1, <2>2, <2>3
<1> QED BY <1>1, <1>2, QuietKeeps

-----------------------------------------------------------------------------
(* The reconciler.                                                          *)

LEMMA StartKeeps ==
  ASSUME PipelineInv, ReconcilerInv, NEW w \in Works, NEW n \in DOMAIN jobs[w],
         StartReconciliation(w, n), UNCHANGED faultVars
  PROVE  ReconcilerInv'
<1>1. /\ rec = RecIdle /\ jobs[w][n].state = "failed"
      /\ UNCHANGED <<outbox, sent, slot, scenario, businessVars, committed>>
  BY DEF StartReconciliation, BeginReconciliation, Reconcilable, faultVars
<1>2. CASE Superseded(w, n)
  <2>1. jobs' = [jobs EXCEPT ![w][n] = Reconciled(jobs[w][n])] /\ rec' = RecIdle
    BY <1>1, <1>2 DEF StartReconciliation, BeginReconciliation
  <2> QED BY <1>1, <1>2, <2>1, MarkKeeps
<1>3. CASE ~Superseded(w, n)
  <2>1. rec' = [pc |-> "project", work |-> w, n |-> n] /\ jobs' = jobs
    BY <1>3 DEF StartReconciliation, BeginReconciliation
  <2>2. rec'.pc = "project" /\ rec'.work = w /\ rec'.n = n
    BY <2>1
  <2>3. (~Superseded(w, n))'
    BY <1>1, <1>3, <2>1 DEF Superseded, Pending
  <2>4. RecFresh' /\ RecRun' /\ RecCommit'
    BY <2>2, <2>3 DEF RecFresh, RecRun, RecCommit
  <2>5. Steady /\ RowsForward /\ EventsAfter /\ WorkEnqueued /\ ReportsEarned
    BY <1>1, <2>1, SameIsSteady, SlotsEarned DEF RowsForward, EventsAfter, WorkEnqueued, businessVars
  <2> QED BY <1>1, <2>4, <2>5, SteadyKeeps
<1> QED BY <1>2, <1>3

LEMMA RecordKeeps ==
  ASSUME PipelineInv, ReconcilerInv, RecordReconciliation, UNCHANGED faultVars
  PROVE  ReconcilerInv'
<1>1. rec # RecIdle /\ rec.pc = "record"
  BY DEF RecordReconciliation, EndReconciliation, RecIdle
<1>2. rec.work \in Works /\ rec.n \in DOMAIN jobs[rec.work] /\ jobs[rec.work][rec.n].state = "failed"
  BY <1>1, RecFacts DEF Job
<1>3. /\ jobs' = [jobs EXCEPT ![rec.work][rec.n] = Reconciled(jobs[rec.work][rec.n])] /\ rec' = RecIdle
      /\ UNCHANGED <<outbox, sent, slot, scenario, businessVars, committed>>
  BY DEF RecordReconciliation, EndReconciliation, faultVars
<1>4. Superseded(rec.work, rec.n)
        \/ (/\ rec.work.topic = "calculation.run" => run[rec.work.obj] # "QUEUED"
            /\ ~scenario.keysReused /\ rec.work.topic = "import.commit"
                 => batch[rec.work.obj].status # "COMMITTING")
  BY <1>1 DEF ReconcilerInv, RecRun, RecCommit
<1> QED BY <1>2, <1>3, <1>4, MarkKeeps

(* After the UPDATE: a commit that still shows COMMITTING was passed over    *)
(* for newer work, and a run that was QUEUED no longer is.                  *)
LEMMA ProjectedCommit ==
  ASSUME PipelineInv, ReconcilerInv, ~scenario.keysReused, NEW b \in Batches,
         rec # RecIdle, rec.work = Commit(b), rec'.n = rec.n,
         SetBatchWhen(batch[b].status = "COMMITTING" /\ NotOvertaken(rec), b, "FAILED", "exhausted"),
         UNCHANGED <<outbox, sent, scenario>>, batch'[b].status = "COMMITTING"
  PROVE  Superseded(Commit(b), rec.n)'
<1> DEFINE allowed == batch[b].status = "COMMITTING" /\ NotOvertaken(rec)
<1>1. SetBatchWhen(allowed, b, "FAILED", "exhausted")
  OBVIOUS
<1>2. (allowed => batch'[b].status = "FAILED") /\ (~allowed => batch' = batch /\ jobs' = jobs)
  <2> HIDE DEF allowed
  <2> QED BY <1>1, WriteIsSteady
<1>3. batch' = batch /\ jobs' = jobs /\ ~NotOvertaken(rec) /\ batch[b].status = "COMMITTING"
  BY <1>2
<1>4. HeldCommit(Commit(b))
  BY <1>3 DEF ReconcilerInv, CommitsHeld
<1>5. rec.n \in DOMAIN jobs[Commit(b)] /\ jobs[Commit(b)][rec.n].overtaken
  BY <1>3, RecFacts DEF NotOvertaken, Job
<1>6. /\ Len(jobs[Commit(b)]) \in Nat /\ DOMAIN jobs[Commit(b)] = 1..Len(jobs[Commit(b)])
  BY Named, RowOf
<1>7. Superseded(Commit(b), rec.n)
  BY <1>4, <1>5, <1>6 DEF HeldCommit, Newest, Superseded
<1> QED BY <1>3, <1>7 DEF Superseded, Pending

LEMMA ProjectFailureKeeps ==
  ASSUME PipelineInv, ReconcilerInv, ProjectFailure, UNCHANGED faultVars
  PROVE  ReconcilerInv'
<1> DEFINE w == rec.work
<1>1. /\ rec # RecIdle /\ w \in Works /\ BatchOf(w) \in Batches /\ Job(rec).event \in Events
      /\ Job(rec).event.work = w /\ rec = [pc |-> rec.pc, work |-> rec.work, n |-> rec.n]
  BY RecFacts DEF ProjectFailure, RecIdle, JobFits, PipelineInv, RecOK
<1>2. rec' = [pc |-> "record", work |-> rec.work, n |-> rec.n]
  BY <1>1 DEF ProjectFailure
<1>3. rec'.pc = "record" /\ rec'.work = rec.work /\ rec'.n = rec.n
  BY <1>2
<1>4. UNCHANGED <<outbox, sent, slot, committed, scenario>>
  BY DEF ProjectFailure, faultVars
<1>5. ReportsEarned
  BY <1>4, SlotsEarned
<1>6. RecFresh'
  BY <1>3 DEF RecFresh
<1>7. w.topic # "import.commit" => RecCommit'
  BY <1>3 DEF RecCommit
<1>8. w.topic # "calculation.run" => RecRun'
  BY <1>3 DEF RecRun
<1>9. CASE w.topic = "import.commit"
  <2>1. ProjectCommitFailure(w.obj) /\ run' = run /\ w.obj \in Batches /\ w = Commit(w.obj)
    BY <1>1, <1>9, Named DEF ProjectFailure
  <2>2. PICK b \in Batches : b = w.obj
    BY <2>1
  <2>3. /\ SetBatchWhen(batch[b].status = "COMMITTING" /\ NotOvertaken(rec), b, "FAILED", "exhausted")
        /\ rec.work = Commit(b)
    BY <2>1, <2>2 DEF ProjectCommitFailure
  <2>4. ~scenario.keysReused => RecCommit'
    <3> SUFFICES ASSUME ~scenario.keysReused, batch'[b].status = "COMMITTING"
                 PROVE  Superseded(Commit(b), rec.n)'
      BY <1>3, <1>4, <2>2, <2>3 DEF RecCommit, Superseded, Pending
    <3> QED BY <1>1, <1>3, <1>4, <2>3, ProjectedCommit
  <2> DEFINE allowed == batch[b].status = "COMMITTING" /\ NotOvertaken(rec)
  <2>5. SetBatchWhen(allowed, b, "FAILED", "exhausted")
    BY <2>3
  <2> HIDE DEF allowed
  <2> QED BY <1>4, <1>5, <1>6, <1>8, <1>9, <2>1, <2>4, <2>5, WriteKeeps
<1>10. CASE w.topic = "calculation.requested"
  <2>1. ProjectCalculationRequest(w.obj) /\ run' = run /\ w.obj \in Batches
    BY <1>1, <1>10, WorkFacts DEF ProjectFailure
  <2> DEFINE waiting == batch[w.obj].status \in Calculable /\ NotOvertaken(rec)
  <2>2. \/ SetBatchWhen(waiting, w.obj, "FAILED", "exhausted")
        \/ SetBatchWhen(waiting, w.obj, "CALCULATING", "none")
    BY <2>1 DEF ProjectCalculationRequest
  <2> HIDE DEF waiting
  <2> QED BY <1>4, <1>5, <1>6, <1>7, <1>8, <1>10, <2>1, <2>2, WriteKeeps
<1>11. CASE w.topic = "calculation.run"
  <2>1. MarkCalculationRunFailed(w.obj, "exhausted") /\ w.obj \in Runs
    BY <1>1, <1>11, WorkFacts DEF ProjectFailure
  <2>2. /\ \A q \in Runs : run'[q] = run[q] \/ (run[q] = "QUEUED" /\ run'[q] = "FAILED")
        /\ run'[w.obj] # "QUEUED"
        /\ \E b \in Batches, allowed \in BOOLEAN : SetBatchWhen(allowed, b, "FAILED", "exhausted")
    BY <2>1, RunFailsForward
  <2>3. RecRun'
    BY <1>3, <2>2 DEF RecRun
  <2> QED BY <1>4, <1>5, <1>6, <1>7, <1>11, <2>2, <2>3, WriteKeeps
<1>12. CASE w.topic = "report.auto-publish"
  <2>1. ProjectAutoPublishFailure(w.obj, Job(rec).event.key) /\ run' = run /\ w.obj \in Batches
    BY <1>1, <1>12, WorkFacts DEF ProjectFailure
  <2> DEFINE shown == batch[w.obj].status # "RESULT_PUBLISHED" /\ NotOvertaken(rec)
             unpublished == batch[w.obj].status \in Unpublished /\ NotOvertaken(rec)
  <2>2. \/ SetBatchWhen(shown, w.obj, "RESULT_PUBLISHED", "none")
        \/ SetBatchWhen(unpublished, w.obj, "READY_FOR_REVIEW", "exhausted")
    BY <2>1 DEF ProjectAutoPublishFailure
  <2> HIDE DEF shown, unpublished
  <2> QED BY <1>4, <1>5, <1>6, <1>7, <1>8, <1>12, <2>1, <2>2, WriteKeeps
<1> QED BY <1>1, <1>9, <1>10, <1>11, <1>12, WorkFacts

LEMMA ReconcilerKeeps ==
  ASSUME PipelineInv, ReconcilerInv, NoFault(ReconcilerStep)
  PROVE  ReconcilerInv'
BY StartKeeps, ProjectFailureKeeps, RecordKeeps DEF NoFault, ReconcilerStep

-----------------------------------------------------------------------------
(* The invariant holds of every reachable state.                            *)

LEMMA ReconcilerInvInit == Init => ReconcilerInv
<1> SUFFICES ASSUME Init PROVE ReconcilerInv
  OBVIOUS
<1>1. \A w \in Works : ~Done(w)
  BY DEF Init, QueueInit, Done, Reporting
<1>2. CommitsDone /\ RunsDone
  BY <1>1, Named DEF CommitsDone, RunsDone
<1> QED BY <1>2 DEF Init, QueueInit, ReconcilerInv, EventsAfterRows, RunsHeld, CommitsHeld,
        RecFresh, RecCommit, RecRun

LEMMA ReconcilerInvNext == PipelineInv /\ ReconcilerInv /\ [Next]_vars => ReconcilerInv'
<1> SUFFICES ASSUME PipelineInv, ReconcilerInv, [Next]_vars PROVE ReconcilerInv'
  OBVIOUS
<1>1. CASE UNCHANGED vars
  BY <1>1, QuietKeeps, SlotsEarned DEF vars, faultVars
<1>2. CASE Next
  BY <1>2, ApiKeeps, QueueKeeps, HandlerKeeps, ReconcilerKeeps, FaultKeeps DEF Next
<1> QED BY <1>1, <1>2

THEOREM ReconcilerInvHolds == Spec => []ReconcilerInv
<1>1. Init => ReconcilerInv
  BY ReconcilerInvInit
<1>2. PipelineInv /\ ReconcilerInv /\ [Next]_vars => ReconcilerInv'
  BY ReconcilerInvNext
<1> QED BY <1>1, <1>2, PipelineInvHolds, PTL DEF Spec

LEMMA WorkHeld ==
  ASSUME PipelineInv, NEW w \in Works, HeldRun(w) \/ HeldCommit(w)
  PROVE  Unfinished(w)
BY RowOf DEF HeldRun, HeldCommit, Newest, Unfinished

LEMMA ReconcilerInvSuffices ==
  PipelineInv /\ ReconcilerInv => (~scenario.keysReused => WorkNeverForgotten)
<1> SUFFICES ASSUME PipelineInv, ReconcilerInv, ~scenario.keysReused PROVE WorkNeverForgotten
  OBVIOUS
<1>1. ASSUME NEW b \in Batches, batch[b].status = "COMMITTING"
      PROVE  Unfinished(Work("import.commit", b))
  BY <1>1, Named, WorkHeld DEF ReconcilerInv, CommitsHeld, Commit
<1>2. ASSUME NEW r \in Runs, run[r] = "QUEUED"
      PROVE  Unfinished(Work("calculation.run", r))
  BY <1>2, Named, WorkHeld DEF ReconcilerInv, RunsHeld, Run
<1> QED BY <1>1, <1>2 DEF WorkNeverForgotten

(* A batch shows COMMITTING and a run QUEUED only while an event, a job or  *)
(* the reconciler can still settle it: through every interleaving of        *)
(* dispatcher, workers, late callbacks, refused statements and the          *)
(* reconciler's overtaking rules (worker/terminal-reconciler.ts).  Every    *)
(* confirmation brings an event of its own: one that repeats a business key *)
(* adds none to the outbox.                                                 *)
THEOREM WorkNeverForgottenHolds == Spec => [](~scenario.keysReused => WorkNeverForgotten)
BY PipelineInvHolds, ReconcilerInvHolds, ReconcilerInvSuffices, PTL

-----------------------------------------------------------------------------
(* Whom the reconciler fails.                                               *)

(* What a guarded write leaves in the rows.                                 *)
LEMMA WriteShows ==
  ASSUME PipelineInv, NEW b \in Batches, NEW allowed, NEW status, NEW code,
         SetBatchWhen(allowed, b, status, code), NEW c \in Batches, batch[c].status # batch'[c].status
  PROVE  allowed /\ c = b /\ batch'[c].status = status
<1>1. DOMAIN batch = Batches
  BY DEF PipelineInv, RowsOK
<1> QED BY <1>1 DEF SetBatchWhen, SetBatch

LEMMA UnguardedShows ==
  ASSUME PipelineInv, NEW b \in Batches, NEW status, NEW code,
         SetBatch(b, status, code), NEW c \in Batches, batch[c].status # batch'[c].status
  PROVE  batch'[c].status = status
<1>1. DOMAIN batch = Batches
  BY DEF PipelineInv, RowsOK
<1> QED BY <1>1 DEF SetBatch

(* A job that nothing supersedes has nothing newer that is unfinished.      *)
LEMMA FreshHasNoNewer ==
  ASSUME PipelineInv, rec # RecIdle, ~Superseded(rec.work, rec.n)
  PROVE  ~NewerUnfinished(rec)
<1>1. /\ Len(jobs[rec.work]) \in Nat /\ DOMAIN jobs[rec.work] = 1..Len(jobs[rec.work])
      /\ rec.n \in DOMAIN jobs[rec.work]
  BY RecFacts, RowOf
<1> QED BY <1>1 DEF Superseded, NewerUnfinished

(* Callbacks that fail a batch also move on.                                *)
LEMMA HandlersMoveOn ==
  ASSUME PipelineInv, NEW s \in Slots, HandlerStep(s), slot' = slot,
         NEW c \in Batches, batch'[c].status = "FAILED"
  PROVE  batch[c].status = "FAILED"
<1>1. slot[s] # Idle => slot[s].work \in Works /\ SlotFits(slot[s]) /\ DOMAIN slot = Slots
                        /\ (slot[s].work.topic # "calculation.run" => slot[s].work.obj \in Batches)
  BY SlotFacts, WorkFacts DEF PipelineInv, SlotsOK
<1>2. CASE CommitWork(s)
  <2>1. slot[s].work.obj \in Batches
    BY <1>1, <1>2 DEF CommitWork, Idle
  <2> QED BY <1>2, <2>1, UnguardedShows DEF CommitWork, businessVars
<1>3. CASE PersistSafeFailure(s)
  <2>1. slot[s] # Idle /\ slot[s].pc = "persist"
    BY <1>3 DEF PersistSafeFailure, Idle
  <2>2. slot'[s].pc = "project"
    BY <1>1, <1>3, <2>1 DEF PersistSafeFailure, ProjectThen
  <2> QED BY <2>1, <2>2
<1>4. CASE RequestWork(s) \/ CalculateWork(s) \/ PublishSnapshot(s)
  BY <1>4 DEF RequestWork, CalculateWork, PublishSnapshot
<1>5. CASE AdvanceBatch(s)
  <2>1. slot[s].work.obj \in Batches
    BY <1>1, <1>5 DEF AdvanceBatch, Idle, SlotFits
  <2>2. PICK allowed : SetBatchWhen(allowed, slot[s].work.obj, "CALCULATING", "none")
    BY <1>5 DEF AdvanceBatch
  <2> QED BY <2>1, <2>2, WriteShows
<1>6. CASE AnnouncePublish(s)
  <2>1. slot[s].work.obj \in Batches
    BY <1>1, <1>6 DEF AnnouncePublish, Idle
  <2> QED BY <1>6, <2>1, UnguardedShows DEF AnnouncePublish
<1>7. CASE RecordPublished(s)
  <2>1. slot[s].work.obj \in Batches
    BY <1>1, <1>7 DEF RecordPublished, Idle, SlotFits
  <2> QED BY <1>7, <2>1, UnguardedShows DEF RecordPublished
<1>8. CASE ProjectTerminal(s)
  <2>1. slot[s] # Idle /\ slot[s].pc = "project"
    BY <1>8 DEF ProjectTerminal, Idle
  <2>2. slot'[s].pc = "ack"
    BY <1>1, <1>8, <2>1 DEF ProjectTerminal, Report
  <2> QED BY <2>1, <2>2
<1> QED BY <1>2, <1>3, <1>4, <1>5, <1>6, <1>7, <1>8 DEF HandlerStep

LEMMA ProjectionFailsFreshOnly ==
  ASSUME PipelineInv, ReconcilerInv, ProjectFailure,
         NEW c \in Batches, batch[c].status # "FAILED", batch'[c].status = "FAILED"
  PROVE  ~NewerUnfinished(rec)
<1> DEFINE w == rec.work
<1>1. rec # RecIdle /\ rec.pc = "project" /\ w \in Works
  BY RecFacts DEF ProjectFailure, RecIdle
<1>2. CASE w.topic = "import.commit"
  <2>1. ProjectCommitFailure(w.obj) /\ w.obj \in Batches
    BY <1>1, <1>2, WorkFacts DEF ProjectFailure
  <2> DEFINE allowed == batch[w.obj].status = "COMMITTING" /\ NotOvertaken(rec)
  <2>2. SetBatchWhen(allowed, w.obj, "FAILED", "exhausted")
    BY <2>1 DEF ProjectCommitFailure
  <2>3. allowed
    <3> HIDE DEF allowed
    <3> QED BY <2>1, <2>2, WriteShows
  <2>4. ~Superseded(rec.work, rec.n)
    BY <1>1, <1>2, <2>3 DEF ReconcilerInv, RecFresh, NotOvertaken
  <2> QED BY <1>1, <2>4, FreshHasNoNewer
<1>3. CASE w.topic = "calculation.requested"
  <2>1. ProjectCalculationRequest(w.obj) /\ w.obj \in Batches
    BY <1>1, <1>3, WorkFacts DEF ProjectFailure
  <2> DEFINE waiting == batch[w.obj].status \in Calculable /\ NotOvertaken(rec)
  <2>2. \/ SetBatchWhen(waiting, w.obj, "CALCULATING", "none")
        \/ SetBatchWhen(waiting, w.obj, "FAILED", "exhausted")
    BY <2>1 DEF ProjectCalculationRequest
  <2>3. waiting
    <3> HIDE DEF waiting
    <3> QED BY <2>1, <2>2, WriteShows
  <2>4. ~Superseded(rec.work, rec.n)
    BY <1>1, <1>3, <2>3 DEF ReconcilerInv, RecFresh, NotOvertaken
  <2> QED BY <1>1, <2>4, FreshHasNoNewer
<1>4. CASE w.topic = "calculation.run"
  <2>1. ~Superseded(rec.work, rec.n)
    BY <1>1, <1>4 DEF ReconcilerInv, RecFresh
  <2> QED BY <1>1, <2>1, FreshHasNoNewer
<1>5. CASE w.topic = "report.auto-publish"
  <2>1. ProjectAutoPublishFailure(w.obj, Job(rec).event.key) /\ w.obj \in Batches
    BY <1>1, <1>5, WorkFacts DEF ProjectFailure
  <2> DEFINE shown == batch[w.obj].status # "RESULT_PUBLISHED" /\ NotOvertaken(rec)
             unpublished == batch[w.obj].status \in Unpublished /\ NotOvertaken(rec)
  <2>2. \/ SetBatchWhen(shown, w.obj, "RESULT_PUBLISHED", "none")
        \/ SetBatchWhen(unpublished, w.obj, "READY_FOR_REVIEW", "exhausted")
    BY <2>1 DEF ProjectAutoPublishFailure
  <2> HIDE DEF shown, unpublished
  <2> QED BY <2>1, <2>2, WriteShows
<1> QED BY <1>1, <1>2, <1>3, <1>4, <1>5, WorkFacts

LEMMA FailedByStep ==
  PipelineInv /\ ReconcilerInv /\ [Next]_vars
    => (rec # RecIdle /\ slot' = slot =>
          \A b \in Batches :
            batch[b].status # "FAILED" /\ batch'[b].status = "FAILED" => ~NewerUnfinished(rec))
<1> SUFFICES ASSUME PipelineInv, ReconcilerInv, [Next]_vars, slot' = slot, NEW b \in Batches,
                    batch[b].status # "FAILED", batch'[b].status = "FAILED"
             PROVE  ~NewerUnfinished(rec)
  OBVIOUS
<1>1. batch' # batch /\ Next
  BY DEF vars
<1>2. CASE NoFault(Api)
  <2>1. scenario.batches \subseteq Batches
    BY PipelineAssumption DEF PipelineInv
  <2> QED BY <1>1, <1>2, <2>1, UnguardedShows
          DEF NoFault, Api, Confirm, Resume, Preflight, AcknowledgeHard, SyncRates
<1>3. CASE NoFault(\E s \in Slots : HandlerStep(s))
  BY <1>3, HandlersMoveOn DEF NoFault
<1>4. CASE NoFault(ReconcilerStep)
  BY <1>1, <1>4, ProjectionFailsFreshOnly
     DEF NoFault, ReconcilerStep, StartReconciliation, RecordReconciliation, businessVars
<1> QED BY <1>1, <1>2, <1>3, <1>4
        DEF Next, QueueOnly, StepFails, ProjectionFails, ReconciliationFails, businessVars

(* Between the reconciler's look for newer work and its UPDATE the user may *)
(* confirm a batch again (worker/terminal-reconciler.ts compares updated_at *)
(* with completed_on): a batch is never failed while newer work of the      *)
(* failed job's queue and object waits or runs.                             *)
THEOREM NewWorkNotFailedHolds == Spec => NewWorkNotFailed
BY PipelineInvHolds, ReconcilerInvHolds, FailedByStep, PTL DEF Spec, NewWorkNotFailed

=============================================================================
