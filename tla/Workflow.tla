------------------------------ MODULE Workflow ------------------------------
(***************************************************************************)
(* The six steps a shop's page shows (shops/workflow.ts, getWorkflow in    *)
(* shops/service.ts) and the shell that polls them                         *)
(* (web/components/ShopWorkflowShell.vue, web/workflow-blocker.ts).        *)
(*                                                                         *)
(* The server side moves the latest batch of a shop through the situations *)
(* in which other parts of the program leave it.  The text of a stage and  *)
(* a failure code is the set of words in it that the projection looks for. *)
(***************************************************************************)
EXTENDS Naturals, FiniteSets, Sequences, SequencesExt

CONSTANT Visits                        \* viewers, shops and bounds considered

VARIABLE visit                         \* the one at hand

Shops          == visit.shops          \* shops the browser may visit
Access         == visit.access         \* "ENTERPRISE", "ADMIN" or "CUSTOMER": how the viewer sees them
CustomerExport == visit.customerExport \* the customer may export
Closed         == visit.closed         \* shops whose term is over
Begin          == visit.begin          \* situations a shop's first batch may be found in
Hangs          == visit.hangs          \* queues whose terminal recovery may hang
MaxMoves       == visit.maxMoves       \* bound on moves of the server, failures and visits together

VARIABLES
  batches,    \* per shop: its batches that are not cancelled, [id, at] in order of creation
  snapshot,   \* per shop: the batch of the current snapshot, 0 for none
  export,     \* per shop: status of the viewer's latest export of the snapshot
  worker,     \* the worker's heartbeat is at most a minute old
  stuck,      \* per shop: queues with a terminal recovery that does not come through
  moves,      \* number of moves so far
  shopId,     \* the page's shop
  shown,      \* <<[shop, view]>> the page holds, or Nothing
  viewStatus, \* of the page: "loading", "ready" or "error"
  loading,    \* workflowLoading
  inflight,   \* requests not answered; `latest` says that workflowRequestSequence is theirs
  dismissed   \* blocker keys the viewer dismissed

server == <<batches, snapshot, export, worker, stuck>>
page == <<shopId, shown, viewStatus, loading, inflight, dismissed>>
shellVars == <<visit, server, page, moves>>

-----------------------------------------------------------------------------
(* The situations of a batch.  `issue` says that an ERROR issue with the   *)
(* batch's own failure code was recorded.                                  *)

Situation(status_, words, code, issue) ==
  [status |-> status_, words |-> words, code |-> code, issue |-> issue]

Situations ==
  [UPLOADING       |-> Situation("UPLOADING", {}, "NONE", FALSE),
   ANALYZING       |-> Situation("ANALYZING", {}, "NONE", FALSE),
   NO_FILES        |-> Situation("FAILED", {}, "OTHER", TRUE),
   COMMITTING      |-> Situation("COMMITTING", {"COPY"}, "NONE", FALSE),
   COMMIT_FAILED   |-> Situation("FAILED", {"COMMIT"}, "OTHER", TRUE),
   NO_CAPACITY     |-> Situation("FAILED", {"COMMIT", "DATABASE_CAPACITY"}, "OTHER", TRUE),
   COMMITTED       |-> Situation("COMMITTED", {"COMMIT"}, "NONE", FALSE),
   EXCLUDED        |-> Situation("COMMITTED_WITH_EXCLUSIONS", {"COMMIT"}, "NONE", FALSE),
   HARD            |-> Situation("FAILED", {"CALCULAT"}, "HARD", TRUE),
   REQUEST_BLOCKED |-> Situation("FAILED", {"CALCULAT"}, "OTHER", TRUE),
   CALCULATING     |-> Situation("CALCULATING", {"CALCULAT"}, "NONE", FALSE),
   RUN_BLOCKED     |-> Situation("FAILED", {"CALCULAT"}, "OTHER", FALSE),
   CALC_FAILED     |-> Situation("FAILED", {"CALCULAT"}, "OTHER", FALSE),
   REVIEW          |-> Situation("READY_FOR_REVIEW", {}, "NONE", FALSE),
   PUBLISHING      |-> Situation("RESULT_PUBLISHING", {"PUBLISH"}, "NONE", FALSE),
   PUBLISH_FAILED  |-> Situation("READY_FOR_REVIEW", {"PUBLISH"}, "AUTO_PUBLISH_FAILED", FALSE),
   PUBLISHED       |-> Situation("RESULT_PUBLISHED", {"PUBLISH"}, "NONE", FALSE)]

(* From one situation to the next, by worker, reconciler or viewer.        *)
Successors ==
  [UPLOADING       |-> {"ANALYZING", "NO_FILES"},
   ANALYZING       |-> {"COMMITTING", "NO_FILES"},
   COMMITTING      |-> {"COMMITTED", "EXCLUDED", "COMMIT_FAILED", "NO_CAPACITY"},
   NO_CAPACITY     |-> {"COMMITTING"},
   COMMITTED       |-> {"CALCULATING", "HARD", "REQUEST_BLOCKED", "RUN_BLOCKED"},
   EXCLUDED        |-> {"CALCULATING", "HARD", "REQUEST_BLOCKED", "RUN_BLOCKED"},
   HARD            |-> {"EXCLUDED"},
   CALCULATING     |-> {"REVIEW", "CALC_FAILED"},
   REVIEW          |-> {"PUBLISHING", "PUBLISH_FAILED"},
   PUBLISHING      |-> {"PUBLISHED", "PUBLISH_FAILED"},
   PUBLISH_FAILED  |-> {"PUBLISHING"}]

CalculationOf(b) ==
  CASE b = "CALCULATING" -> "RUNNING"
    [] b = "RUN_BLOCKED" -> "BLOCKED"
    [] b = "CALC_FAILED" -> "FAILED"
    [] b \in {"REVIEW", "PUBLISHING", "PUBLISH_FAILED", "PUBLISHED"} -> "READY"
    [] OTHER -> "NONE"

Queues == {"upload.finalize", "import.analyze", "import.commit", "calculation.requested",
           "calculation.run", "report.auto-publish", "export.generate"}

(* Shops are found in situations that the other parts leave them in.       *)
VisitsFit == \A s \in Visits :
  s.begin \subseteq DOMAIN Situations /\ s.hangs \subseteq Queues /\ s.maxMoves \in Nat

ASSUME WorkflowAssumption == VisitsFit

-----------------------------------------------------------------------------
(* What getWorkflow reads.                                                 *)

Active(e) == e \in {"QUEUED", "RUNNING"}

WorkerStatuses ==
  {"ANALYZING", "RETRYING", "COMMITTING", "COMMITTED", "COMMITTED_WITH_EXCLUSIONS", "CALCULATING",
   "READY_FOR_REVIEW", "RESULT_PUBLISHING"}

(* A blocked recovery counts while its work is what the batch waits for.   *)
RecoveryBlocked(b, s, e, queues) ==
  \E q \in queues :
    CASE q = "upload.finalize"       -> s \in {"UPLOADING", "ANALYZING"}
      [] q = "import.analyze"        -> s \in {"ANALYZING", "RETRYING"}
      [] q = "import.commit"         -> s = "COMMITTING"
      [] q = "calculation.requested" -> s \in {"COMMITTED", "COMMITTED_WITH_EXCLUSIONS", "CALCULATING"}
      [] q = "calculation.run"       -> CalculationOf(b) \in {"QUEUED", "RUNNING", "BLOCKED"}
      [] q = "report.auto-publish"   -> s \in {"CALCULATING", "READY_FOR_REVIEW", "RESULT_PUBLISHING"}
      [] q = "export.generate"       -> Active(e)

CanExport == Access # "CUSTOMER" \/ CustomerExport

(* The latest batch.  Customers do not see it.                             *)
Hidden(shop) == Access = "CUSTOMER" \/ batches[shop] = <<>>

Input(shop) ==
  LET b == IF Hidden(shop) THEN "NONE" ELSE Last(batches[shop]).at
      id == IF Hidden(shop) THEN 0 ELSE Last(batches[shop]).id
      e == IF snapshot[shop] # 0 /\ CanExport THEN export[shop] ELSE "NONE"
      s == IF b = "NONE" THEN "NONE" ELSE Situations[b].status
      required == s \in WorkerStatuses \/ Active(e)
  IN [batch |-> b, id |-> id, status |-> s, published |-> snapshot[shop] # 0,
      matches |-> snapshot[shop] = id, export |-> e,
      canManage |-> Access # "CUSTOMER" /\ shop \notin Closed,
      workerDown |-> required /\ ~worker,
      blocked |-> (b # "NONE" \/ e # "NONE") /\ RecoveryBlocked(b, s, e, stuck[shop])]

-----------------------------------------------------------------------------
(* deriveWorkflowSteps: steps 1 to 6 are RECEIVE, PREFLIGHT, COMMIT,       *)
(* CALCULATE, PUBLISH and EXPORT.                                          *)

CommitCompleted ==
  {"COMMITTED", "COMMITTED_WITH_EXCLUSIONS", "CALCULATING", "READY_FOR_REVIEW", "RESULT_PUBLISHING",
   "RESULT_PUBLISHED"}
PreflightCompleted == {"AWAITING_COMMIT_CONFIRMATION", "COMMITTING"} \cup CommitCompleted

WorkflowStep(inProgress, complete, blocking, clickable) ==
  [state |-> IF inProgress THEN "IN_PROGRESS" ELSE IF complete THEN "COMPLETED" ELSE "NOT_STARTED",
   blocking |-> blocking, clickable |-> clickable]

DownloadAvailable(in) == in.published /\ CanExport /\ (in.batch # "NONE" => in.matches)

Failed(in) == in.status = "FAILED"
Mentions(in, words) == in.batch # "NONE" /\ Situations[in.batch].words \cap words # {}
Code(in) == IF in.batch = "NONE" THEN "NONE" ELSE Situations[in.batch].code
Historical(in) == in.batch = "NONE" /\ in.published

Receive(in) ==
  LET inProgress == in.status \in {"DRAFT", "UPLOADING"}
  IN WorkflowStep(inProgress, in.batch # "NONE" \/ in.published, in.blocked /\ inProgress, in.canManage)

PreflightDone(in) ==
  \/ Historical(in)
  \/ in.status \in PreflightCompleted
  \/ Failed(in) /\ Mentions(in, {"COMMIT", "COPY", "CALCULAT", "PUBLISH"})

Preflight(in) ==
  LET inProgress == in.status \in {"ANALYZING", "AWAITING_FILES", "AWAITING_MAPPING", "RETRYING"}
      blocking == \/ in.status \in {"AWAITING_FILES", "AWAITING_MAPPING"}
                  \/ in.workerDown /\ in.status \in {"ANALYZING", "RETRYING"}
                  \/ in.blocked /\ inProgress
                  \/ Failed(in) /\ Situations[in.batch].issue
                  \/ Failed(in) /\ ~Mentions(in, {"COMMIT", "CALCULAT", "PUBLISH"})
  IN WorkflowStep(inProgress, PreflightDone(in), blocking, in.canManage /\ in.batch # "NONE")

CommitDone(in) ==
  \/ Historical(in)
  \/ in.status \in CommitCompleted
  \/ Failed(in) /\ Code(in) # "HARD" /\ Mentions(in, {"CALCULAT", "PUBLISH"})

CommitStep(in) ==
  LET inProgress == in.status = "COMMITTING"
      blocking == \/ Code(in) = "HARD"
                  \/ (in.workerDown \/ in.blocked) /\ inProgress
                  \/ Failed(in) /\ Mentions(in, {"COMMIT", "COPY", "DATABASE_CAPACITY"})
  IN WorkflowStep(inProgress, CommitDone(in), blocking, in.canManage /\ (PreflightDone(in) \/ inProgress))

CalculationDone(in) ==
  Historical(in) \/ in.status \in {"READY_FOR_REVIEW", "RESULT_PUBLISHING", "RESULT_PUBLISHED"}

(* Mutated form: a failed calculation is left to the run's own status.     *)
CalculateUnlessRun(in) ==
  LET inProgress == in.status \in {"COMMITTED", "COMMITTED_WITH_EXCLUSIONS", "CALCULATING"}
      blocking == /\ Code(in) # "HARD"
                  /\ (in.workerDown \/ in.blocked) /\ inProgress
  IN WorkflowStep(inProgress, CalculationDone(in), blocking, in.canManage /\ (CommitDone(in) \/ inProgress))

Calculate(in) ==
  LET inProgress == in.status \in {"COMMITTED", "COMMITTED_WITH_EXCLUSIONS", "CALCULATING"}
      blocking == /\ Code(in) # "HARD"
                  /\ \/ CalculationOf(in.batch) \in {"BLOCKED", "FAILED"}
                     \/ (in.workerDown \/ in.blocked) /\ inProgress
                     \/ Failed(in) /\ Mentions(in, {"CALCULAT"})
  IN WorkflowStep(inProgress, CalculationDone(in), blocking, in.canManage /\ (CommitDone(in) \/ inProgress))

Publish(in) ==
  LET inProgress == in.status \in {"READY_FOR_REVIEW", "RESULT_PUBLISHING"} /\ Code(in) = "NONE"
      blocking == \/ Code(in) = "AUTO_PUBLISH_FAILED"
                  \/ (in.workerDown \/ in.blocked) /\ inProgress
                  \/ Failed(in) /\ Mentions(in, {"PUBLISH"})
  IN WorkflowStep(inProgress, Historical(in) \/ in.status = "RESULT_PUBLISHED", blocking,
          in.published \/ (in.canManage /\ (CalculationDone(in) \/ inProgress)))

Export(in) ==
  WorkflowStep(Active(in.export), DownloadAvailable(in), Active(in.export) /\ (in.workerDown \/ in.blocked),
       DownloadAvailable(in))

StepsOf(in) == <<Receive(in), Preflight(in), CommitStep(in), Calculate(in), Publish(in), Export(in)>>

(* The first step to do, or the last one that can be opened.               *)
CurrentStep(steps) ==
  LET todo == {i \in DOMAIN steps : steps[i].state # "COMPLETED" /\ steps[i].clickable}
      open == {i \in DOMAIN steps : steps[i].clickable}
  IN IF todo # {} THEN Min(todo) ELSE IF open # {} THEN Max(open) ELSE 1

(* The view that a request is answered with.                               *)
ViewOf(in, steps) ==
  [steps |-> steps, current |-> CurrentStep(steps), workerDown |-> in.workerDown,
   blocked |-> in.blocked, batch |-> in.batch, id |-> in.id, failed |-> Failed(in),
   download |-> DownloadAvailable(in), export |-> in.export]

View(shop) ==
  CHOOSE v \in {ViewOf(p[1], p[2]) : p \in {<<in, StepsOf(in)>> : in \in {Input(shop)}}} : TRUE

-----------------------------------------------------------------------------
(* The page.                                                               *)

(* Views that may be missing are sequences of at most one.                 *)
Nothing == <<>>

BlockingSteps(v) == {i \in DOMAIN v.steps : v.steps[i].blocking}

(* What names the blocker the page reports, NoKey for none.                *)
NoKey == <<>>

BlockerKey(v) ==
  IF BlockingSteps(v) # {} \/ v.failed
  THEN <<"BATCH", v.id, v.batch, IF v.blocked THEN "RECOVERY" ELSE IF v.workerDown THEN "WORKER" ELSE "UP",
         IF BlockingSteps(v) # {} THEN Min(BlockingSteps(v)) ELSE v.current>>
  ELSE IF v.export \in {"FAILED", "REVOKED"} THEN <<"EXPORT", v.export>>
  ELSE NoKey

(* The three phases of the page's header.                                  *)
Phases == <<{1, 2, 3}, {4, 5}, {6}>>

PhaseBlocking(v, phase) == \E i \in phase : v.steps[i].blocking

KeyShown(s) == IF s = Nothing THEN NoKey ELSE BlockerKey(s[1].view)

(* A blocker that goes away takes the dismissals with it.                  *)
DismissedAfter(next) ==
  IF KeyShown(next) = NoKey /\ KeyShown(shown) # NoKey THEN {} ELSE dismissed

VisibleBlocker == IF KeyShown(shown) \in dismissed THEN NoKey ELSE KeyShown(shown)

InProgress(v) == \E i \in DOMAIN v.steps : v.steps[i].state = "IN_PROGRESS"

Polling(s) == s # Nothing /\ (s[1].view.workerDown \/ InProgress(s[1].view))

-----------------------------------------------------------------------------

ShellInit ==
  /\ visit \in Visits
  /\ batches \in [Shops -> {<<>>} \cup {<<[id |-> 1, at |-> b]>> : b \in Begin}]
  /\ snapshot = [s \in Shops |-> IF batches[s] # <<>> /\ batches[s][1].at = "PUBLISHED" THEN 1 ELSE 0]
  /\ export = [s \in Shops |-> "NONE"]
  /\ worker = TRUE /\ stuck = [s \in Shops |-> {}] /\ moves = 0
  /\ shopId \in Shops /\ shown = Nothing /\ viewStatus = "loading" /\ loading = TRUE
  /\ inflight = {[latest |-> TRUE, shop |-> shopId, view |-> Nothing]}
  /\ dismissed = {}

Move == moves < MaxMoves /\ moves' = moves + 1

(* The latest batch moves on.  Publication makes its result the current    *)
(* snapshot, of which nothing has been exported.                           *)
MoveBatch(shop) ==
  LET n == Len(batches[shop])
  IN /\ Move
     /\ n > 0 /\ batches[shop][n].at \in DOMAIN Successors
     /\ \E b \in Successors[batches[shop][n].at] :
          /\ batches' = [batches EXCEPT ![shop][n].at = b]
          /\ snapshot' = [snapshot EXCEPT ![shop] = IF b = "PUBLISHED" THEN batches[shop][n].id ELSE @]
          /\ export' = [export EXCEPT ![shop] = IF b = "PUBLISHED" THEN "NONE" ELSE @]
     /\ UNCHANGED <<worker, stuck, page>>

(* A new upload, and its cancellation, which brings the batch before back. *)
StartUpload(shop) ==
  /\ Move
  /\ batches' = [batches EXCEPT ![shop] = Append(@, [id |-> moves + 2, at |-> "UPLOADING"])]
  /\ UNCHANGED <<snapshot, export, worker, stuck, page>>

CancelUpload(shop) ==
  /\ Move
  /\ batches[shop] # <<>> /\ Last(batches[shop]).at = "UPLOADING"
  /\ batches' = [batches EXCEPT ![shop] = Front(@)]
  /\ UNCHANGED <<snapshot, export, worker, stuck, page>>

MoveExport(shop) ==
  /\ Move
  /\ snapshot[shop] # 0
  /\ \E e \in {"QUEUED", "RUNNING", "SUCCEEDED", "FAILED", "REVOKED"} \ {export[shop]} :
       export' = [export EXCEPT ![shop] = e]
  /\ UNCHANGED <<batches, snapshot, worker, stuck, page>>

(* The worker stops or comes back; a recovery hangs or comes through.      *)
MoveWorker ==
  /\ Move
  /\ \/ worker' = ~worker /\ stuck' = stuck
     \/ /\ \E s \in Shops, q \in Hangs :
             stuck' = [stuck EXCEPT ![s] = IF q \in @ THEN @ \ {q} ELSE @ \cup {q}]
        /\ worker' = worker
  /\ UNCHANGED <<batches, snapshot, export, page>>

(* The server reads the shop's state for a request.                        *)
ServeView(r) ==
  /\ r \in inflight /\ r.view = Nothing
  /\ inflight' = (inflight \ {r}) \cup {[r EXCEPT !.view = <<View(r.shop)>>]}
  /\ UNCHANGED <<server, shopId, shown, viewStatus, loading, dismissed, moves>>

Accepts(r) == r.latest /\ r.shop = shopId

(* Mutated form: only an answer ends the loading.                          *)
LoadingAfterFailure(r) == loading

LoadingAfter(r) == loading /\ ~r.latest

Answer(r) ==
  /\ r \in inflight /\ r.view # Nothing
  /\ inflight' = inflight \ {r}
  /\ loading' = (loading /\ ~r.latest)
  /\ IF Accepts(r)
     THEN /\ shown' = <<[shop |-> r.shop, view |-> r.view[1]]>> /\ viewStatus' = "ready"
          /\ dismissed' = DismissedAfter(shown')
     ELSE UNCHANGED <<shown, viewStatus, dismissed>>
  /\ UNCHANGED <<server, shopId, moves>>

Fail(r) ==
  /\ Move
  /\ r \in inflight
  /\ inflight' = inflight \ {r}
  /\ loading' = LoadingAfter(r)
  /\ viewStatus' = IF Accepts(r) THEN "error" ELSE viewStatus
  /\ UNCHANGED <<server, shopId, shown, dismissed>>

Request(shop) ==
  /\ loading' = TRUE
  /\ inflight' = {[r EXCEPT !.latest = FALSE] : r \in inflight}
                   \cup {[latest |-> TRUE, shop |-> shop, view |-> Nothing]}

(* loadWorkflow(): skipped while a request is under way.                   *)
Poll ==
  /\ Polling(shown) /\ ~loading
  /\ Request(shopId)
  /\ UNCHANGED <<server, shopId, shown, viewStatus, dismissed, moves>>

(* loadWorkflow(true): the viewer retries, or goes to another shop.        *)
Retry ==
  /\ viewStatus = "error"
  /\ viewStatus' = "loading" /\ Request(shopId)
  /\ UNCHANGED <<server, shopId, shown, dismissed, moves>>

Visit(shop) ==
  /\ Move
  /\ shop # shopId
  /\ shopId' = shop /\ viewStatus' = "loading" /\ dismissed' = {} /\ Request(shop)
  /\ UNCHANGED <<server, shown>>

Dismiss ==
  /\ VisibleBlocker # NoKey
  /\ dismissed' = dismissed \cup {VisibleBlocker}
  /\ UNCHANGED <<server, shopId, shown, viewStatus, loading, inflight, moves>>

AnyStep ==
  \/ \E s \in Shops : MoveBatch(s) \/ StartUpload(s) \/ CancelUpload(s) \/ MoveExport(s) \/ Visit(s)
  \/ MoveWorker
  \/ \E r \in inflight : ServeView(r) \/ Answer(r) \/ Fail(r)
  \/ Poll \/ Retry \/ Dismiss

ShellNext == AnyStep /\ UNCHANGED visit

(* A request that is not lost is served and answered, and the page's timer *)
(* keeps ticking.                                                          *)
Fairness ==
  /\ WF_shellVars((\E r \in inflight : r.latest /\ (ServeView(r) \/ Answer(r))) /\ UNCHANGED visit)
  /\ WF_shellVars(Poll /\ UNCHANGED visit)

ShellSpec == ShellInit /\ [][ShellNext]_shellVars /\ Fairness

-----------------------------------------------------------------------------

ShellTypeOK ==
  /\ visit \in Visits
  /\ batches \in [Shops -> Seq([id : 1 .. MaxMoves + 2, at : DOMAIN Situations])]
  /\ snapshot \in [Shops -> 0 .. MaxMoves + 2]
  /\ export \in [Shops -> {"NONE", "QUEUED", "RUNNING", "SUCCEEDED", "FAILED", "REVOKED"}]
  /\ worker \in BOOLEAN /\ stuck \in [Shops -> SUBSET Queues] /\ moves \in 0 .. MaxMoves
  /\ shopId \in Shops /\ viewStatus \in {"loading", "ready", "error"} /\ loading \in BOOLEAN
  /\ \A r \in inflight : r.latest \in BOOLEAN /\ r.shop \in Shops
  /\ shown # Nothing => shown[1].view.current \in 1 .. 6

(* A failed batch shows: whatever left it FAILED, one of the three phases  *)
(* of the page is blocking (deriveWorkflowSteps tells the failures apart   *)
(* by words in the stage and the code, each step on its own).              *)
FailureVisible ==
  \A s \in Shops : Failed(Input(s)) => \E i \in DOMAIN Phases : PhaseBlocking(View(s), Phases[i])

(* Work that cannot go on shows: while the worker is down or a recovery    *)
(* hangs, every view with a step in progress has a blocking step, except   *)
(* that an upload does not need the worker.                                *)
StuckVisible ==
  \A s \in Shops :
    LET v == View(s)
    IN (v.workerDown \/ v.blocked) /\ InProgress(v) => BlockingSteps(v) # {}

(* The phases are completed in order: a completed step has only completed  *)
(* steps before it, also after a failure, a cancelled upload or a new one. *)
StepsInOrder ==
  \A s \in Shops, i, j \in 1 .. 5 :
    i < j /\ View(s).steps[j].state = "COMPLETED" => View(s).steps[i].state = "COMPLETED"

(* While staff look at a batch, the download offered is the one of its own *)
(* publication (workflowDownloadAvailable), never the one before.          *)
DownloadIsCurrent ==
  \A s \in Shops :
    ~Hidden(s) /\ View(s).download => /\ Last(batches[s]).at = "PUBLISHED"
                                      /\ snapshot[s] = Last(batches[s]).id

(* The six steps tell the truth in every situation a batch is left in:     *)
(* what failed, what stands still, what is done and what may be            *)
(* downloaded. The first part is the type invariant.                       *)
StepsTrue == ShellTypeOK /\ FailureVisible /\ StuckVisible /\ StepsInOrder /\ DownloadIsCurrent

(* A page that shows something under way, or the worker down, ends up      *)
(* showing what the server says: polling goes on after failed requests,    *)
(* visits to other shops and answers that were overtaken.                  *)
PageCatchesUp ==
  <>[](Polling(shown) \/ (shown # Nothing /\ shown[1].view.workerDown)
         => shown = <<[shop |-> shopId, view |-> View(shopId)]>>)

=============================================================================
