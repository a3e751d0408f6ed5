----------------------------- MODULE UploadPage -----------------------------
(***************************************************************************)
(* The page on which files are selected, uploaded, confirmed and followed  *)
(* through the import (web/pages/UploadPage.vue, web/uploads/*.ts).        *)
(*                                                                         *)
(* Every asynchronous function of the page is a task: it is started by the *)
(* viewer, waits for answers of the server, and goes on where it waited    *)
(* when they are delivered or lost, whatever else the page did meanwhile.  *)
(***************************************************************************)
EXTENDS Naturals, FiniteSets, Sequences, SequencesExt

CONSTANTS
  Paths,          \* relative paths of the files that may be selected
  RefreshLimit,   \* failed refreshes in a row that end the polling (3 in the code)
  MaxBatches,     \* bound on batches of the server
  MaxTasks,       \* bound on tasks at one time
  Viewers       \* viewers and bounds considered

VARIABLE viewer                  \* the one at hand

Earlier   == viewer.earlier      \* states in which an earlier visit may have left a batch
Impatient == viewer.impatient    \* the viewer presses a button while the answer to another is awaited
MaxFaults == viewer.maxFaults    \* bound on lost answers and reloads together

VARIABLES
  srv,         \* the server's batches: [state, code, files], one import each
  items,       \* uploadItems: state of each listed path
  status, batchId, preview, restoredStagedManifest,
  checkingSelection, resuming, removingFiles, restoringLatest,
  tasks,       \* asynchronous functions under way, with the array of items they hold
  faults

flags == <<checkingSelection, resuming, removingFiles, restoringLatest>>
flowVars == <<viewer, srv, items, status, batchId, preview, restoredStagedManifest, flags, tasks, faults>>

-----------------------------------------------------------------------------
(* The server.  A file is PARTIAL until its bytes are there; REMOVED is a  *)
(* FAILED file that an audit event names as taken off by the viewer.       *)

None == <<>>
ServerStates == {"UPLOADING", "CANCELLED", "RUNNING", "PROCESSING", "FAILED", "PUBLISHED"}

(* An earlier visit leaves a batch in a state of the server's; the limit is *)
(* a number.                                                               *)
ViewersFit == RefreshLimit \in Nat /\ \A v \in Viewers : v.earlier \subseteq ServerStates

ASSUME UploadPageAssumption == ViewersFit

Has(b, fileStates) == {p \in DOMAIN srv[b].files : srv[b].files[p] \in fileStates}

PreviewOf(b) ==
  [batch |-> b, status |-> IF srv[b].state = "UPLOADING" THEN "RUNNING" ELSE srv[b].state,
   code |-> srv[b].code, upload |-> srv[b].state = "UPLOADING", ready |-> Has(b, {"PARTIAL"}) = {},
   files |-> [p \in Has(b, {"PARTIAL", "COMPLETE", "FAILED"}) |-> srv[b].files[p]]]

Latest == SelectLastInSeq(srv, LAMBDA b : b.state # "CANCELLED")

ServerMoves(b) ==
  /\ \/ /\ srv[b].state = "RUNNING"
        /\ srv' = [srv EXCEPT ![b].state = "PROCESSING"]
     \/ /\ srv[b].state = "RUNNING"
        /\ srv' = [srv EXCEPT ![b].state = "FAILED", ![b].code = "OTHER"]
     \/ /\ srv[b].state = "PROCESSING"
        /\ srv' = [srv EXCEPT ![b].state = "PUBLISHED"]
     \/ /\ srv[b].state = "PROCESSING"
        /\ \E c \in {"CAPACITY", "HARD"} : srv' = [srv EXCEPT ![b].state = "FAILED", ![b].code = c]
  /\ UNCHANGED <<items, status, batchId, preview, restoredStagedManifest, flags, tasks, faults>>

-----------------------------------------------------------------------------
(* What the page offers.                                                   *)

Busy == {"uploading", "preflight", "processing"}
ItemsIn(states) == {p \in DOMAIN items : items[p] \in states}

selectionLocked ==
  \/ restoringLatest \/ checkingSelection \/ resuming \/ removingFiles
  \/ status \in Busy
  \/ batchId # 0

canStartUpload ==
  /\ ~restoringLatest /\ ~checkingSelection /\ ~resuming
  /\ DOMAIN items # {} /\ batchId = 0 /\ status \in {"idle", "error"}

canContinue == ~restoredStagedManifest /\ batchId # 0 /\ ItemsIn({"failed"}) # {}

canRetryCompletion ==
  /\ batchId # 0 /\ status = "error"
  /\ \/ /\ preview # None /\ preview[1].ready
        /\ preview[1].upload => \A p \in DOMAIN preview[1].files : preview[1].files[p] # "PARTIAL"
     \/ /\ DOMAIN items # {}
        /\ \A p \in DOMAIN items :
             items[p] \in {"complete", "skipped"} \/ (restoredStagedManifest /\ items[p] = "failed")

canRemoveUploadedFiles ==
  /\ batchId # 0 /\ preview = None
  /\ status = "uploaded" \/ (status = "error" /\ ~canRetryCompletion)

canEditUploadSelection ==
  /\ ~restoringLatest /\ ~checkingSelection /\ ~resuming /\ ~removingFiles
  /\ (batchId = 0 /\ status \in {"idle", "error"}) \/ canRemoveUploadedFiles

-----------------------------------------------------------------------------
(* Tasks.  `mine` says that the array of items a task holds on to is still *)
(* the page's; `fresh` that the counter it remembers is, stateEpoch of a   *)
(* restoration or pollingGeneration of a polling.                          *)

Task(kind, b) ==
  [kind |-> kind, batch |-> b, mine |-> TRUE, paths |-> {}, sent |-> [p \in {} |-> "none"],
   failed |-> FALSE, fresh |-> TRUE, reply |-> "none", seen |-> None, failures |-> 0]

Detached(ts) == {IF t.kind \in {"send", "skip"} THEN [t EXCEPT !.mine = FALSE] ELSE t : t \in ts}
Outdated(ts, kinds) == {IF t.kind \in kinds THEN [t EXCEPT !.fresh = FALSE] ELSE t : t \in ts}

(* The viewer may act.  An upload may be cancelled while it is under way,  *)
(* and its loop goes on after that.                                        *)
Running(kinds) == \E t \in tasks : t.kind \in kinds
Answered == {"send"}
Waits(t) == t.kind \notin Answered \/ (t.kind = "send" /\ t.batch = batchId)
MayAct == Cardinality(tasks) < MaxTasks /\ (Impatient \/ \A t \in tasks : ~Waits(t))
MayCancel == Cardinality(tasks) < MaxTasks /\ (Impatient \/ \A t \in tasks : t.kind \in Answered)

(* uploadFilesContinuing: at most four files, so that all are under way.   *)
Unsent == DOMAIN items \ ItemsIn({"complete", "skipped"})
Uploading == [p \in DOMAIN items |-> IF p \in Unsent THEN "uploading" ELSE items[p]]
SendTask(b) == [Task("send", b) EXCEPT !.sent = [p \in Unsent |-> "none"]]

FlowInit ==
  /\ viewer \in Viewers
  /\ srv \in {<<>>} \cup {<<[state |-> "UPLOADING", code |-> "NONE", files |-> f]>> :
                            f \in {[p \in Paths |-> "PARTIAL"], [p \in Paths |-> "COMPLETE"]}}
              \cup {<<[state |-> s, code |-> IF s = "FAILED" THEN "HARD" ELSE "NONE",
                       files |-> [p \in Paths |-> "COMPLETE"]]>> : s \in Earlier}
  /\ items = [p \in {} |-> "pending"]
  /\ status = "idle" /\ batchId = 0 /\ preview = None /\ restoredStagedManifest = FALSE
  /\ checkingSelection = FALSE /\ resuming = FALSE /\ removingFiles = FALSE /\ restoringLatest = TRUE
  /\ tasks = {Task("restore", 0)}
  /\ faults = 0

(* acceptSelection up to the check of archives.                            *)
Select(sel) ==
  /\ ~selectionLocked /\ MayAct
  /\ checkingSelection' = TRUE
  /\ tasks' = Outdated(tasks, {"restore"}) \cup {[Task("accept", 0) EXCEPT !.paths = sel]}
  /\ UNCHANGED <<srv, items, status, batchId, preview, restoredStagedManifest,
                 resuming, removingFiles, restoringLatest, faults>>

Cleared == None

(* mergeFileSelections: the last file selected under a path counts, and    *)
(* every file of the list is sent.                                         *)
Merged(sel) == [p \in DOMAIN items \cup sel |-> "pending"]

(* acceptSelection after it: an archive is refused, or all is merged.      *)
Selected(t) ==
  /\ t \in tasks /\ t.kind = "accept"
  /\ checkingSelection' = FALSE
  /\ \/ /\ tasks' = tasks \ {t}
        /\ UNCHANGED <<items, status, batchId, preview, restoredStagedManifest>>
     \/ /\ tasks' = Detached(Outdated(tasks \ {t}, {"poll"}))
        /\ items' = Merged(t.paths)
        /\ restoredStagedManifest' = FALSE /\ batchId' = 0 /\ preview' = Cleared /\ status' = "idle"
  /\ UNCHANGED <<srv, resuming, removingFiles, restoringLatest, faults>>

(* startUpload, by the start button or to continue.                        *)
Start ==
  /\ canStartUpload \/ canContinue
  /\ ~restoringLatest /\ DOMAIN items # {} /\ MayAct
  /\ status' = "uploading"
  /\ \/ /\ batchId = 0 /\ Len(srv) < MaxBatches
        /\ tasks' = Outdated(tasks, {"restore"}) \cup {[Task("create", 0) EXCEPT !.paths = DOMAIN items]}
        /\ items' = items
     \/ /\ batchId # 0
        /\ tasks' = Outdated(tasks, {"restore"}) \cup {SendTask(batchId)}
        /\ items' = Uploading
  /\ UNCHANGED <<srv, batchId, preview, restoredStagedManifest, flags, faults>>

Cancel ==
  /\ status \in {"uploading", "uploaded"} \/ (status = "error" /\ ~canRetryCompletion)
  /\ batchId # 0 /\ MayCancel
  /\ tasks' = tasks \cup {Task("cancel", batchId)}
  /\ UNCHANGED <<srv, items, status, batchId, preview, restoredStagedManifest, flags, faults>>

(* The list after a removal; a batch without files was cancelled by it.    *)
RemovedFrom(gone, cancelled) ==
  LET left == IF cancelled THEN {} ELSE DOMAIN items \ gone
      b == IF cancelled THEN 0 ELSE batchId
  IN /\ items' = [p \in left |-> items[p]]
     /\ batchId' = b
     /\ restoredStagedManifest' = (restoredStagedManifest /\ ~cancelled)
     /\ status' = IF \E p \in left : items[p] = "failed" THEN "error"
                  ELSE IF left # {} /\ b # 0 THEN "uploaded" ELSE "idle"

(* Mutated form: uploaded files are only taken off the list.               *)
RemoveLocally(sel) ==
  /\ canEditUploadSelection
  /\ RemovedFrom(sel, FALSE) /\ tasks' = Outdated(tasks, {"restore", "poll"})
  /\ UNCHANGED <<removingFiles, srv, preview, checkingSelection, resuming, restoringLatest, faults>>

(* removeSelectedUploadItems.                                              *)
RemoveSelected(sel) ==
  /\ canEditUploadSelection
  /\ \/ /\ batchId = 0
        /\ RemovedFrom(sel, FALSE) /\ tasks' = Outdated(tasks, {"restore", "poll"})
        /\ removingFiles' = removingFiles
     \/ /\ batchId # 0 /\ sel \subseteq DOMAIN srv[batchId].files /\ MayAct
        /\ removingFiles' = TRUE
        /\ tasks' = tasks \cup {[Task("remove", batchId) EXCEPT !.paths = sel]}
        /\ UNCHANGED <<items, status, batchId, restoredStagedManifest>>
  /\ UNCHANGED <<srv, preview, checkingSelection, resuming, restoringLatest, faults>>

(* confirmUploadedFiles and the button to check again.                     *)
Confirm ==
  /\ \/ status = "uploaded" /\ batchId # 0 /\ ItemsIn({"complete"}) # {} /\ ~removingFiles
     \/ canRetryCompletion
  /\ MayAct
  /\ status' = "preflight"
  /\ tasks' = tasks \cup {Task("complete", batchId)}
  /\ UNCHANGED <<srv, items, batchId, preview, restoredStagedManifest, flags, faults>>

SkipFailed ==
  /\ canContinue /\ MayAct
  /\ status' = "preflight"
  /\ tasks' = tasks \cup {[Task("skip", batchId) EXCEPT !.sent = [p \in ItemsIn({"failed"}) |-> "none"]]}
  /\ UNCHANGED <<srv, items, batchId, preview, restoredStagedManifest, flags, faults>>

(* retryImport and confirmHardExclusions.                                  *)
Resume ==
  /\ ~checkingSelection /\ ~restoringLatest /\ ~resuming /\ MayAct
  /\ preview # None
  /\ preview[1].code = "HARD" \/ (preview[1].code = "CAPACITY" /\ preview[1].status = "FAILED")
  /\ resuming' = TRUE
  /\ tasks' = tasks \cup {Task("confirm", preview[1].batch)}
  /\ UNCHANGED <<srv, items, status, batchId, preview, restoredStagedManifest,
                 checkingSelection, removingFiles, restoringLatest, faults>>

-----------------------------------------------------------------------------
(* The server answers.                                                     *)

Replied(t, r) == tasks' = (tasks \ {t}) \cup {[t EXCEPT !.reply = r]}
FileReplied(t, p, r) == tasks' = (tasks \ {t}) \cup {[t EXCEPT !.sent[p] = r]}

ServeCreate(t) ==
  /\ t.kind = "create" /\ Len(srv) < MaxBatches
  /\ srv' = Append(srv, [state |-> "UPLOADING", code |-> "NONE", files |-> [p \in t.paths |-> "PARTIAL"]])
  /\ tasks' = (tasks \ {t}) \cup {[t EXCEPT !.reply = "ok", !.batch = Len(srv) + 1]}

(* The files of a cancelled batch fail, except those already in the store. *)
ServeCancel(t) ==
  LET b == t.batch
      kept == Has(b, {"PARTIAL", "COMPLETE"})
  IN /\ t.kind = "cancel"
     /\ \E gone \in IF srv[b].state = "UPLOADING" THEN {kept}
                     ELSE IF srv[b].state \in {"RUNNING", "FAILED"} THEN SUBSET kept ELSE {{}} :
          srv' = [srv EXCEPT
                    ![b].state = IF @ \in {"UPLOADING", "RUNNING", "FAILED"} THEN "CANCELLED" ELSE @,
                    ![b].files = [p \in DOMAIN @ |-> IF p \in gone THEN "FAILED" ELSE @[p]]]
     /\ Replied(t, "ok")

(* The last file that has not failed takes the batch with it.  A removal   *)
(* that did so is repeated without effect; any other comes too late for a  *)
(* batch that is closed.                                                   *)
RemovedAlready(t) ==
  /\ srv[t.batch].state = "CANCELLED"
  /\ Has(t.batch, {"PARTIAL", "COMPLETE"}) = {} /\ t.paths \subseteq Has(t.batch, {"REMOVED"})

ServeRemove(t) ==
  LET remaining == Has(t.batch, {"PARTIAL", "COMPLETE"}) \ t.paths
  IN /\ t.kind = "remove"
     /\ \/ /\ srv[t.batch].state = "UPLOADING"
           /\ srv' = [srv EXCEPT ![t.batch].state = IF remaining = {} THEN "CANCELLED" ELSE @,
                ![t.batch].files = [p \in DOMAIN @ |-> IF p \in t.paths THEN "REMOVED" ELSE @[p]]]
           /\ Replied(t, IF remaining = {} THEN "cancelled" ELSE "ok")
        \/ RemovedAlready(t) /\ srv' = srv /\ Replied(t, "cancelled")
        \/ /\ srv[t.batch].state # "UPLOADING" /\ ~RemovedAlready(t)
           /\ srv' = srv /\ Replied(t, "refused")

ServeComplete(t) ==
  LET b == t.batch
      whole == Has(b, {"PARTIAL"}) = {} /\ Has(b, {"COMPLETE"}) # {}
  IN /\ t.kind = "complete"
     /\ srv' = IF srv[b].state = "UPLOADING" /\ whole THEN [srv EXCEPT ![b].state = "RUNNING"] ELSE srv
     /\ Replied(t, IF srv[b].state = "CANCELLED" \/ (srv[b].state = "UPLOADING" /\ ~whole)
                   THEN "refused" ELSE "ok")

ServeConfirm(t) ==
  LET b == t.batch
  IN /\ t.kind = "confirm"
     /\ srv' = IF srv[b].state = "FAILED" /\ srv[b].code \in {"CAPACITY", "HARD"}
               THEN [srv EXCEPT ![b].state = "PROCESSING", ![b].code = "NONE"] ELSE srv
     /\ Replied(t, IF srv'[b].state \in {"PROCESSING", "PUBLISHED"} THEN "ok" ELSE "refused")

ServePreview(t) ==
  /\ t.kind \in {"poll", "restore"} /\ t.seen = None
  /\ LET b == IF t.kind = "poll" THEN t.batch ELSE Latest
     IN tasks' = (tasks \ {t}) \cup
                   {[t EXCEPT !.reply = "ok", !.seen = IF b = 0 THEN None ELSE <<PreviewOf(b)>>]}
  /\ srv' = srv

(* A chunk.  One that another loop has sent already comes with an offset   *)
(* that may be outdated.                                                   *)
ServeChunk(t, p) ==
  LET b == t.batch
      open == srv[b].state = "UPLOADING" /\ p \in DOMAIN srv[b].files
  IN /\ t.kind = "send"
     /\ \/ /\ open /\ srv[b].files[p] = "PARTIAL" /\ FileReplied(t, p, "ok")
           /\ srv' = [srv EXCEPT ![b].files[p] = "COMPLETE"]
        \/ /\ open /\ srv[b].files[p] = "COMPLETE" /\ FileReplied(t, p, "ok")
           /\ srv' = srv
        \/ /\ ~(open /\ srv[b].files[p] = "PARTIAL") /\ FileReplied(t, p, "refused")
           /\ srv' = srv

(* The report of a failed file, whatever became of the batch.  A file that *)
(* has failed already is reported again without effect.                    *)
ServeReport(t, p) ==
  LET b == t.batch
      failable == p \in Has(b, {"PARTIAL", "FAILED", "REMOVED"})
  IN /\ t.kind = "skip"
     /\ FileReplied(t, p, IF failable THEN "ok" ELSE "refused")
     /\ srv' = IF p \in Has(b, {"PARTIAL"}) THEN [srv EXCEPT ![b].files[p] = "FAILED"] ELSE srv

ServeFile(t, p) == t.sent[p] = "none" /\ (ServeChunk(t, p) \/ ServeReport(t, p))

Serve(t) ==
  /\ t \in tasks
  /\ \/ /\ t.reply = "none"
        /\ \/ ServeCreate(t) \/ ServeCancel(t) \/ ServeRemove(t) \/ ServeComplete(t)
           \/ ServeConfirm(t) \/ ServePreview(t)
     \/ \E p \in DOMAIN t.sent : ServeFile(t, p)
  /\ UNCHANGED <<items, status, batchId, preview, restoredStagedManifest, flags, faults>>

-----------------------------------------------------------------------------
(* A task goes on with its answer r.                                       *)

(* awaitPreview replaces task t: it starts a new generation of polling.    *)
Polled(t, b) == Outdated(tasks \ {t}, {"poll"}) \cup {Task("poll", b)}

(* The files of the list, as it is now, must be files of the batch.        *)
Created(t, r) ==
  LET known == r = "ok" /\ DOMAIN items \subseteq t.paths
  IN /\ t.kind = "create"
     /\ batchId' = IF r = "ok" THEN t.batch ELSE batchId
     /\ items' = IF known THEN Uploading ELSE items
     /\ status' = IF ~known THEN "error" ELSE IF Unsent = {} THEN "uploaded" ELSE status
     /\ tasks' = (tasks \ {t}) \cup (IF known /\ Unsent # {} THEN {SendTask(t.batch)} ELSE {})
     /\ UNCHANGED <<preview, restoredStagedManifest, flags>>

Cancelled(t, r) ==
  /\ t.kind = "cancel"
  /\ IF r = "ok"
     THEN /\ batchId' = 0 /\ items' = [p \in {} |-> "pending"] /\ tasks' = Detached(tasks \ {t})
          /\ preview' = None /\ restoredStagedManifest' = FALSE /\ status' = "idle"
     ELSE tasks' = tasks \ {t} /\ UNCHANGED <<batchId, items, preview, restoredStagedManifest, status>>
  /\ UNCHANGED flags

Removed(t, r) ==
  /\ t.kind = "remove"
  /\ removingFiles' = FALSE
  /\ IF r \in {"ok", "cancelled"}
     THEN /\ RemovedFrom(t.paths, r = "cancelled")
          /\ LET rest == Outdated(tasks \ {t}, {"restore", "poll"})
             IN tasks' = IF r = "cancelled" THEN Detached(rest) ELSE rest
     ELSE tasks' = tasks \ {t} /\ UNCHANGED <<items, status, batchId, restoredStagedManifest>>
  /\ UNCHANGED <<preview, checkingSelection, resuming, restoringLatest>>

(* Mutated form: the progress of the import is not followed.               *)
CompletedUnseen(t, r) ==
  /\ t.kind = "complete"
  /\ tasks' = tasks \ {t} /\ status' = IF r = "ok" THEN status ELSE "error"
  /\ UNCHANGED <<items, batchId, preview, restoredStagedManifest, flags>>

Completed(t, r) ==
  /\ t.kind = "complete"
  /\ IF r = "ok" THEN tasks' = Polled(t, t.batch) /\ status' = status
     ELSE tasks' = tasks \ {t} /\ status' = "error"
  /\ UNCHANGED <<items, batchId, preview, restoredStagedManifest, flags>>

Resumed(t, r) ==
  /\ t.kind = "confirm"
  /\ resuming' = FALSE
  /\ IF r = "ok"
     THEN /\ tasks' = Polled(t, t.batch) /\ status' = "processing"
          /\ preview' = IF preview = None THEN None ELSE <<[preview[1] EXCEPT !.status = "PROCESSING"]>>
     ELSE tasks' = tasks \ {t} /\ UNCHANGED <<status, preview>>
  /\ UNCHANGED <<items, batchId, restoredStagedManifest, checkingSelection, removingFiles, restoringLatest>>

(* refreshPreview, and awaitPreview around it.                             *)
StatusOf(v) ==
  CASE v.status = "RUNNING" -> "preflight" [] v.status = "PROCESSING" -> "processing"
    [] v.status = "FAILED" -> "error" [] v.status = "CANCELLED" -> "cancelled" [] OTHER -> "ready"

Refreshed(t, r) ==
  /\ t.kind = "poll"
  /\ IF r = "ok"
     THEN /\ preview' = t.seen /\ status' = StatusOf(t.seen[1])
          /\ tasks' = IF t.seen[1].status \in {"RUNNING", "PROCESSING"} /\ t.fresh
                      THEN (tasks \ {t}) \cup {Task("poll", t.batch)}
                      ELSE tasks \ {t}
     ELSE /\ preview' = preview
          /\ status' = IF t.failures + 1 >= RefreshLimit THEN "error" ELSE status
          /\ tasks' = IF t.failures + 1 < RefreshLimit /\ t.fresh
                      THEN (tasks \ {t}) \cup
                             {[t EXCEPT !.failures = @ + 1, !.reply = "none", !.seen = None]}
                      ELSE tasks \ {t}
  /\ UNCHANGED <<items, batchId, restoredStagedManifest, flags>>

(* restoreLatestPreview.                                                   *)
Restored(t, r) ==
  LET found == r = "ok" /\ t.fresh /\ t.seen # None
      staged == found /\ t.seen[1].upload
      whole == staged /\ t.seen[1].ready
  IN /\ t.kind = "restore"
     /\ restoringLatest' = (restoringLatest /\ ~t.fresh)
     /\ batchId' = IF staged THEN t.seen[1].batch ELSE batchId
     /\ preview' = IF whole THEN None ELSE IF found THEN t.seen ELSE preview
     /\ status' = IF whole THEN "uploaded" ELSE IF staged THEN "error"
                  ELSE IF found THEN StatusOf(t.seen[1]) ELSE status
     /\ restoredStagedManifest' = (whole \/ restoredStagedManifest)
     /\ items' = IF whole THEN [p \in DOMAIN t.seen[1].files |->
                                  IF t.seen[1].files[p] = "FAILED" THEN "failed" ELSE "complete"]
                 ELSE items
     /\ tasks' = IF found /\ ~staged /\ t.seen[1].status \in {"RUNNING", "PROCESSING"}
                 THEN Polled(t, t.seen[1].batch) ELSE tasks \ {t}
     /\ UNCHANGED <<checkingSelection, resuming, removingFiles>>

(* One file of an upload, and the end of startUpload with the last one.    *)
Sent(t, p, r) ==
  LET rest == [q \in DOMAIN t.sent \ {p} |-> t.sent[q]]
      failed == t.failed \/ r # "ok"
  IN /\ t.kind = "send"
     /\ items' = IF t.mine /\ p \in DOMAIN items
                 THEN [items EXCEPT ![p] = IF r = "ok" THEN "complete" ELSE "failed"] ELSE items
     /\ IF DOMAIN rest = {}
        THEN status' = (IF failed THEN "error" ELSE "uploaded") /\ tasks' = tasks \ {t}
        ELSE /\ status' = status
             /\ tasks' = (tasks \ {t}) \cup {[t EXCEPT !.sent = rest, !.failed = failed]}
     /\ UNCHANGED <<batchId, preview, restoredStagedManifest, flags>>

(* One file of skipFailedFiles.                                            *)
Skipped(t, p, r) ==
  LET rest == [q \in DOMAIN t.sent \ {p} |-> t.sent[q]]
  IN /\ t.kind = "skip"
     /\ items' = IF r = "ok" /\ t.mine /\ p \in DOMAIN items
                 THEN [items EXCEPT ![p] = "skipped"] ELSE items
     /\ status' = IF r # "ok" THEN "error" ELSE IF DOMAIN rest = {} THEN "uploaded" ELSE status
     /\ tasks' = IF r # "ok" \/ DOMAIN rest = {} THEN tasks \ {t}
                 ELSE (tasks \ {t}) \cup {[t EXCEPT !.sent = rest]}
     /\ UNCHANGED <<batchId, preview, restoredStagedManifest, flags>>

Continue(t, r) ==
  \/ Created(t, r) \/ Cancelled(t, r) \/ Removed(t, r) \/ Completed(t, r)
  \/ Resumed(t, r) \/ Refreshed(t, r) \/ Restored(t, r)
ContinueFile(t, p, r) == Sent(t, p, r) \/ Skipped(t, p, r)

Deliver(t) ==
  /\ t \in tasks
  /\ \/ t.reply # "none" /\ Continue(t, t.reply)
     \/ \E p \in DOMAIN t.sent : t.sent[p] # "none" /\ ContinueFile(t, p, t.sent[p])
  /\ UNCHANGED <<srv, faults>>

(* An answer, or the request before it, is lost.                           *)
Lose(t) ==
  /\ t \in tasks
  /\ faults < MaxFaults /\ faults' = faults + 1
  /\ Continue(t, "lost") \/ (\E p \in DOMAIN t.sent : ContinueFile(t, p, "lost"))
  /\ UNCHANGED srv

Reload ==
  /\ faults < MaxFaults /\ faults' = faults + 1
  /\ items' = [p \in {} |-> "pending"]
  /\ status' = "idle" /\ batchId' = 0 /\ preview' = None /\ restoredStagedManifest' = FALSE
  /\ checkingSelection' = FALSE /\ resuming' = FALSE /\ removingFiles' = FALSE /\ restoringLatest' = TRUE
  /\ tasks' = {Task("restore", 0)}
  /\ UNCHANGED srv

FlowStep ==
  \/ \E b \in DOMAIN srv : ServerMoves(b)
  \/ \E sel \in (SUBSET Paths) \ {{}} : Select(sel)
  \/ \E sel \in (SUBSET DOMAIN items) \ {{}} : RemoveSelected(sel)
  \/ Start \/ Cancel \/ Confirm \/ SkipFailed \/ Resume \/ Reload
  \/ \E t \in tasks : Selected(t) \/ Serve(t) \/ Deliver(t) \/ Lose(t)

FlowNext == FlowStep /\ UNCHANGED viewer

FlowSpec == FlowInit /\ [][FlowNext]_flowVars

-----------------------------------------------------------------------------

FlowTypeOK ==
  /\ viewer \in Viewers
  /\ \A b \in DOMAIN srv : /\ srv[b].state \in ServerStates
                           /\ srv[b].code \in {"NONE", "CAPACITY", "HARD", "OTHER"}
  /\ DOMAIN items \subseteq Paths
  /\ \A p \in DOMAIN items : items[p] \in {"pending", "uploading", "complete", "failed", "skipped"}
  /\ status \in {"idle", "uploaded", "ready", "error", "cancelled"} \cup Busy
  /\ batchId \in 0 .. Len(srv)
  /\ flags \in BOOLEAN \X BOOLEAN \X BOOLEAN \X BOOLEAN

(* An upload under way and the flags that lock the page have a task that   *)
(* will end them: no sequence of cancellations, second uploads, lost       *)
(* answers and retries leaves one behind.                                  *)
UnlocksItself ==
  /\ status = "uploading" => Running({"create", "send"})
  /\ checkingSelection => Running({"accept"})
  /\ resuming => Running({"confirm"})
  /\ removingFiles => Running({"remove"})
  /\ restoringLatest => \E t \in tasks : t.kind = "restore" /\ t.fresh

(* "The system checks the files, the page refreshes itself": a page that   *)
(* shows the import under way follows it, as long as the viewer waits for  *)
(* one answer before asking the next thing.                                *)
PreflightFollowed ==
  ~Impatient /\ status \in {"preflight", "processing"} => Running({"complete", "skip", "confirm", "poll"})

(* Whatever the page says it is doing, some function of it is still about  *)
(* to finish. The first part is the type invariant.                        *)
PageGoesOn == FlowTypeOK /\ UnlocksItself /\ PreflightFollowed

(* The import never gets a file that the viewer took off the list: what is *)
(* left in a batch that was handed over is on the page's list, as long as  *)
(* the viewer waits for one answer before asking the next thing.           *)
ArchivedWereListed ==
  ~Impatient /\ batchId # 0 /\ srv[batchId].state \in {"RUNNING", "PROCESSING", "PUBLISHED"}
    => Has(batchId, {"COMPLETE"}) \subseteq DOMAIN items

=============================================================================
