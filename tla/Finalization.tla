---------------------------- MODULE Finalization ----------------------------
(***************************************************************************)
(* The archiving and the analysis of uploaded files by the workers         *)
(* (uploads/finalize.ts, imports/postgres-analyzer.ts and the two handlers *)
(* in worker/register-handlers.ts), the projection of their failed jobs,   *)
(* and the whole of it put together with the staging.                      *)
(*                                                                         *)
(* finalizeUploadFile works on the database and on two directories.  Each  *)
(* step below is one transaction with the file operations around it; the   *)
(* slot remembers what the local variables of the handler do: whether a    *)
(* budget is reserved and whether the ciphertext is written.               *)
(***************************************************************************)
EXTENDS Uploads

vars == <<outbox, sent, jobs, slot, rec, faultVars, upload, imp, file, receipts, inflight, withdrawn,
          analysis, objects, staged, cipher, cleaning>>

Init == QueueInit(Works) /\ UploadsInit

Handles(s, topic, pc) == slot[s].pc = pc /\ slot[s].work.topic = topic
Target(s) == slot[s].work.obj
Fresh == [reserved |-> FALSE, written |-> FALSE]

(* An error leaves finalizeUploadFile through its catch block, and is      *)
(* permanent when its code says so (ZIP_..., PDF_BODY_UPLOAD_REJECTED).    *)
Raise(s, run, verdict) ==
  slot' = [slot EXCEPT ![s] = [pc |-> "undo", work |-> @.work, n |-> @.n, last |-> @.last,
                               run |-> run, verdict |-> verdict]]

-----------------------------------------------------------------------------

(* A file that is stored already: what the attempt that stored it may have *)
(* left behind is removed and its analysis announced.                      *)
Restore(s) ==
  LET f == Target(s)
  IN  /\ Handles(s, "upload.finalize", "work") /\ file[f].object # NoFile
      /\ cipher' = IF file[f].object # f THEN cipher \ {f} ELSE cipher
      /\ staged' = staged \ {f}
      /\ outbox' = IF Archivable(Shape[f].batch) THEN outbox \cup {Event("import.analyze", f)} ELSE outbox
      /\ Report(s, "completed")
      /\ UNCHANGED <<sent, jobs, rec, upload, imp, file, receipts, inflight, withdrawn, analysis,
                     objects, cleaning>>

(* UPDATE ... SET status = 'ENCRYPTING'.  An error here is before the try. *)
Claim(s) ==
  LET f == Target(s)
      claimable == file[f].status \in {"COMPLETE", "ENCRYPTING"} /\ Archivable(Shape[f].batch)
  IN  /\ Handles(s, "upload.finalize", "work") /\ file[f].object = NoFile
      /\ file' = IF claimable THEN [file EXCEPT ![f].status = "ENCRYPTING"] ELSE file
      /\ IF claimable THEN Continue(s, "reserve", Fresh) ELSE TransientFailure(s)
      /\ UNCHANGED <<outbox, sent, jobs, rec, upload, imp, receipts, inflight, withdrawn, analysis,
                     objects, staged, cipher, cleaning>>

(* The kind is read off the plaintext; an archive is validated and its     *)
(* entries are charged to the batch before any of them is written.         *)
InBudget(b, f) ==
  /\ upload[b].expanded + EntryBytes({f}) <= MaxExpanded
  /\ upload[b].count + EntryCount({f}) <= MaxFiles
ReserveAnew(f) == file[f].resv = "NONE"

Reserve(s) ==
  LET f == Target(s)  b == Shape[f].batch  zip == Shape[f].kind = "ZIP"
      live  == Archivable(b) /\ file[f].status = "ENCRYPTING"
      anew  == zip /\ live /\ f \in staged /\ ReserveAnew(f)
      fits  == ~anew \/ InBudget(b, f)
      taken == anew /\ fits
  IN  /\ Handles(s, "upload.finalize", "reserve")
      /\ file'   = IF taken THEN [file EXCEPT ![f].resv = "RESERVED"] ELSE file
      /\ upload' = IF taken THEN [upload EXCEPT ![b].expanded = @ + EntryBytes({f}),
                                                ![b].count = @ + EntryCount({f})] ELSE upload
      /\ CASE f \notin staged                       -> Raise(s, Fresh, "transient")
           [] f \in staged /\ Shape[f].kind \in {"PDF", "BADZIP"} -> Raise(s, Fresh, "permanent")
           [] f \in staged /\ zip /\ ~live          -> Raise(s, Fresh, "transient")
           [] f \in staged /\ zip /\ live /\ ~fits  -> Raise(s, Fresh, "permanent")
           [] OTHER -> Continue(s, "write", [Fresh EXCEPT !.reserved = zip])
      /\ UNCHANGED <<outbox, sent, jobs, rec, imp, receipts, inflight, withdrawn, analysis,
                     objects, staged, cipher, cleaning>>

(* The entries are extracted and the ciphertext written, in place of what  *)
(* an earlier attempt left there.  An archive that has vanished looks      *)
(* like an invalid one.                                                    *)
WriteCiphertext(s) ==
  LET f == Target(s)  zip == Shape[f].kind = "ZIP"
  IN  /\ Handles(s, "upload.finalize", "write")
      /\ IF f \in staged
         THEN /\ staged' = staged \cup Entries(f)
              /\ cipher' = cipher \cup {f}
              /\ Continue(s, "commit", [slot[s].run EXCEPT !.written = TRUE])
         ELSE /\ Raise(s, slot[s].run, IF zip THEN "permanent" ELSE "transient")
              /\ UNCHANGED <<staged, cipher>>
      /\ UNCHANGED <<outbox, sent, jobs, rec, upload, imp, file, receipts, inflight, withdrawn,
                     analysis, objects, cleaning>>

(* The transaction: the row must still be ENCRYPTING and the batch open; a *)
(* file whose content is stored already shares that object; the entries of *)
(* an archive become files of the batch.                                   *)
Same(f) == {o \in objects : Shape[o].content = Shape[f].content}
StoredAs(f) == IF Same(f) = {} THEN f ELSE CHOOSE o \in Same(f) : TRUE

Storable(f) == Archivable(Shape[f].batch) /\ file[f].status = "ENCRYPTING"

ChildRow(g) == [status |-> "COMPLETE", received |-> Shape[g].size, temp |-> TRUE, resv |-> "NONE",
                object |-> NoFile]
StoredRow(f) == [file[f] EXCEPT !.status = "STORED", !.object = StoredAs(f),
                                !.resv = IF Shape[f].kind = "ZIP" THEN "COMMITTED" ELSE @]

Conflicting(f) == \E g \in Entries(f), h \in Of(Shape[f].batch) : Shape[g].path = Shape[h].path

Stored(f) ==
  /\ objects' = objects \cup {StoredAs(f)}
  /\ file' = [g \in Files |-> CASE g = f -> StoredRow(f)
                                [] g \in Entries(f) -> ChildRow(g)
                                [] OTHER -> file[g]]
  /\ outbox' = outbox \cup {Event("upload.finalize", g) : g \in Entries(f)}
                      \cup {Event("import.analyze", f)}

CommitStored(s) ==
  LET f == Target(s)  run == slot[s].run
      unreserved == Shape[f].kind = "ZIP" /\ file[f].resv # "RESERVED"
  IN  /\ Handles(s, "upload.finalize", "commit")
      /\ IF Storable(f) /\ ~unreserved /\ ~Conflicting(f)
         THEN Stored(f) /\ Continue(s, "tidy", Fresh)
         ELSE /\ Raise(s, run, IF Storable(f) THEN "permanent" ELSE "transient")
              /\ UNCHANGED <<objects, file, outbox>>
      /\ UNCHANGED <<sent, jobs, rec, upload, imp, receipts, inflight, withdrawn, analysis, staged,
                     cipher, cleaning>>

(* The COMMIT took effect, and the handler is told that it failed.         *)
CommitUnanswered(s) ==
  LET f == Target(s)
  IN  /\ Handles(s, "upload.finalize", "commit")
      /\ Storable(f) /\ (Shape[f].kind = "ZIP" => file[f].resv = "RESERVED") /\ ~Conflicting(f)
      /\ Fault("ambiguous")
      /\ Stored(f)
      /\ Raise(s, slot[s].run, "transient")
      /\ UNCHANGED <<sent, jobs, rec, upload, imp, receipts, inflight, withdrawn, analysis, staged,
                     cipher, cleaning>>

Tidy(s) ==
  LET f == Target(s)
  IN  /\ Handles(s, "upload.finalize", "tidy")
      /\ cipher' = IF file[f].object # f THEN cipher \ {f} ELSE cipher
      /\ staged' = staged \ {f}
      /\ Report(s, "completed")
      /\ UNCHANGED <<outbox, sent, jobs, rec, upload, imp, file, receipts, inflight, withdrawn,
                     analysis, objects, cleaning>>

(* The catch block.  Once the ciphertext is written it is kept, with the   *)
(* extracted entries: the answer of a COMMIT may have been lost.           *)
Discards(run) == ~run.written

(* Then the frame: only a permanent failure, or the last attempt, fails    *)
(* the file.                                                               *)
Undo(s) ==
  LET f == Target(s)  run == slot[s].run
      release == run.reserved /\ file[f].resv = "RESERVED"
      permanent == slot[s].verdict = "permanent"
  IN  /\ Handles(s, "upload.finalize", "undo")
      /\ staged' = IF Discards(run) THEN staged \ Entries(f) ELSE staged
      /\ cipher' = IF Discards(run) THEN cipher \ {f} ELSE cipher
      /\ upload' = IF release THEN Released(upload, {f}) ELSE upload
      /\ file'   = IF release THEN [file EXCEPT ![f].resv = "NONE"] ELSE file
      /\ IF permanent \/ slot[s].last
         THEN ProjectThen(s, "project", "deadletter", "none")
         ELSE Report(s, "failed")
      /\ UNCHANGED <<outbox, sent, jobs, rec, imp, receipts, inflight, withdrawn, analysis, objects,
                     cleaning>>

(* recordUploadFileFailure, which throws on a file that is stored; then    *)
(* the ciphertext and the staging artefacts are removed.                   *)
ProjectFinalizeFailure(s) ==
  LET f == Target(s)  failable == Failable(f, {"COMPLETE", "ENCRYPTING"})
  IN  /\ Handles(s, "upload.finalize", "project")
      /\ IF failable
         THEN RecordUploadFileFailure(f) /\ ProjectThen(s, "sweep", "deadletter", "none")
         ELSE Report(s, "failed") /\ UNCHANGED <<upload, imp, file>>
      /\ UNCHANGED <<outbox, sent, jobs, rec, receipts, inflight, withdrawn, analysis, objects,
                     staged, cipher, cleaning>>

SweepFailed(s) ==
  LET f == Target(s)
  IN  /\ Handles(s, "upload.finalize", "sweep")
      /\ cipher' = cipher \ {f}
      /\ staged' = Swept(f)
      /\ file' = [file EXCEPT ![f].temp = FALSE]
      /\ Report(s, slot[s].result)
      /\ UNCHANGED <<outbox, sent, jobs, rec, upload, imp, receipts, inflight, withdrawn, analysis,
                     objects, cleaning>>

FinalizeStep(s) ==
  \/ Restore(s) \/ Claim(s) \/ Reserve(s) \/ WriteCiphertext(s) \/ CommitStored(s) \/ Tidy(s)
  \/ Undo(s) \/ ProjectFinalizeFailure(s) \/ SweepFailed(s)

-----------------------------------------------------------------------------
(* analyzeStoredUpload: an object is analysed once for a batch.            *)

Row(f) == {a \in analysis : a.batch = Shape[f].batch /\ a.object = file[f].object}

ReadObject(s) ==
  LET f == Target(s)
  IN  /\ Handles(s, "import.analyze", "work")
      /\ CASE file[f].object = NoFile               -> TransientFailure(s)
           [] file[f].object # NoFile /\ Row(f) # {} -> Report(s, "completed")
           [] OTHER -> IF file[f].object \in cipher THEN Continue(s, "classify", Fresh) ELSE TransientFailure(s)
      /\ UNCHANGED <<outbox, sent, jobs, rec, uploadVars>>

(* The upsert overwrites the row of a file that shares the object.         *)
RecordAnalysis(s) ==
  LET f == Target(s)  b == Shape[f].batch
      rows == (analysis \ Row(f)) \cup {[batch |-> b, object |-> file[f].object, status |-> Shape[f].outcome]}
  IN  /\ Handles(s, "import.analyze", "classify")
      /\ analysis' = rows
      /\ imp' = Preflight(imp, file, rows, b)
      /\ Report(s, "completed")
      /\ UNCHANGED <<outbox, sent, jobs, rec, upload, file, receipts, inflight, withdrawn, objects,
                     staged, cipher, cleaning>>

(* markStoredUploadAnalysisFailed: a row that says FAILED, unless there is *)
(* a row.                                                                  *)
MarkAnalysisFailed(f) ==
  LET b == Shape[f].batch
      rows == IF Row(f) # {} THEN analysis
              ELSE analysis \cup {[batch |-> b, object |-> file[f].object, status |-> "FAILED"]}
  IN  analysis' = rows /\ imp' = Preflight(imp, file, rows, b)

ProjectAnalysisFailure(s) ==
  LET f == Target(s)
  IN  /\ Handles(s, "import.analyze", "project")
      /\ IF file[f].object # NoFile THEN MarkAnalysisFailed(f) ELSE UNCHANGED <<analysis, imp>>
      /\ Report(s, "failed")
      /\ UNCHANGED <<outbox, sent, jobs, rec, upload, file, receipts, inflight, withdrawn, objects,
                     staged, cipher, cleaning>>

AnalyzeStep(s) == ReadObject(s) \/ RecordAnalysis(s) \/ ProjectAnalysisFailure(s)

(* A statement or a write is refused.                                      *)
StepRefused(s) ==
  /\ \/ slot[s].pc \in {"reserve", "write", "commit"} /\ Raise(s, slot[s].run, "transient")
     \/ slot[s].pc \in {"work", "classify"} /\ TransientFailure(s)
     \/ slot[s].pc \in {"tidy", "project", "sweep"} /\ Report(s, "failed")
  /\ Fault("refused")
  /\ UNCHANGED <<outbox, sent, jobs, rec, uploadVars>>

-----------------------------------------------------------------------------
(* The terminal reconciler's part.                                         *)

\* Mutated form: a file that says FAILED is left alone.
HopelessUnfailed(f) == file[f].status \in {"COMPLETE", "ENCRYPTING"}
Hopeless(f) == file[f].status \in {"COMPLETE", "ENCRYPTING", "FAILED"}

ReconcileFinalize ==
  LET f == rec.work.obj
  IN  /\ rec.pc = "project" /\ rec.work.topic = "upload.finalize"
      /\ IF Hopeless(f)
         THEN RecordUploadFileFailure(f) /\ rec' = [rec EXCEPT !.pc = "sweep"]
         ELSE rec' = [rec EXCEPT !.pc = "record"] /\ UNCHANGED <<upload, imp, file>>
      /\ UNCHANGED <<outbox, sent, jobs, slot, receipts, inflight, withdrawn, analysis, objects,
                     staged, cipher, cleaning>>

ReconcileSweep ==
  LET f == rec.work.obj
  IN  /\ rec.pc = "sweep"
      /\ cipher' = cipher \ {f}
      /\ staged' = Swept(f)
      /\ file' = [file EXCEPT ![f].temp = FALSE]
      /\ rec' = [rec EXCEPT !.pc = "record"]
      /\ UNCHANGED <<outbox, sent, jobs, slot, upload, imp, receipts, inflight, withdrawn, analysis,
                     objects, cleaning>>

(* A file that is not stored makes the projection throw.                   *)
ReconcileAnalysis ==
  LET f == rec.work.obj
  IN  /\ rec.pc = "project" /\ rec.work.topic = "import.analyze"
      /\ file[f].object # NoFile
      /\ IF Row(f) = {} THEN MarkAnalysisFailed(f) ELSE UNCHANGED <<analysis, imp>>
      /\ rec' = [rec EXCEPT !.pc = "record"]
      /\ UNCHANGED <<outbox, sent, jobs, slot, upload, file, receipts, inflight, withdrawn, objects,
                     staged, cipher, cleaning>>

ReconcilerStep ==
  \/ /\ \E w \in DOMAIN jobs : \E n \in DOMAIN jobs[w] : BeginReconciliation(w, n)
     /\ UNCHANGED uploadVars
  \/ ReconcileFinalize \/ ReconcileSweep \/ ReconcileAnalysis
  \/ EndReconciliation /\ UNCHANGED uploadVars

-----------------------------------------------------------------------------

Api ==
  \/ \E b \in Batches : CreateBatch(b) \/ CancelBatch(b)
  \/ \E b \in Batches : \E S \in SUBSET {f \in Files : Shape[f].batch = b} :
       CreateBatchWithFiles(b, S) \/ CreateFiles(b, S) \/ RemoveFiles(b, S) \/ RemoveAgain(b, S)
  \/ \E q \in Requests, f \in Files, len \in ChunkLengths : StageChunk(q, f, len)
  \/ \E q \in Requests : CommitChunk(q) \/ DropChunk(q)
  \/ \E f \in Files : FailFile(f)

Time    == \E b \in Batches : Tick(b)
Cleaner == \E f \in Files : CleanUp(f)

QueueOnly(A) == A /\ UNCHANGED <<faultVars, uploadVars>>
Staging(A)   == A /\ UNCHANGED <<queueVars, faultVars>>
NoFault(A)   == A /\ UNCHANGED faultVars

Next ==
  \/ Staging(Api) \/ Staging(Time) \/ Staging(ExpireStaging) \/ Staging(Cleaner)
  \/ NoFault(\E b \in Batches : CompleteBatch(b))
  \/ QueueOnly(QueueStep)
  \/ NoFault(\E s \in Slots : FinalizeStep(s) \/ AnalyzeStep(s))
  \/ NoFault(ReconcilerStep)
  \/ \E f \in Files : CleanUpLost(f) /\ UNCHANGED queueVars
  \/ QueueFault /\ UNCHANGED uploadVars
  \/ \E s \in Slots : CommitUnanswered(s) \/ StepRefused(s)
  \/ ReconciliationLost /\ UNCHANGED uploadVars

Spec == Init /\ [][Next]_vars

-----------------------------------------------------------------------------
(* Properties.                                                             *)

(* Every row and every directory holds what the code puts there.           *)
TypeOK ==
  /\ upload \in [Batches -> [status : UploadStatus, declared : Nat, received : Nat, count : Nat,
                             expanded : Nat, due : BOOLEAN]]
  /\ imp \in [Batches -> ImportStatus]
  /\ file \in [Files -> [status : FileStatus, received : Nat, temp : BOOLEAN,
                         resv : {"NONE", "RESERVED", "COMMITTED"}, object : Files \cup {NoFile}]]
  /\ \A a \in analysis : a.batch \in Batches /\ a.object \in Files
  /\ objects \subseteq Files /\ staged \subseteq Files /\ cipher \subseteq Files
  /\ \A f \in Files : file[f].status = "STORED" <=> file[f].object \in objects

(* What a batch was charged is what its files take: through withdrawals    *)
(* repeated, archives reserved by attempts that die, budgets released by   *)
(* the catch block, by a failure, by expiry and by a cancellation.         *)
TopLevel(b) == {f \in Of(b) : Shape[f].parent = NoFile}
UsageExact ==
  \A b \in Batches :
    LET kept     == TopLevel(b) \ withdrawn
        archives == {f \in Of(b) : file[f].resv # "NONE"}
    IN  /\ upload[b].declared = Sizes(kept)
        /\ upload[b].received = Received(kept)
        /\ upload[b].expanded = EntryBytes(archives)
        /\ upload[b].count = Cardinality(kept) + EntryCount(archives)
        /\ upload[b].declared <= MaxBatchBytes /\ upload[b].count <= MaxFiles
        /\ upload[b].expanded <= MaxExpanded

(* A stored object can be read: no removal of a ciphertext that was        *)
(* thought to be unreferenced, in a retry, in a projection or after a lost *)
(* COMMIT, takes one that a row refers to.                                 *)
StoredReadable == objects \subseteq cipher

(* The bytes of a file that is still to be received or archived are in the *)
(* staging directory: no cleanup of a failed or a withdrawn file, and no   *)
(* catch block of an archive, takes them away.                             *)
PlaintextKept ==
  \A f \in Files :
    file[f].status \in {"PENDING", "UPLOADING", "COMPLETE", "ENCRYPTING"} /\ ~Listed(f) => f \in staged

(* A batch is committed on its own only when every file that has not       *)
(* failed is stored and analysed.                                          *)
PreflightSound ==
  [][ \A b \in Batches : imp[b] # "COMMITTING" /\ imp'[b] = "COMMITTING" =>
        /\ {a.object : a \in Analyzed(analysis', b)} = Expected(file', b)
        /\ \A f \in Usable(file', b) : Listed(f) \/ file'[f].status = "STORED"
        /\ \E a \in Analyzed(analysis', b) : a.status = "PARSED"
    ]_vars

(* A ciphertext that no row refers to belongs to work that is not over, or *)
(* to a file that was stored by sharing the object of another.             *)
FinalizeOpen(f) == Unfinished(Work("upload.finalize", f))
NoOrphanCiphertext ==
  \A f \in cipher \ objects : FinalizeOpen(f) \/ file[f].status = "STORED"

(* The staging directory and the object store hold what the rows need, and *)
(* nothing that no work will remove. The first part is the type invariant. *)
FilesSound == TypeOK /\ PlaintextKept /\ StoredReadable /\ NoOrphanCiphertext

(* A file holds what its receipts say, chunk after chunk, although the     *)
(* same chunk may be sent twice and two requests may race for an offset.   *)
ReceiptsOf(f) == {r \in receipts : r.file = f}
ChunksExact ==
  \A f \in Files : Shape[f].parent = NoFile =>
    /\ file[f].received = SumFunctionOnSet([r \in receipts |-> r.len], ReceiptsOf(f))
    /\ file[f].received <= Shape[f].size
    /\ \A r \in ReceiptsOf(f) : r.offset + r.len <= file[f].received

(* A batch shows ANALYZING only while some file of it has work before it,  *)
(* as long as no two of its files have the same content.                   *)
Settling(b)   == \E f \in Of(b) : FinalizeOpen(f) \/ Unfinished(Work("import.analyze", f))
Duplicated(b) == \E f, g \in Of(b) : f # g /\ file[f].object = file[g].object /\ file[f].object # NoFile
AnalysisNotForgotten ==
  \A b \in Batches : imp[b] = "ANALYZING" => Settling(b) \/ Duplicated(b)

(* A second copy of a source needs nothing from the user, says the system: *)
(* once everything a batch holds is archived and analysed, and a part of   *)
(* it is usable, the batch goes on without him.                            *)
DuplicatesNeedNothing ==
  \A b \in Batches :
    /\ upload[b].status = "READY" /\ ~Settling(b)
    /\ {a.object : a \in Analyzed(analysis, b)} = Expected(file, b)
    /\ \E a \in Analyzed(analysis, b) : a.status = "PARSED"
    => imp[b] # "ANALYZING"

=============================================================================
