------------------------------ MODULE Uploads -------------------------------
(***************************************************************************)
(* The staging of uploads: batches, files and chunks up to the moment the  *)
(* user completes a batch, what may still be withdrawn, and what expiry    *)
(* and cancellation take back (uploads/service.ts, partial-failure.ts,     *)
(* archive-budget.ts, staging-cleanup.ts).                                 *)
(*                                                                         *)
(* A step is one transaction; the files a request removes afterwards are   *)
(* a step of their own each, and the process may die before it.  What a    *)
(* file is (its size, its kind, what an archive holds) and the limits of a *)
(* batch are fixed by the scenario.                                        *)
(***************************************************************************)
EXTENDS JobQueue, Functions

CONSTANT NoFile

Shape        == scenario.shape              \* [Files -> what the file is]
Files        == DOMAIN Shape                \* upload_file ids, those of archive entries included
Batches      == {Shape[f].batch : f \in Files}
Requests     == scenario.requests           \* PATCH requests that can be under way at once
ChunkLengths == scenario.chunkLengths
MaxBatchBytes == scenario.maxBatchBytes     \* limits of one batch
MaxFiles      == scenario.maxFiles
MaxExpanded   == scenario.maxExpanded

Kinds    == {"TEXT", "ZIP", "BADZIP", "PDF", "LISTED"}
Outcomes == {"PARSED", "AWAITING_MAPPING", "EXCLUDED"}

ASSUME UploadsAssumption ==
  \A s \in Scenarios :
    /\ IsFiniteSet(DOMAIN s.shape) /\ NoFile \notin DOMAIN s.shape
    /\ \A f \in DOMAIN s.shape :
         LET row == s.shape[f]
         IN  /\ row.path \in Nat /\ row.size \in Nat /\ row.kind \in Kinds /\ row.content \in Nat
             /\ row.parent \in DOMAIN s.shape \cup {NoFile} /\ row.outcome \in Outcomes
             /\ row.kind = "LISTED" => row.size = 0 /\ row.parent = NoFile
             /\ row.parent # NoFile => /\ s.shape[row.parent].kind = "ZIP"
                                       /\ s.shape[row.parent].batch = row.batch
    /\ s.chunkLengths \subseteq Nat
    /\ s.maxBatchBytes \in Nat /\ s.maxFiles \in Nat /\ s.maxExpanded \in Nat

VARIABLES upload,     \* [Batches -> upload_batch row]
          imp,        \* [Batches -> import_batch status]
          file,       \* [Files -> upload_file row]
          receipts,   \* upload_chunk_receipt rows, one per file and offset
          inflight,   \* [Requests -> a chunk that was received and is not committed]
          withdrawn,  \* files named by an UPLOAD_FILES_REMOVED_BEFORE_IMPORT audit event
          analysis,   \* import_file rows: [batch, object, status]
          objects,    \* stored_object rows, by the file they were stored from
          staged,     \* files whose plaintext is in the staging directory
          cipher,     \* files whose ciphertext is in the object store
          cleaning    \* files whose staging artefacts a request still has to remove

uploadVars == <<upload, imp, file, receipts, inflight, withdrawn, analysis, objects, staged, cipher,
                cleaning>>

NoRequest == [file |-> NoFile]
FileStatus   == {"ABSENT", "PENDING", "UPLOADING", "COMPLETE", "ENCRYPTING", "STORED", "FAILED"}
UploadStatus == {"ABSENT", "OPEN", "UPLOADING", "READY", "EXPIRED", "CANCELLED"}
ImportStatus == {"ABSENT", "UPLOADING", "ANALYZING", "COMMITTING", "FAILED", "CANCELLED"}

UploadsInit ==
  /\ upload = [b \in Batches |-> [status |-> "ABSENT", declared |-> 0, received |-> 0, count |-> 0,
                                  expanded |-> 0, due |-> FALSE]]
  /\ imp = [b \in Batches |-> "ABSENT"]
  /\ file = [f \in Files |-> [status |-> "ABSENT", received |-> 0, temp |-> FALSE,
                              resv |-> "NONE", object |-> NoFile]]
  /\ receipts = {} /\ withdrawn = {} /\ analysis = {} /\ objects = {}
  /\ inflight = [q \in Requests |-> NoRequest]
  /\ staged = {} /\ cipher = {} /\ cleaning = {}

-----------------------------------------------------------------------------

Work(topic, f)   == [topic |-> topic, obj |-> f]
Works            == [topic : {"upload.finalize", "import.analyze"}, obj : Files]
Event(topic, f)  == [work |-> Work(topic, f), key |-> f]

Of(b)      == {f \in Files : Shape[f].batch = b /\ file[f].status # "ABSENT"}
Entries(f) == {g \in Files : Shape[g].parent = f}
Listed(f)  == Shape[f].kind = "LISTED"

Sizes(S)         == SumFunctionOnSet([f \in Files |-> Shape[f].size], S)
Received(S)      == SumFunctionOnSet([f \in Files |-> file[f].received], S)
EntryBytes(S)    == Sizes(UNION {Entries(f) : f \in S})
EntryCount(S)    == Cardinality(UNION {Entries(f) : f \in S})

(* A batch that may still receive, and one whose files may be archived.    *)
Receiving(b)    == upload[b].status \in {"OPEN", "UPLOADING"} /\ ~upload[b].due
Archivable(b)   == upload[b].status = "READY" \/ Receiving(b)

Withheld(f) == file[f].status \in {"PENDING", "UPLOADING"}

-----------------------------------------------------------------------------
(* The preflight: what a batch shows once its files are analysed.  It is   *)
(* decided from counts, and only while the batch has not moved on.         *)

Identity(row, f) == IF row[f].object = NoFile THEN f ELSE row[f].object
Usable(row, b) == {f \in Files : Shape[f].batch = b /\ row[f].status \notin {"ABSENT", "FAILED"}}
Expected(row, b) == {Identity(row, f) : f \in Usable(row, b)}
Analyzed(rows, b) == {a \in rows : a.batch = b}

\* Mutated form: archives are not waited for.
DecideEarly(expected, analyzed, parsed) ==
  CASE expected = 0         -> "FAILED"
    [] expected > analyzed /\ parsed = 0 -> "ANALYZING"
    [] parsed = 0           -> "FAILED"
    [] OTHER                -> "COMMITTING"
DecidePreflight(expected, analyzed, parsed) ==
  CASE expected = 0         -> "FAILED"
    [] expected # analyzed  -> "ANALYZING"
    [] parsed = 0           -> "FAILED"
    [] OTHER                -> "COMMITTING"

(* COMMITTING comes with an import.commit event in the same transaction,   *)
(* which is where Pipeline takes over.                                     *)
Preflight(status, row, rows, b) ==
  IF status[b] \in {"UPLOADING", "ANALYZING"}
  THEN [status EXCEPT ![b] = DecidePreflight(Cardinality(Expected(row, b)),
                                             Cardinality(Analyzed(rows, b)),
                                             Cardinality({a \in Analyzed(rows, b) : a.status = "PARSED"}))]
  ELSE status

-----------------------------------------------------------------------------
(* Registration.                                                           *)

DistinctPaths(S) == \A f, g \in S : f # g => Shape[f].path # Shape[g].path
Fits(b, S) ==
  /\ upload[b].declared + Sizes(S) <= MaxBatchBytes
  /\ upload[b].count + Cardinality(S) <= MaxFiles

(* registerFilesInTransaction: rows, empty staging files, and import_file  *)
(* rows for the PDFs that are only listed.  UNIQUE (batch, path) refuses a *)
(* path the batch has had before, withdrawn or not.                        *)
Register(b, S) ==
  /\ S # {} /\ \A f \in S : Shape[f].batch = b /\ Shape[f].parent = NoFile
  /\ DistinctPaths(Of(b) \cup S) /\ Of(b) \cap S = {}
  /\ Fits(b, S)
  /\ file' = [f \in Files |->
                IF f \in S THEN [file[f] EXCEPT !.status = IF Shape[f].size = 0 THEN "COMPLETE" ELSE "PENDING",
                                                !.temp = TRUE]
                           ELSE file[f]]
  /\ staged' = staged \cup {f \in S : ~Listed(f)}
  /\ analysis' = analysis \cup {[batch |-> b, object |-> f, status |-> "EXCLUDED"] : f \in {g \in S : Listed(g)}}
  /\ upload' = [upload EXCEPT ![b].declared = @ + Sizes(S), ![b].count = @ + Cardinality(S),
                              ![b].status = "UPLOADING"]

(* createBatch: a batch that waits for its files.                          *)
CreateBatch(b) ==
  /\ upload[b].status = "ABSENT"
  /\ upload' = [upload EXCEPT ![b].status = "OPEN"]
  /\ imp' = [imp EXCEPT ![b] = "UPLOADING"]
  /\ UNCHANGED <<file, receipts, inflight, withdrawn, analysis, objects, staged, cipher, cleaning>>

(* createBatchWithFiles; a repeated request finds the batch and changes    *)
(* nothing.                                                                *)
CreateBatchWithFiles(b, S) ==
  /\ upload[b].status = "ABSENT"
  /\ Register(b, S)
  /\ imp' = [imp EXCEPT ![b] = "UPLOADING"]
  /\ UNCHANGED <<receipts, inflight, withdrawn, objects, cipher, cleaning>>

CreateFiles(b, S) ==
  /\ upload[b].status \in {"OPEN", "UPLOADING"}
  /\ Register(b, S)
  /\ UNCHANGED <<imp, receipts, inflight, withdrawn, objects, cipher, cleaning>>

-----------------------------------------------------------------------------
(* appendChunk.  The body is received into a file of its own between a     *)
(* first look at the row and the transaction that repeats it.              *)

Fitting(f, offset, len) ==
  file[f].received = offset /\ offset + len <= Shape[f].size

StageChunk(q, f, len) ==
  /\ inflight[q] = NoRequest
  /\ Withheld(f) /\ Receiving(Shape[f].batch)
  /\ Fitting(f, file[f].received, len)
  /\ inflight' = [inflight EXCEPT ![q] = [file |-> f, offset |-> file[f].received, len |-> len]]
  /\ UNCHANGED <<upload, imp, file, receipts, withdrawn, analysis, objects, staged, cipher, cleaning>>

\* Mutated form: what was seen before the body arrived is not looked at again.
CommittableUnchecked(c) == c.file \in staged
Committable(c) ==
  /\ Withheld(c.file) /\ Receiving(Shape[c.file].batch)
  /\ Fitting(c.file, c.offset, c.len)
  /\ c.file \in staged
  /\ \A r \in receipts : ~(r.file = c.file /\ r.offset = c.offset)

CommitChunk(q) ==
  LET c == inflight[q]  f == c.file  b == Shape[f].batch
      received == file[f].received + c.len
  IN  /\ c # NoRequest /\ Committable(c)
      /\ receipts' = receipts \cup {c}
      /\ file' = [file EXCEPT ![f].received = received,
                              ![f].status = IF received = Shape[f].size THEN "COMPLETE" ELSE "UPLOADING"]
      /\ upload' = [upload EXCEPT ![b].received = @ + c.len]
      /\ inflight' = [inflight EXCEPT ![q] = NoRequest]
      /\ UNCHANGED <<imp, withdrawn, analysis, objects, staged, cipher, cleaning>>

(* The connection is lost, or the transaction refuses the chunk.           *)
DropChunk(q) ==
  /\ inflight[q] # NoRequest
  /\ inflight' = [inflight EXCEPT ![q] = NoRequest]
  /\ UNCHANGED <<upload, imp, file, receipts, withdrawn, analysis, objects, staged, cipher, cleaning>>

-----------------------------------------------------------------------------
(* completeBatch: the list is frozen and its files handed to the worker.   *)
(* Repeated on a batch that is ready, it only decides the preflight again. *)

Completable(b) ==
  /\ \A f \in Of(b) : ~Withheld(f)
  /\ \E f \in Of(b) : file[f].status \in {"COMPLETE", "ENCRYPTING", "STORED"}

CompleteBatch(b) ==
  /\ upload[b].status \in {"OPEN", "UPLOADING", "READY"}
  /\ imp[b] \in {"UPLOADING", "ANALYZING"}
  /\ Completable(b)
  /\ upload' = [upload EXCEPT ![b].status = "READY"]
  /\ outbox' = IF upload[b].status = "READY" THEN outbox
               ELSE outbox \cup {Event("upload.finalize", f) :
                                   f \in {g \in Of(b) : file[g].status = "COMPLETE" /\ ~Listed(g)}}
  /\ imp' = Preflight(imp, file, analysis, b)
  /\ UNCHANGED <<sent, jobs, slot, rec, file, receipts, inflight, withdrawn, analysis, objects,
                 staged, cipher, cleaning>>

-----------------------------------------------------------------------------
(* Taking back.                                                            *)

(* The reserved budgets of S return to their batches.                      *)
Released(rows, S) ==
  [b \in Batches |->
     LET back == {f \in S : Shape[f].batch = b /\ file[f].resv = "RESERVED"}
     IN  [rows[b] EXCEPT !.expanded = @ - EntryBytes(back), !.count = @ - EntryCount(back)]]

FailedRow(row) == IF row.status = "STORED" THEN row ELSE [row EXCEPT !.status = "FAILED", !.resv = "NONE"]
Failing(S) == [f \in Files |-> IF f \in S THEN FailedRow(file[f]) ELSE file[f]]

(* removeFiles: while nothing is archived the user takes files off the     *)
(* list; with the last one the batch is over.  The usage of a file is      *)
(* returned once, however often it is withdrawn.                           *)
\* Mutated form: the usage of a file that was withdrawn before is returned again.
NewlyRemovedAll(S) == S
NewlyRemoved(S) == S \ withdrawn

RemoveFiles(b, S) ==
  LET new  == NewlyRemoved(S)
      over == \A f \in Of(b) \ S : file[f].status = "FAILED"
  IN  /\ S # {} /\ S \subseteq Of(b)
      /\ upload[b].status = "UPLOADING" /\ imp[b] = "UPLOADING"
      /\ \A f \in S : file[f].object = NoFile /\ file[f].status # "ENCRYPTING" /\ file[f].resv = "NONE"
      /\ upload' = [upload EXCEPT ![b].declared = @ - Sizes(new), ![b].received = @ - Received(new),
                                  ![b].count = @ - Cardinality(new),
                                  ![b].status = IF over THEN "CANCELLED" ELSE @]
      /\ imp' = IF over THEN [imp EXCEPT ![b] = "CANCELLED"] ELSE imp
      /\ file' = Failing(S)
      /\ analysis' = {a \in analysis : ~(a.batch = b /\ a.object \in S)}
      /\ withdrawn' = withdrawn \cup S
      /\ cleaning' = cleaning \cup {f \in S : file[f].temp}
      /\ UNCHANGED <<receipts, inflight, objects, staged, cipher>>

(* Repeated after it took the last file away, it only cleans up again.     *)
RemoveAgain(b, S) ==
  /\ upload[b].status = "CANCELLED" /\ imp[b] = "CANCELLED"
  /\ S # {} /\ S \subseteq Of(b) \cap withdrawn
  /\ \A f \in Of(b) : file[f].status = "FAILED" /\ file[f].object = NoFile /\ file[f].resv = "NONE"
  /\ cleaning' = cleaning \cup {f \in S : file[f].temp}
  /\ UNCHANGED <<upload, imp, file, receipts, inflight, withdrawn, analysis, objects, staged, cipher>>

(* recordUploadFileFailure.  A file that is stored is not failed.          *)
Failable(f, allowed) == file[f].status \in allowed \cup {"FAILED"}
\* Mutated form: the preflight is not decided again.
RecordFailureOnly(f) ==
  /\ upload' = Released(upload, {f})
  /\ file' = Failing({f})
  /\ UNCHANGED imp
RecordUploadFileFailure(f) ==
  LET b == Shape[f].batch
  IN  /\ upload' = Released(upload, {f})
      /\ file' = Failing({f})
      /\ imp' = IF upload[b].status = "READY" THEN Preflight(imp, Failing({f}), analysis, b) ELSE imp

(* The browser gives a file up.                                            *)
FailFile(f) ==
  /\ Failable(f, {"PENDING", "UPLOADING"})
  /\ RecordUploadFileFailure(f)
  /\ cleaning' = cleaning \cup {g \in {f} : file[g].temp}
  /\ UNCHANGED <<receipts, inflight, withdrawn, analysis, objects, staged, cipher>>

(* cancelBatch: a batch that was completed keeps its READY, its import is  *)
(* cancelled unless it is being committed.                                 *)
CancelBatch(b) ==
  LET S == {f \in Of(b) : file[f].temp}
  IN  /\ upload[b].status # "ABSENT"
      /\ upload' = [Released(upload, S) EXCEPT
                      ![b].status = IF @ \in {"OPEN", "UPLOADING"} THEN "CANCELLED" ELSE @]
      /\ imp' = [imp EXCEPT ![b] = IF @ \in {"UPLOADING", "ANALYZING", "FAILED"} THEN "CANCELLED" ELSE @]
      /\ file' = Failing(S)
      /\ cleaning' = cleaning \cup S
      /\ UNCHANGED <<receipts, inflight, withdrawn, analysis, objects, staged, cipher>>

(* A week passes.                                                          *)
Tick(b) ==
  /\ upload[b].status \in {"OPEN", "UPLOADING"} /\ ~upload[b].due
  /\ upload' = [upload EXCEPT ![b].due = TRUE]
  /\ UNCHANGED <<imp, file, receipts, inflight, withdrawn, analysis, objects, staged, cipher, cleaning>>

(* expireUploadStaging, a timer of every worker: batches that are due, and *)
(* whatever a failure or a cancellation left in the staging directory.     *)
Expiring(b) == upload[b].status \in {"OPEN", "UPLOADING"} /\ upload[b].due
LeftOver(f) ==
  LET b == Shape[f].batch
  IN  /\ file[f].temp
      /\ file[f].status = "FAILED" \/ Expiring(b) \/ upload[b].status \in {"EXPIRED", "CANCELLED"}

ExpireStaging ==
  LET S == {f \in Files : LeftOver(f)}
      expired == [b \in Batches |-> IF Expiring(b) THEN [upload[b] EXCEPT !.status = "EXPIRED"] ELSE upload[b]]
  IN  /\ S # {} \/ \E b \in Batches : Expiring(b)
      /\ upload' = Released(expired, S)
      /\ file' = Failing(S)
      /\ cleaning' = cleaning \cup S
      /\ UNCHANGED <<imp, receipts, inflight, withdrawn, analysis, objects, staged, cipher>>

(* cleanupUploadStagingArtifacts: the file's plaintext and what was        *)
(* extracted from it; then temp_path is cleared.                           *)
Swept(f) == staged \ ({f} \cup Entries(f))
CleanUp(f) ==
  /\ f \in cleaning
  /\ staged' = Swept(f)
  /\ file' = [file EXCEPT ![f].temp = FALSE]
  /\ cleaning' = cleaning \ {f}
  /\ UNCHANGED <<upload, imp, receipts, inflight, withdrawn, analysis, objects, cipher>>

(* The process that had to remove them dies, or the disk refuses.          *)
CleanUpLost(f) ==
  /\ f \in cleaning
  /\ Fault("refused")
  /\ cleaning' = cleaning \ {f}
  /\ UNCHANGED <<upload, imp, file, receipts, inflight, withdrawn, analysis, objects, staged, cipher>>

=============================================================================
