----------------------------- MODULE MCUploads ------------------------------
(***************************************************************************)
(* Small instances of uploads: which files there are decides what can      *)
(* happen, so each instance names its own.                                 *)
(***************************************************************************)
EXTENDS Finalization, TLC

CONSTANTS b1, b2, f1, f2, f3, q1, q2, s1, s2

Plain(b, path, size, content) ==
  [batch |-> b, path |-> path, size |-> size, kind |-> "TEXT", content |-> content,
   parent |-> NoFile, outcome |-> "PARSED"]
Archive(b, path, content) ==
  [Plain(b, path, 1, content) EXCEPT !.kind = "ZIP", !.outcome = "EXCLUDED"]
Entry(z, b, path, content) == [Plain(b, path, 1, content) EXCEPT !.parent = z]

(* Two files that arrive in chunks, and a PDF that is only listed.         *)
Arriving ==
  [shape |-> f1 :> Plain(b1, 1, 2, 1) @@ f2 :> Plain(b1, 2, 1, 2)
               @@ f3 :> [Plain(b1, 3, 0, 3) EXCEPT !.kind = "LISTED", !.outcome = "EXCLUDED"],
   requests |-> {q1, q2}, chunkLengths |-> {1, 2},
   maxBatchBytes |-> 2, maxFiles |-> 3, maxExpanded |-> 1,
   slots |-> {}, retryLimit |-> 0, faultKinds |-> {"refused"}, maxFaults |-> 1]

(* An archive with one entry, and two handlers at a time.                  *)
Packed ==
  [Arriving EXCEPT !.shape = f1 :> Archive(b1, 1, 1) @@ f2 :> Entry(f1, b1, 2, 2),
     !.requests = {q1}, !.chunkLengths = {1}, !.maxBatchBytes = 1, !.maxFiles = 2,
     !.slots = {s1, s2}, !.retryLimit = 1,
     !.faultKinds = {"crash", "refused", "ambiguous", "late", "duplicate"}]

(* An archive whose entry has the path of a file beside it.                *)
Clashing ==
  [Packed EXCEPT
     !.shape = f1 :> Archive(b1, 1, 1) @@ f2 :> Entry(f1, b1, 3, 2) @@ f3 :> Plain(b1, 3, 1, 3),
     !.maxBatchBytes = 2, !.maxFiles = 4, !.maxExpanded = 2,
     !.slots = {s1}, !.faultKinds = {"crash", "refused", "ambiguous"}]

(* The same content in two batches.                                        *)
Shared ==
  [Packed EXCEPT !.shape = f1 :> Plain(b1, 1, 1, 1) @@ f2 :> Plain(b2, 1, 1, 1),
     !.maxBatchBytes = 2, !.maxFiles = 3,
     !.slots = {s1}, !.retryLimit = 0, !.faultKinds = {"crash", "ambiguous"}]

(* The same content twice in one batch.                                    *)
Twice ==
  [Packed EXCEPT !.shape = f1 :> Plain(b1, 1, 1, 1) @@ f2 :> Plain(b1, 2, 1, 1),
     !.maxBatchBytes = 2, !.maxFiles = 3,
     !.slots = {s1}, !.retryLimit = 0, !.faultKinds = {"crash", "refused"}]

(* A broken archive beside a good file.                                    *)
Refused ==
  [Packed EXCEPT
     !.shape = f1 :> [Plain(b1, 1, 1, 1) EXCEPT !.kind = "BADZIP"] @@ f2 :> Plain(b1, 2, 1, 2),
     !.maxBatchBytes = 2, !.slots = {s1}, !.faultKinds = {"crash", "refused"}]

All    == {Arriving, Packed, Clashing, Shared, Twice, Refused}
Copies == {[Twice EXCEPT !.maxFaults = 0]}

=============================================================================
