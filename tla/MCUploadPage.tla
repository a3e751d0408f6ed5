---------------------------- MODULE MCUploadPage ----------------------------
(* Instances of UploadPage.                                                *)
EXTENDS UploadPage, TLC

Symmetry == Permutations(Paths)

(* A viewer who waits for each answer, while answers are lost and the page *)
(* is reloaded.                                                            *)
Patient == [earlier |-> {"PROCESSING", "FAILED"}, impatient |-> FALSE, maxFaults |-> 2]

(* A viewer who does not wait.                                             *)
Hasty == [earlier |-> {"FAILED"}, impatient |-> TRUE, maxFaults |-> 0]

All == {Patient, Hasty}

=============================================================================
