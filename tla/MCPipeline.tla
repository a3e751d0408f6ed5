----------------------------- MODULE MCPipeline -----------------------------
(***************************************************************************)
(* Small instances of the pipeline: the callback slots of equal workers,   *)
(* and confirmation keys, are interchangeable.                             *)
(***************************************************************************)
EXTENDS TerminalReconciler, TLC

CONSTANTS b1, b2, k1, s1, s2

Interchangeable == Permutations(Slots) \cup Permutations(Keys)

AllFaults == {"crash", "refused", "late", "duplicate"}

(* One batch confirmed automatically, two handlers at a time.              *)
Handover ==
  [batches |-> {b1}, keys |-> {}, keysReused |-> FALSE, maxRates |-> 0,
   slots |-> {s1, s2}, retryLimit |-> 1, faultKinds |-> AllFaults, maxFaults |-> 1]

(* New rates arrive: a batch has a second run.                             *)
NewRates == [Handover EXCEPT !.maxRates = 1, !.slots = {s1}]

(* Two batches of a shop overtake each other.                              *)
TwoBatches == [Handover EXCEPT !.batches = {b1, b2}, !.slots = {s1},
                               !.retryLimit = 0, !.maxFaults = 0]

(* The user confirms the batch again, and a worker dies.                   *)
Reconfirm == [Handover EXCEPT !.keys = {k1}, !.slots = {s1}, !.faultKinds = {"crash"}]

(* Workers die as often as a job has attempts.                             *)
Crashes == [Reconfirm EXCEPT !.keys = {}, !.maxFaults = 2]

(* Workers die until jobs run out of attempts.                             *)
ManyCrashes == [Crashes EXCEPT !.maxFaults = 4]

Races    == {Handover, Reconfirm, NewRates, TwoBatches, Crashes}
Attrition == {ManyCrashes}

=============================================================================
