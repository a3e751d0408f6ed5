------------------------------ MODULE MCExports -----------------------------
(***************************************************************************)
(* Small instances of exports.                                             *)
(***************************************************************************)
EXTENDS Exports, TLC

CONSTANTS customer, clerk, s1, s2

(* A customer and a member of the enterprise, whose rights come and go.    *)
Rights ==
  [accounts |-> {customer, clerk}, admins |-> {}, customers |-> {customer}, badSnapshots |-> {},
   maxSnapshots |-> 1, maxGrants |-> 1, maxEpoch |-> 2,
   slots |-> {s1}, retryLimit |-> 0, faultKinds |-> {}, maxFaults |-> 0]

(* An administrator's export, two handlers at a time, and every fault.     *)
Faulty ==
  [Rights EXCEPT !.accounts = {clerk}, !.admins = {clerk}, !.customers = {}, !.maxGrants = 0, !.maxEpoch = 0,
     !.slots = {s1, s2}, !.retryLimit = 1,
     !.faultKinds = {"crash", "refused", "late", "duplicate", "ambiguous"}, !.maxFaults = 2]

(* The faults after which the handlers still tidy up.                      *)
Tidied == [Faulty EXCEPT !.faultKinds = {"late", "duplicate", "ambiguous"}]

(* A report that fails a check for good.                                   *)
Unfit == [Faulty EXCEPT !.badSnapshots = {2}, !.maxSnapshots = 2, !.slots = {s1},
                        !.faultKinds = {"crash", "refused", "late"}]

All == {Rights, Faulty, Tidied, Unfit}

=============================================================================
