------------------------------ MODULE MCShops -------------------------------
(* Instances of Shops.  The terms start on February 29, so that the second *)
(* anniversary is not the anniversary of the first.                        *)
EXTENDS Shops

CONSTANTS alice, bob

LeapStart == {<<2024, 2, 29>>}

(* One member and an administrator over several terms.                     *)
Terms ==
  [accountants |-> {alice}, closes |-> {<<2025, 2, 28>>, <<2027, 6, 1>>, <<2028, 2, 29>>},
   calendar |-> << <<2025, 1, 1>>, <<2025, 2, 28>> >>, funds |-> 4,
   maxCreates |-> 1, maxCharges |-> 3, maxBulks |-> 1, maxGranted |-> 1]

(* Members who create shops at the same time with money for one.           *)
Creates ==
  [Terms EXCEPT !.accountants = {alice, bob}, !.closes = {<<2025, 2, 28>>}, !.calendar = << <<2025, 1, 1>> >>,
     !.funds = 1, !.maxCreates = 3, !.maxCharges = 2, !.maxBulks = 0, !.maxGranted = 0]

(* Members with money for more than one charge, who create or renew with   *)
(* the same key.                                                           *)
KeyedCreates == [Creates EXCEPT !.funds = 3, !.maxCreates = 2]
KeyedRenewals ==
  [KeyedCreates EXCEPT !.closes = {<<2025, 2, 28>>, <<2026, 2, 28>>, <<2027, 2, 28>>},
     !.maxCreates = 1, !.maxCharges = 3]

All == {Terms, Creates, KeyedCreates, KeyedRenewals}

=============================================================================
