---------------------------- MODULE MCIdentity ------------------------------
(* Databases and workloads of Identity. *)
EXTENDS Identity

CONSTANTS p1, p2, p3, e1, e2, shop, none, r1, r2, r3, r4

AccountRow(phone, role) == [Account(phone, role) EXCEPT !.logins = 1]
SessionSeed(a) == [account |-> a, generation |-> 1, status |-> "LIVE", otp |-> 0, since |-> 0, sequence |-> 0]
MemberRow(e, phone, a) ==
  [enterprise |-> e, phone |-> phone, account |-> a, status |-> IF a = None THEN "PENDING" ELSE "ACTIVE"]
Known(e) == [x \in {e} |-> [creator |-> 1, code |-> TRUE]]

(* An administrator, and an accountant whose first login was lost. *)
SeedAdmin == [accounts |-> <<AccountRow(p1, "ADMIN"), Account(p2, "ACCOUNTANT")>>, members |-> <<>>,
  bootstrapped |-> TRUE, enterprises |-> <<>>, sessions |-> <<SessionSeed(1)>>]

(* An enterprise with one member and a pending one. *)
SeedTeam == [accounts |-> <<AccountRow(p1, "ACCOUNTANT")>>,
  members |-> <<MemberRow(e1, p1, 1), MemberRow(e1, p2, None)>>, bootstrapped |-> FALSE,
  enterprises |-> Known(e1), sessions |-> <<SessionSeed(1)>>]

(* Two members, and an enterprise without a credit code. *)
SeedPair == [accounts |-> <<AccountRow(p1, "ACCOUNTANT"), AccountRow(p2, "ADMIN")>>,
  members |-> <<MemberRow(e1, p1, 1), MemberRow(e1, p2, 2)>>, bootstrapped |-> TRUE,
  enterprises |-> [x \in {e1} |-> [creator |-> 1, code |-> FALSE]], sessions |-> <<SessionSeed(1), SessionSeed(2)>>]

(* An accountant logged in before there is an administrator. *)
SeedFirst == [SeedTeam EXCEPT !.members = <<MemberRow(e1, p1, 1)>>]

(* Logins while administrators change accounts. *)
Sessions ==
  [phones |-> {p1, p2}, enterprises |-> {e1}, shops |-> {shop}, adminPhone |-> none, requests |-> {},
   seed |-> SeedAdmin, workload |-> {"LOGIN", "DISABLE", "ENABLE", "REVOKE", "GRANT", "logout"},
   maxAttempts |-> 1, maxAccounts |-> 2, maxOtps |-> 2, maxSessions |-> 3, maxRows |-> 2, maxChanges |-> 2]

(* Phone changes of invited members. *)
PhoneChanges ==
  [Sessions EXCEPT !.adminPhone = p2, !.seed = SeedTeam,
     !.workload = {"REGISTER", "PHONE_CHANGE_OLD", "PHONE_CHANGE_NEW"},
     !.maxOtps = 3, !.maxSessions = 2, !.maxChanges = 1]

(* Invitations of customers whose phones move. *)
Customers ==
  [PhoneChanges EXCEPT !.adminPhone = none, !.seed = SeedFirst, !.maxRows = 1,
     !.workload = {"REGISTER", "PHONE_CHANGE_OLD", "PHONE_CHANGE_NEW", "invite", "InvitationDue"}]

(* Members added and removed. *)
Team ==
  [Sessions EXCEPT !.phones = {p1, p2, p3}, !.enterprises = {e1, e2}, !.seed = SeedPair,
     !.workload = {"LOGIN", "REGISTER", "enterprises", "add", "remove", "OtpDue", "SessionDue"},
     !.maxAccounts = 3, !.maxOtps = 1, !.maxRows = 4, !.maxChanges = 1]

(* Members added while phones change. *)
SeedMovers == [SeedPair EXCEPT !.members = <<MemberRow(e1, p1, 1)>>, !.enterprises = Known(e1)]
Movers ==
  [PhoneChanges EXCEPT !.phones = {p1, p2, p3}, !.adminPhone = none, !.seed = SeedMovers, !.maxRows = 2,
     !.workload = {"PHONE_CHANGE_OLD", "PHONE_CHANGE_NEW", "add"}]

(* Four requests for codes that share phones, addresses and devices in every way. *)
Flood == [Sessions EXCEPT !.workload = {}, !.requests = Requests, !.maxOtps = 0, !.maxChanges = 0]

All == {Sessions, PhoneChanges, Customers, Team, Movers, Flood}

Key(p, i, d) == [phone |-> p, ip |-> i, device |-> d]
KeysOfRequests == [r \in {r1, r2, r3, r4} |->
  CASE r = r1 -> Key(1, 1, 1) [] r = r2 -> Key(1, 2, 1) [] r = r3 -> Key(2, 1, 2) [] r = r4 -> Key(2, 2, 1)]
SmallLimits == [d \in Dimensions |-> IF d = "device" THEN 2 ELSE 1]

=============================================================================
