------------------------------ MODULE Identity ------------------------------
(***************************************************************************)
(* Accounts, one-time codes, sessions, enterprise members and customer     *)
(* invitations (auth/service.ts, auth/postgres.ts, auth/admin.ts,          *)
(* enterprises/service.ts, memberships/service.ts).                        *)
(*                                                                         *)
(* Rows are numbered in the order they are created.  A transaction that    *)
(* reads a row nothing locks and writes later is two actions: what it read *)
(* and the locks it holds are kept in the variable of its kind until it    *)
(* commits.  The other transactions hold every row they read and are one   *)
(* action.                                                                 *)
(***************************************************************************)
EXTENDS Authorization, OtpLimits, Sequences, FiniteSetsExt

CONSTANT Scenarios          \* databases and workloads the service is considered in

VARIABLE scenario           \* the one at hand

Phones      == scenario.phones        \* phone numbers in use
Enterprises == scenario.enterprises   \* enterprises that exist or may be created
Shops       == scenario.shops         \* shops customers are invited to
AdminPhone  == scenario.adminPhone    \* registrationAdminPhoneE164, or a value outside Phones
Seed        == scenario.seed          \* what the database holds at the start
Workload    == scenario.workload      \* kinds of request the clients send
MaxAttempts == scenario.maxAttempts   \* max_attempts of a challenge
MaxAccounts == scenario.maxAccounts   \* bounds on what is created
MaxOtps     == scenario.maxOtps
MaxSessions == scenario.maxSessions
MaxRows     == scenario.maxRows
MaxChanges  == scenario.maxChanges

(* The rows of the tables.                                                 *)
Purposes == {"LOGIN", "REGISTER", "PHONE_CHANGE_OLD", "PHONE_CHANGE_NEW"}
Roles    == {"ACCOUNTANT", "ADMIN"}

AccountRows(phones) ==
  [phone : phones, status : {"ACTIVE", "DISABLED"}, role : Roles, generation : Nat, logins : Nat]
SessionRows(ids) ==
  [account : ids, generation : Nat, status : {"LIVE", "REVOKED", "EXPIRED"}, otp : Nat, since : Nat, sequence : Nat]
MemberRows(es, phones, ids) ==
  [enterprise : es, phone : phones, account : ids, status : {"PENDING", "ACTIVE", "REVOKED"}]

(* A member row is live while PENDING or ACTIVE; the unique indexes allow  *)
(* one live row per phone and one ACTIVE row per account of an enterprise. *)

Live(r) == r.status \in {"PENDING", "ACTIVE"}

Indexed(rows) ==
  \A i, j \in DOMAIN rows :
    i # j /\ Live(rows[i]) /\ Live(rows[j]) /\ rows[i].enterprise = rows[j].enterprise =>
      /\ rows[i].phone # rows[j].phone
      /\ rows[i].status = "ACTIVE" /\ rows[j].status = "ACTIVE" => rows[i].account # rows[j].account

ASSUME ScenariosAssumption ==
  \A s \in Scenarios :
    /\ s.maxAttempts \in Nat \ {0}
    /\ \A n \in {s.maxAccounts, s.maxOtps, s.maxSessions, s.maxRows, s.maxChanges} : n \in Nat
    /\ s.requests \subseteq Requests

(* At the start the codes are gone, live sessions have the generation of   *)
(* their account, all are counted in its logins (0 for those from before   *)
(* logins were), and every enterprise has a member, every member row one   *)
(* enterprise.                                                             *)
ASSUME SeedAssumption ==
  \A s \in Scenarios :
    LET rows == s.seed.accounts
        held == s.seed.sessions
        team == s.seed.members
    IN  /\ rows \in Seq(AccountRows(s.phones)) /\ Len(rows) <= s.maxAccounts
        /\ held \in Seq(SessionRows(1 .. Len(rows)))
        /\ team \in Seq(MemberRows(s.enterprises, s.phones, 0 .. s.maxAccounts))
        /\ s.seed.bootstrapped \in BOOLEAN /\ DOMAIN s.seed.enterprises \subseteq s.enterprises
        /\ \A i \in DOMAIN held :
             /\ held[i].otp = 0 /\ held[i].since = 0
             /\ held[i].status = "LIVE" => held[i].generation = rows[held[i].account].generation
             /\ held[i].sequence <= rows[held[i].account].logins
        /\ \A i, j \in DOMAIN held : i # j /\ held[i].account = held[j].account =>
             held[i].sequence # held[j].sequence \/ held[i].sequence = 0
        /\ Indexed(team) /\ \A i \in DOMAIN team : team[i].enterprise \in DOMAIN s.seed.enterprises
        /\ \A e \in DOMAIN s.seed.enterprises :
             \E i \in DOMAIN team : team[i].enterprise = e /\ team[i].status = "ACTIVE"

VARIABLES accounts,         \* account and account_role
          otps,             \* otp_challenge
          sessions,         \* auth_session
          logins,           \* logins whose code is consumed and whose session is not written
          adminTxs,         \* setStatus and setAdministrator under way
          bootstrapped,     \* identity_bootstrap.completed_at
          enterprises,      \* enterprise: who created it, whether its credit code is known
          members,          \* enterprise_member
          adds, removals,   \* addMember and removeMember between read and commit
          invitations,      \* shop_invitation
          invites,          \* invite between read and commit
          grants,           \* shop_membership that are ACTIVE
          changes           \* per account, how often an event ended its sessions (not in the code)

accountVars == <<accounts, otps, sessions, logins, adminTxs, bootstrapped, changes>>
enterpriseVars == <<enterprises, members, adds, removals>>
customerVars == <<invitations, invites, grants>>
identityVars == <<accountVars, enterpriseVars, customerVars>>
vars == <<scenario, identityVars, limitVars>>

None == 0

Account(phone, role) ==
  [phone |-> phone, status |-> "ACTIVE", role |-> role, generation |-> 1, logins |-> 0]

AccountOf(phone) ==
  LET A == {a \in DOMAIN accounts : accounts[a].phone = phone}
  IN  IF A = {} THEN None ELSE CHOOSE a \in A : TRUE

-----------------------------------------------------------------------------
(* Enterprise members.                                                     *)

IsMember(rows, e, a) ==
  \E i \in DOMAIN rows : rows[i].enterprise = e /\ rows[i].status = "ACTIVE" /\ rows[i].account = a

(* A pending row of an enterprise the account already belongs to is        *)
(* merged: revoked in favour of the active one.                            *)
Merged(rows, phone, a) ==
  [i \in DOMAIN rows |->
     IF rows[i].status = "PENDING" /\ rows[i].phone = phone /\ IsMember(rows, rows[i].enterprise, a)
     THEN [rows[i] EXCEPT !.status = "REVOKED"] ELSE rows[i]]

Joined(rows, phone, a) ==
  [i \in DOMAIN rows |->
     IF rows[i].status = "PENDING" /\ rows[i].phone = phone
     THEN [rows[i] EXCEPT !.status = "ACTIVE", !.account = a] ELSE rows[i]]

Outstanding(i, phone) ==
  invitations[i].phone = phone /\ invitations[i].status = "PENDING" /\ ~invitations[i].due

(* activatePendingRelationships over the member rows it is given.          *)
ActivatePendingRelationships(rows, phone, a) ==
  /\ members' = Joined(Merged(rows, phone, a), phone, a)
  /\ grants' = grants \cup {<<invitations[i].shop, a>> : i \in {k \in DOMAIN invitations : Outstanding(k, phone)}}
  /\ invitations' = [i \in DOMAIN invitations |->
       IF Outstanding(i, phone) THEN [invitations[i] EXCEPT !.status = "ACTIVE"] ELSE invitations[i]]

-----------------------------------------------------------------------------
(* Row locks the open transactions hold.                                   *)

AccountLocked(a) == \E t \in adminTxs : t.prepared /\ t.target = a
EnterpriseLocked(e) == \E t \in adds : t.enterprise = e
RowLocked(i) == (\E t \in adds : t.row = i) \/ (\E t \in removals : t.row = i)

MayActivate(phone) == \A i \in DOMAIN members :
  members[i].phone = phone /\ members[i].status = "PENDING" => ~RowLocked(i)

(* authenticate.                                                           *)
Valid(s) ==
  LET a == accounts[sessions[s].account]
  IN  /\ sessions[s].status = "LIVE" /\ a.status = "ACTIVE"
      /\ a.generation = sessions[s].generation

Actor(s) ==
  LET a == sessions[s].account
  IN  [account |-> a, active |-> TRUE, role |-> accounts[a].role,
       enterprises |-> {e \in Enterprises : IsMember(members, e, a)}]

Actors == {Actor(s) : s \in {s \in DOMAIN sessions : Valid(s)}}

-----------------------------------------------------------------------------
(* One-time codes.  How often they may be asked for is in OtpLimits.       *)

RequestOtp(phone, purpose) ==
  /\ Len(otps) < MaxOtps
  /\ otps' = Append(otps, [phone |-> phone, purpose |-> purpose, failed |-> 0, consumed |-> FALSE,
                           due |-> FALSE, used |-> FALSE])
  /\ UNCHANGED <<accounts, sessions, logins, adminTxs, bootstrapped, changes, enterpriseVars, customerVars>>

Usable(c, purpose) ==
  /\ otps[c].purpose = purpose
  /\ ~otps[c].consumed /\ ~otps[c].due /\ otps[c].failed < MaxAttempts

WrongCode(c) ==
  /\ Usable(c, otps[c].purpose)
  /\ otps' = [otps EXCEPT ![c].failed = @ + 1]
  /\ UNCHANGED <<accounts, sessions, logins, adminTxs, bootstrapped, changes, enterpriseVars, customerVars>>

Consumed(c) == [otps EXCEPT ![c].consumed = TRUE]

VerifyChallenge(c) ==
  /\ \E purpose \in {"PHONE_CHANGE_OLD", "PHONE_CHANGE_NEW"} : Usable(c, purpose)
  /\ otps' = Consumed(c)
  /\ UNCHANGED <<accounts, sessions, logins, adminTxs, bootstrapped, changes, enterpriseVars, customerVars>>

-----------------------------------------------------------------------------
(* Login and registration.                                                 *)

SessionRow(a, generation, c, since, sequence) ==
  [account |-> a, generation |-> generation, status |-> "LIVE", otp |-> c, since |-> since, sequence |-> sequence]

NewAccount(phone) ==
  /\ Len(accounts) < MaxAccounts
  /\ MayActivate(phone)
  /\ ActivatePendingRelationships(members, phone, Len(accounts) + 1)
  /\ changes' = Append(changes, 0)
  /\ UNCHANGED <<adminTxs, bootstrapped, enterprises, adds, removals, invites>>

(* The generation and the sequence are what the row says; `since` keeps    *)
(* how many session-ending events the code was checked after.              *)
VerifyLogin(c) ==
  /\ Usable(c, "LOGIN")
  /\ AccountOf(otps[c].phone) # None
  /\ otps' = Consumed(c)
  /\ LET a == AccountOf(otps[c].phone)
     IN  logins' = IF accounts[a].status # "ACTIVE" THEN logins
                   ELSE logins \cup {[account |-> a, generation |-> accounts[a].generation,
                                      read |-> accounts[a].logins, otp |-> c, since |-> changes[a]]}
  /\ UNCHANGED <<accounts, sessions, adminTxs, bootstrapped, changes, enterpriseVars, customerVars>>

(* activateInvitedAccount: a phone some enterprise waits for.              *)
LoginInvited(c) ==
  /\ Usable(c, "LOGIN")
  /\ AccountOf(otps[c].phone) = None
  /\ \E i \in DOMAIN members : members[i].phone = otps[c].phone /\ members[i].status = "PENDING"
  /\ otps' = Consumed(c)
  /\ accounts' = Append(accounts, Account(otps[c].phone, "ACCOUNTANT"))
  /\ logins' = logins \cup {[account |-> Len(accounts) + 1, generation |-> 1, read |-> 0, otp |-> c, since |-> 0]}
  /\ NewAccount(otps[c].phone)
  /\ UNCHANGED sessions

(* ACCOUNT_NOT_REGISTERED: the code is spent all the same.                 *)
LoginUnknown(c) ==
  /\ Usable(c, "LOGIN")
  /\ AccountOf(otps[c].phone) = None
  /\ ~\E i \in DOMAIN members : members[i].phone = otps[c].phone /\ members[i].status = "PENDING"
  /\ otps' = Consumed(c)
  /\ UNCHANGED <<accounts, sessions, logins, adminTxs, bootstrapped, changes, enterpriseVars, customerVars>>

(* Mutated form: the sequence is the one read with the account.            *)
IssueSessionRead(l) ==
  /\ Len(sessions) < MaxSessions /\ ~AccountLocked(l.account)
  /\ accounts' = [accounts EXCEPT ![l.account].logins = @ + 1]
  /\ sessions' = Append(sessions, SessionRow(l.account, l.generation, l.otp, l.since, l.read + 1))
  /\ logins' = logins \ {l}
  /\ UNCHANGED <<otps, adminTxs, bootstrapped, changes, enterpriseVars, customerVars>>

IssueSession(l) ==
  /\ Len(sessions) < MaxSessions /\ ~AccountLocked(l.account)
  /\ accounts' = [accounts EXCEPT ![l.account].logins = @ + 1]
  /\ sessions' = Append(sessions, SessionRow(l.account, l.generation, l.otp, l.since, accounts[l.account].logins + 1))
  /\ logins' = logins \ {l}
  /\ UNCHANGED <<otps, adminTxs, bootstrapped, changes, enterpriseVars, customerVars>>

(* The second transaction fails: AUTH_AUDIT_UNAVAILABLE.                   *)
LoginLost(l) ==
  /\ logins' = logins \ {l}
  /\ UNCHANGED <<accounts, otps, sessions, adminTxs, bootstrapped, changes, enterpriseVars, customerVars>>

RoleOf(phone) == IF phone = AdminPhone THEN "ADMIN" ELSE "ACCOUNTANT"

(* registerLoginAccount and issueSession in one transaction.               *)
Register(c) ==
  LET phone == otps[c].phone
      n     == Len(accounts) + 1
  IN  /\ Usable(c, "REGISTER")
      /\ AccountOf(phone) = None /\ Len(sessions) < MaxSessions
      /\ otps' = Consumed(c)
      /\ accounts' = Append(accounts, [Account(phone, RoleOf(phone)) EXCEPT !.logins = 1])
      /\ sessions' = Append(sessions, SessionRow(n, 1, c, 0, 1))
      /\ NewAccount(phone)
      /\ UNCHANGED logins

RegisterAgain(c) ==
  /\ Usable(c, "REGISTER")
  /\ AccountOf(otps[c].phone) # None
  /\ otps' = Consumed(c)
  /\ UNCHANGED <<accounts, sessions, logins, adminTxs, bootstrapped, changes, enterpriseVars, customerVars>>

Logout(s) ==
  /\ sessions[s].status # "REVOKED"
  /\ sessions' = [sessions EXCEPT ![s].status = "REVOKED"]
  /\ UNCHANGED <<accounts, otps, logins, adminTxs, bootstrapped, changes, enterpriseVars, customerVars>>

-----------------------------------------------------------------------------
(* Events that end the sessions of an account.                             *)

RevokeSessions(a) == sessions' = [s \in DOMAIN sessions |->
  IF sessions[s].account = a THEN [sessions[s] EXCEPT !.status = "REVOKED"] ELSE sessions[s]]

(* Bounds the changes of all accounts.                                     *)
MayChange == MapThenSumSet(LAMBDA a : changes[a], DOMAIN changes) + Cardinality(adminTxs) < MaxChanges

(* Mutated form: pending rows are not merged before the phone moves.       *)
RebindUnmerged(a, phone) == [i \in DOMAIN members |->
  IF members[i].account = a /\ members[i].status = "ACTIVE" THEN [members[i] EXCEPT !.phone = phone] ELSE members[i]]

(* The member rows of an account whose phone changes.                      *)
Rebind(a, phone) ==
  LET rows == Merged(members, phone, a)
  IN  [i \in DOMAIN rows |->
         IF rows[i].account = a /\ rows[i].status = "ACTIVE" THEN [rows[i] EXCEPT !.phone = phone] ELSE rows[i]]

(* completePhoneChange.  The unique index on account.phone_e164 and those  *)
(* on phone_change_request refuse the rest; both challenges are spent.     *)
ChangePhone(s, old, new) ==
  LET a     == sessions[s].account
      phone == otps[new].phone
  IN  /\ Valid(s) /\ ~AccountLocked(a) /\ MayChange
      /\ otps[old].purpose = "PHONE_CHANGE_OLD" /\ otps[old].phone = accounts[a].phone
      /\ otps[new].purpose = "PHONE_CHANGE_NEW"
      /\ \A c \in {old, new} : otps[c].consumed /\ ~otps[c].due /\ ~otps[c].used
      /\ AccountOf(phone) = None /\ Indexed(Rebind(a, phone))
      /\ MayActivate(phone)
      /\ \A i \in DOMAIN members : members[i].account = a /\ members[i].status = "ACTIVE" => ~RowLocked(i)
      /\ accounts' = [accounts EXCEPT ![a].phone = phone, ![a].generation = @ + 1]
      /\ ActivatePendingRelationships(Rebind(a, phone), phone, a)
      /\ RevokeSessions(a)
      /\ otps' = [otps EXCEPT ![old].used = TRUE, ![new].used = TRUE]
      /\ changes' = [changes EXCEPT ![a] = @ + 1]
      /\ UNCHANGED <<logins, adminTxs, bootstrapped, enterprises, adds, removals, invites>>

AccountChanges == {"DISABLE", "ENABLE", "GRANT", "REVOKE"}

Changed(account, change) ==
  CASE change = "DISABLE" -> [account EXCEPT !.status = "DISABLED"]
    [] change = "ENABLE"  -> [account EXCEPT !.status = "ACTIVE"]
    [] change = "GRANT"   -> [account EXCEPT !.role = "ADMIN"]
    [] change = "REVOKE"  -> [account EXCEPT !.role = "ACCOUNTANT"]

(* setStatus or setAdministrator: the actor is an administrator when the   *)
(* request is authenticated.                                               *)
RequestAccountChange(s, target, change) ==
  /\ Valid(s) /\ AuthorizePlatform(Actor(s), "ADMIN_ACCOUNTANTS")
  /\ MayChange
  /\ adminTxs' = adminTxs \cup {[actor |-> sessions[s].account, target |-> target, change |-> change, prepared |-> FALSE]}
  /\ UNCHANGED <<accounts, otps, sessions, logins, bootstrapped, changes, enterpriseVars, customerVars>>

ActiveAdmins(rows) == {a \in DOMAIN rows : rows[a].role = "ADMIN" /\ rows[a].status = "ACTIVE"}

(* The row is locked and written, and the deferred trigger                 *)
(* protect_last_active_admin runs: it sees what is committed and what its  *)
(* own transaction wrote.                                                  *)
PrepareAccountChange(t) ==
  LET seen == [accounts EXCEPT ![t.target] = Changed(@, t.change)]
  IN  /\ ~t.prepared /\ ~AccountLocked(t.target)
      /\ adminTxs' = IF bootstrapped /\ ActiveAdmins(seen) = {}
                     THEN adminTxs \ {t}
                     ELSE (adminTxs \ {t}) \cup {[t EXCEPT !.prepared = TRUE]}
      /\ UNCHANGED <<accounts, otps, sessions, logins, bootstrapped, changes, enterpriseVars, customerVars>>

(* Mutated form: the generation stays, only the sessions are revoked.      *)
CommitAccountChangeSameGeneration(t) ==
  /\ t.prepared
  /\ accounts' = [accounts EXCEPT ![t.target] = Changed(@, t.change)]
  /\ RevokeSessions(t.target)
  /\ changes' = [changes EXCEPT ![t.target] = @ + 1]
  /\ adminTxs' = adminTxs \ {t}
  /\ UNCHANGED <<otps, logins, bootstrapped, enterpriseVars, customerVars>>

CommitAccountChange(t) ==
  /\ t.prepared
  /\ LET row == Changed(accounts[t.target], t.change)
     IN  accounts' = [accounts EXCEPT ![t.target] = [row EXCEPT !.generation = @ + 1]]
  /\ RevokeSessions(t.target)
  /\ changes' = [changes EXCEPT ![t.target] = @ + 1]
  /\ adminTxs' = adminTxs \ {t}
  /\ UNCHANGED <<otps, logins, bootstrapped, enterpriseVars, customerVars>>

(* The one-time command that makes the first administrator.  A phone that  *)
(* has an account keeps it.                                                *)
BootstrapAdministrator(phone) ==
  /\ ~bootstrapped
  /\ bootstrapped' = TRUE
  /\ LET a == AccountOf(phone)
     IN  IF a = None
         THEN /\ Len(accounts) < MaxAccounts
              /\ accounts' = Append(accounts, Account(phone, "ADMIN"))
              /\ changes' = Append(changes, 0)
         ELSE /\ ~AccountLocked(a)
              /\ accounts' = [accounts EXCEPT ![a].role = "ADMIN"]
              /\ UNCHANGED changes
  /\ UNCHANGED <<otps, sessions, logins, adminTxs, enterpriseVars, customerVars>>

-----------------------------------------------------------------------------
(* Enterprises.                                                            *)

CreateEnterprise(actor, e) ==
  /\ e \notin DOMAIN enterprises
  /\ actor.role = "ACCOUNTANT" /\ Len(members) < MaxRows
  /\ enterprises' = [x \in DOMAIN enterprises \cup {e} |->
                       IF x = e THEN [creator |-> actor.account, code |-> TRUE] ELSE enterprises[x]]
  /\ members' = Append(members, [enterprise |-> e, phone |-> accounts[actor.account].phone,
                                 account |-> actor.account, status |-> "ACTIVE"])
  /\ UNCHANGED <<accountVars, adds, removals, customerVars>>

RequireAccess(actor, e) == IsStaff(actor, e) /\ e \in DOMAIN enterprises

(* Only an administrator supplies the credit code an old enterprise lacks; *)
(* names are left out.                                                     *)
UpdateProfile(actor, e) ==
  /\ RequireAccess(actor, e) /\ ~EnterpriseLocked(e)
  /\ actor.role = "ADMIN"
  /\ enterprises' = [enterprises EXCEPT ![e].code = TRUE]
  /\ UNCHANGED <<accountVars, members, adds, removals, customerVars>>

RowsOf(e, phone) == {i \in DOMAIN members : members[i].enterprise = e /\ members[i].phone = phone}
Latest(e, phone) == IF RowsOf(e, phone) = {} THEN None ELSE Max(RowsOf(e, phone))

(* Locks the enterprise and the latest row of the phone, and reads the     *)
(* account, which nothing locks.                                           *)
AddMemberReads(actor, e, phone) ==
  LET row == Latest(e, phone)
  IN  /\ RequireAccess(actor, e) /\ enterprises[e].code
      /\ ~EnterpriseLocked(e) /\ (row # None => ~RowLocked(row))
      /\ row # None => members[row].status = "REVOKED"
      /\ Len(members) < MaxRows
      /\ adds' = adds \cup {[enterprise |-> e, phone |-> phone, row |-> row, account |-> AccountOf(phone)]}
      /\ UNCHANGED <<accountVars, enterprises, members, removals, customerVars>>

Added(t) ==
  LET status == IF t.account = None THEN "PENDING" ELSE "ACTIVE"
  IN  IF t.row = None
      THEN Append(members, [enterprise |-> t.enterprise, phone |-> t.phone, account |-> t.account, status |-> status])
      ELSE [members EXCEPT ![t.row].status = status, ![t.row].account = t.account]

(* An insert that breaks a unique index rolls the transaction back.        *)
AddMemberCommits(t) ==
  /\ members' = IF Indexed(Added(t)) THEN Added(t) ELSE members
  /\ adds' = adds \ {t}
  /\ UNCHANGED <<accountVars, enterprises, removals, customerVars>>

ActiveMembers(rows, e) == {i \in DOMAIN rows : rows[i].enterprise = e /\ rows[i].status = "ACTIVE"}

(* Mutated form: without the advisory lock of the enterprise.              *)
RemoveMemberCountsUnlocked(actor, i) ==
  /\ RequireAccess(actor, members[i].enterprise) /\ ~RowLocked(i)
  /\ Live(members[i])
  /\ members[i].status = "ACTIVE" => Cardinality(ActiveMembers(members, members[i].enterprise)) > 1
  /\ removals' = removals \cup {[row |-> i, active |-> members[i].status = "ACTIVE"]}
  /\ UNCHANGED <<accountVars, enterprises, members, adds, customerVars>>

(* Locks the row and, for an active member, the members of the enterprise, *)
(* and counts.                                                             *)
RemoveMemberCounts(actor, i) ==
  /\ RequireAccess(actor, members[i].enterprise) /\ ~RowLocked(i)
  /\ Live(members[i])
  /\ members[i].status = "ACTIVE" =>
       /\ ~\E t \in removals : t.active /\ members[t.row].enterprise = members[i].enterprise
       /\ Cardinality(ActiveMembers(members, members[i].enterprise)) > 1
  /\ removals' = removals \cup {[row |-> i, active |-> members[i].status = "ACTIVE"]}
  /\ UNCHANGED <<accountVars, enterprises, members, adds, customerVars>>

RemoveMemberCommits(t) ==
  /\ members' = [members EXCEPT ![t.row].status = "REVOKED"]
  /\ removals' = removals \ {t}
  /\ UNCHANGED <<accountVars, enterprises, adds, customerVars>>

-----------------------------------------------------------------------------
(* Customer invitations.  The shop row is locked, so one call per shop is  *)
(* under way.  Whether the actor may manage the shop is in Exports.        *)

InvitationsExpired(shop, phone) == [i \in DOMAIN invitations |->
  IF invitations[i].shop = shop /\ invitations[i].phone = phone /\ invitations[i].status = "PENDING"
       /\ invitations[i].due
  THEN [invitations[i] EXCEPT !.status = "EXPIRED"] ELSE invitations[i]]

InviteReads(shop, phone) ==
  LET a == AccountOf(phone)
  IN  /\ ~\E t \in invites : t.shop = shop
      /\ Len(invitations) + Cardinality(invites) < MaxRows
      /\ a # None => ~AccountLocked(a) /\ accounts[a].status = "ACTIVE"
      /\ invites' = invites \cup {[shop |-> shop, phone |-> phone, account |-> a]}
      /\ UNCHANGED <<accountVars, enterpriseVars, invitations, grants>>

(* activateForRegisteredCustomer, with the account the call found.         *)
Activation(account) == IF account = None THEN "PENDING" ELSE "ACTIVE"
Admitted(shop, account) == IF account = None THEN grants ELSE grants \cup {<<shop, account>>}

InviteCommits(t) ==
  /\ invitations' = Append(InvitationsExpired(t.shop, t.phone),
       [shop |-> t.shop, phone |-> t.phone, due |-> FALSE, status |-> Activation(t.account)])
  /\ grants' = Admitted(t.shop, t.account)
  /\ invites' = invites \ {t}
  /\ UNCHANGED <<accountVars, enterpriseVars>>

(* The call repeated with its idempotency key activates what still waits;  *)
(* for an invitation that is over it fails and changes nothing.            *)
InviteAgain(i) ==
  LET a == AccountOf(invitations[i].phone)
  IN  /\ Outstanding(i, invitations[i].phone)
      /\ ~\E t \in invites : t.shop = invitations[i].shop
      /\ a # None /\ ~AccountLocked(a) /\ accounts[a].status = "ACTIVE"
      /\ invitations' = [invitations EXCEPT ![i].status = Activation(a)]
      /\ grants' = Admitted(invitations[i].shop, a)
      /\ UNCHANGED <<accountVars, enterpriseVars, invites>>

(* accept, with the token of the invitation.                               *)
AcceptInvitation(actor, i) ==
  /\ invitations[i].status = "PENDING"
  /\ \/ /\ invitations[i].due
        /\ invitations' = [invitations EXCEPT ![i].status = "EXPIRED"]
        /\ UNCHANGED grants
     \/ /\ ~invitations[i].due /\ invitations[i].phone = accounts[actor.account].phone
        /\ invitations' = [invitations EXCEPT ![i].status = "ACTIVE"]
        /\ grants' = grants \cup {<<invitations[i].shop, actor.account>>}
  /\ UNCHANGED <<accountVars, enterpriseVars, invites>>

-----------------------------------------------------------------------------
(* The clock.                                                              *)

OtpDue(c) ==
  /\ ~otps[c].due
  /\ otps' = [otps EXCEPT ![c].due = TRUE]
  /\ UNCHANGED <<accounts, sessions, logins, adminTxs, bootstrapped, changes, enterpriseVars, customerVars>>

SessionDue(s) ==
  /\ sessions[s].status = "LIVE"
  /\ sessions' = [sessions EXCEPT ![s].status = "EXPIRED"]
  /\ UNCHANGED <<accounts, otps, logins, adminTxs, bootstrapped, changes, enterpriseVars, customerVars>>

InvitationDue(i) ==
  /\ ~invitations[i].due
  /\ invitations' = [invitations EXCEPT ![i].due = TRUE]
  /\ UNCHANGED <<accountVars, enterpriseVars, invites, grants>>

-----------------------------------------------------------------------------
Init ==
  /\ scenario \in Scenarios /\ LimitsInit(scenario.requests)
  /\ accounts = Seed.accounts /\ members = Seed.members /\ bootstrapped = Seed.bootstrapped
  /\ enterprises = Seed.enterprises /\ sessions = Seed.sessions
  /\ changes = [a \in DOMAIN accounts |-> 0]
  /\ otps = <<>> /\ invitations = <<>>
  /\ logins = {} /\ adminTxs = {} /\ adds = {} /\ removals = {} /\ invites = {} /\ grants = {}

Codes == \E phone \in Phones, purpose \in Purposes \cap Workload : RequestOtp(phone, purpose)

Verifications == \E c \in DOMAIN otps :
  \/ WrongCode(c) \/ VerifyChallenge(c)
  \/ VerifyLogin(c) \/ LoginInvited(c) \/ LoginUnknown(c)
  \/ Register(c) \/ RegisterAgain(c)

SessionSteps ==
  \/ \E l \in logins : IssueSession(l) \/ LoginLost(l)
  \/ \E s \in DOMAIN sessions : "logout" \in Workload /\ Logout(s)
  \/ \E s \in DOMAIN sessions, old, new \in DOMAIN otps : ChangePhone(s, old, new)

AccountAdministration ==
  \/ \E s \in DOMAIN sessions, a \in DOMAIN accounts, change \in AccountChanges \cap Workload :
       RequestAccountChange(s, a, change)
  \/ \E t \in adminTxs : PrepareAccountChange(t) \/ CommitAccountChange(t)
  \/ \E phone \in Phones : BootstrapAdministrator(phone)

EnterpriseSteps ==
  \/ "enterprises" \in Workload /\ \E actor \in Actors, e \in Enterprises :
       CreateEnterprise(actor, e) \/ UpdateProfile(actor, e)
  \/ "add" \in Workload /\ \E actor \in Actors, e \in Enterprises, phone \in Phones : AddMemberReads(actor, e, phone)
  \/ \E t \in adds : AddMemberCommits(t)
  \/ "remove" \in Workload /\ \E actor \in Actors, i \in DOMAIN members : RemoveMemberCounts(actor, i)
  \/ \E t \in removals : RemoveMemberCommits(t)

CustomerSteps ==
  \/ "invite" \in Workload /\ \E shop \in Shops, phone \in Phones : InviteReads(shop, phone)
  \/ \E t \in invites : InviteCommits(t)
  \/ \E i \in DOMAIN invitations : InviteAgain(i)
  \/ \E actor \in Actors, i \in DOMAIN invitations : AcceptInvitation(actor, i)

Clock ==
  \/ "OtpDue" \in Workload /\ \E c \in DOMAIN otps : OtpDue(c)
  \/ "SessionDue" \in Workload /\ \E s \in DOMAIN sessions : SessionDue(s)
  \/ "InvitationDue" \in Workload /\ \E i \in DOMAIN invitations : InvitationDue(i)

IdentityStep == Codes \/ Verifications \/ SessionSteps \/ AccountAdministration
                  \/ EnterpriseSteps \/ CustomerSteps \/ Clock

Next ==
  /\ \/ IdentityStep /\ UNCHANGED limitVars
     \/ LimitStep /\ UNCHANGED identityVars
  /\ UNCHANGED scenario

Spec == Init /\ [][Next]_vars

-----------------------------------------------------------------------------
AccountIds == 0 .. MaxAccounts

(* Rows have the shape of their tables.                                    *)
TypeOK ==
  /\ scenario \in Scenarios /\ LimitsTypeOK
  /\ accounts \in Seq(AccountRows(Phones))
  /\ otps \in Seq([phone : Phones, purpose : Purposes, failed : 0 .. MaxAttempts, consumed : BOOLEAN,
                   due : BOOLEAN, used : BOOLEAN])
  /\ sessions \in Seq(SessionRows(AccountIds))
  /\ \A l \in logins : l.account \in DOMAIN accounts
  /\ \A t \in adminTxs : t.target \in DOMAIN accounts /\ t.change \in AccountChanges /\ t.prepared \in BOOLEAN
  /\ bootstrapped \in BOOLEAN /\ DOMAIN enterprises \subseteq Enterprises
  /\ members \in Seq(MemberRows(Enterprises, Phones, AccountIds))
  /\ invitations \in Seq([shop : Shops, phone : Phones, due : BOOLEAN, status : {"PENDING", "ACTIVE", "EXPIRED"}])
  /\ grants \subseteq Shops \X AccountIds
  /\ DOMAIN changes = DOMAIN accounts

(* A session that authenticates was verified after the last event that     *)
(* ends the sessions of its account: an account disabled, promoted,        *)
(* demoted or given another phone while a login is between its code check  *)
(* and its session row lets nobody in with the old credentials.            *)
SessionsCurrent == \A s \in DOMAIN sessions : Valid(s) => sessions[s].since = changes[sessions[s].account]

(* Of the sessions of an account one at most is its first login, however   *)
(* the two transactions of concurrent logins interleave.  Sessions from    *)
(* before logins were counted all have place 0.                            *)
FirstLoginOnce == \A s, r \in DOMAIN sessions :
  s # r /\ sessions[s].account = sessions[r].account =>
    sessions[s].sequence # sessions[r].sequence \/ sessions[s].sequence = 0

(* A code opens one session at most, counting the logins under way, and    *)
(* none once it has been got wrong MaxAttempts times.                      *)
CodesSpentOnce ==
  LET spent(c) == {s \in DOMAIN sessions : sessions[s].otp = c}
      spending(c) == {l \in logins : l.otp = c}
  IN  \A c \in DOMAIN otps :
        /\ Cardinality(spent(c)) + Cardinality(spending(c)) <= 1
        /\ otps[c].failed >= MaxAttempts => spent(c) = {} /\ spending(c) = {}

(* Of concurrent and repeated logins each has a code, and each its place   *)
(* in the sequence, of its own. The first part is the type invariant.      *)
LoginsOnce == TypeOK /\ FirstLoginOnce /\ CodesSpentOnce

(* An enterprise that exists has an active member: the check of removeMember *)
(* holds when two removals, or a removal and a phone change, overlap.      *)
MembersRemain == \A e \in DOMAIN enterprises : ActiveMembers(members, e) # {}

(* An active row under the phone that a member of its enterprise is to     *)
(* get, of somebody else: addMember wrote it for an account it had read    *)
(* before that account moved on to another phone (service.ts:228).         *)
LeftBehind(a, phone) == \E i \in DOMAIN members :
  /\ members[i].phone = phone /\ members[i].status = "ACTIVE" /\ members[i].account # a
  /\ IsMember(members, members[i].enterprise, a)

(* Nothing else makes a phone change fail on the member rows: whatever     *)
(* pending rows wait for the new phone, each statement of the change keeps *)
(* the unique indexes.                                                     *)
PhoneChangeFits == \A a \in DOMAIN accounts, phone \in Phones :
  AccountOf(phone) = None /\ ~LeftBehind(a, phone) =>
    Indexed(Rebind(a, phone)) /\ Indexed(Joined(Merged(Rebind(a, phone), phone, a), phone, a))

(* An invitation lets in one customer: the phone it names may be registered, *)
(* moved to another account and registered anew while it waits or after.   *)
InvitationAdmitsOne == \A shop \in Shops :
  Cardinality({g \in grants : g[1] = shop}) <=
    Cardinality({i \in DOMAIN invitations : invitations[i].shop = shop /\ invitations[i].status = "ACTIVE"})

(* Phones move between accounts, and what waits for a phone, members and   *)
(* invitations, still lets in one account.                                 *)
PhonesMove == PhoneChangeFits /\ InvitationAdmitsOne

=============================================================================
