--------------------------- MODULE IdentityProofs ---------------------------
(***************************************************************************)
(* That sessions end with the credentials they came from (SessionsCurrent), *)
(* that codes and places in the sequence of logins serve once (LoginsOnce), *)
(* that phone changes keep the unique indexes of member rows and an         *)
(* invitation lets in one customer (PhonesMove), that an enterprise keeps a *)
(* member (MembersRemain), and that requests for codes stay within their    *)
(* limits and never wait in a circle (LimitsSound), for every number of     *)
(* accounts, rows, transactions and requests.                               *)
(***************************************************************************)
EXTENDS Identity, FiniteSetTheorems, SequenceTheorems, WellFoundedInduction, TLAPS

-----------------------------------------------------------------------------
(* The inductive invariants.  Accounts, codes, sessions and logins.         *)

OtpRows == [phone : Phones, purpose : Purposes, failed : 0 .. MaxAttempts, consumed : BOOLEAN,
            due : BOOLEAN, used : BOOLEAN]
LoginRows == [account : Nat, generation : Nat, read : Nat, otp : Nat, since : Nat]
AdminTxRows == [actor : Nat, target : Nat, change : AccountChanges, prepared : BOOLEAN]

AccountsTyped ==
  /\ accounts \in Seq(AccountRows(Phones)) /\ Len(accounts) <= MaxAccounts
  /\ otps \in Seq(OtpRows) /\ sessions \in Seq(SessionRows(Nat))
  /\ changes \in Seq(Nat) /\ Len(changes) = Len(accounts)
  /\ \A s \in DOMAIN sessions : sessions[s].account \in 1 .. Len(accounts)
  /\ logins \subseteq LoginRows
  /\ \A l \in logins : l.account \in 1 .. Len(accounts) /\ l.otp \in 1 .. Len(otps)
AdminsTyped ==
  /\ adminTxs \subseteq AdminTxRows /\ \A t \in adminTxs : t.target \in 1 .. Len(accounts)
  /\ bootstrapped \in BOOLEAN

(* Generations and the events that end sessions are counted in step: a      *)
(* credential is behind its account by as many generations as events.       *)
InStep ==
  /\ \A s \in DOMAIN sessions : sessions[s].status = "LIVE" =>
       sessions[s].generation + changes[sessions[s].account]
         = accounts[sessions[s].account].generation + sessions[s].since
  /\ \A l \in logins : l.generation + changes[l.account] = accounts[l.account].generation + l.since

(* The logins of an account are counted at least as far as its sessions.    *)
Counted ==
  /\ \A s \in DOMAIN sessions : sessions[s].sequence <= accounts[sessions[s].account].logins
  /\ FirstLoginOnce

(* A code that opened a session, or is about to, was consumed before it was *)
(* got wrong too often, and opens no other.                                 *)
Spent(c) == c \in 1 .. Len(otps) /\ otps[c].consumed /\ otps[c].failed < MaxAttempts
CodesOnce ==
  /\ \A s \in DOMAIN sessions : sessions[s].otp # 0 => Spent(sessions[s].otp)
  /\ \A l \in logins : Spent(l.otp)
  /\ \A s, r \in DOMAIN sessions : sessions[s].otp # 0 /\ sessions[s].otp = sessions[r].otp => s = r
  /\ \A l, k \in logins : l.otp = k.otp => l = k
  /\ \A s \in DOMAIN sessions, l \in logins : sessions[s].otp # l.otp

AccountsInv == AccountsTyped /\ AdminsTyped /\ InStep /\ Counted /\ CodesOnce

-----------------------------------------------------------------------------
(* Members.                                                                 *)

AddRows == [enterprise : Enterprises, phone : Phones, row : Nat, account : AccountIds]
RemovalRows == [row : Nat, active : BOOLEAN]

MembersTyped ==
  /\ DOMAIN enterprises \subseteq Enterprises
  /\ members \in Seq(MemberRows(Enterprises, Phones, AccountIds))
  /\ adds \subseteq AddRows /\ \A t \in adds : t.row \in 0 .. Len(members)
  /\ removals \subseteq RemovalRows /\ \A t \in removals : t.row \in 1 .. Len(members)

(* The rows open transactions have locked are as they found them, and of    *)
(* an enterprise one active member at a time is being removed.              *)
RowsHeld ==
  /\ \A t \in adds : t.row # None => members[t.row].status = "REVOKED"
  /\ \A t, u \in adds : t.row # None /\ t.row = u.row => t = u
  /\ \A t \in removals : members[t.row].status = IF t.active THEN "ACTIVE" ELSE "PENDING"

(* A member remains whom nobody is removing.                                *)
Staying(e, i) == members[i].enterprise = e /\ members[i].status = "ACTIVE" /\ \A t \in removals : t.row # i
SomeoneStays == \A e \in DOMAIN enterprises : \E i \in DOMAIN members : Staying(e, i)

MembersInv == MembersTyped /\ RowsHeld /\ SomeoneStays

-----------------------------------------------------------------------------
(* Customers.                                                               *)

InvitationRows == [shop : Shops, phone : Phones, due : BOOLEAN, status : {"PENDING", "ACTIVE", "EXPIRED"}]
InviteRows == [shop : Shops, phone : Phones, account : AccountIds]

CustomersTyped ==
  /\ invitations \in Seq(InvitationRows) /\ invites \subseteq InviteRows
  /\ grants \subseteq Shops \X AccountIds

-----------------------------------------------------------------------------
(* Requests for codes.  Two of them never hold the lock of the same phone,  *)
(* address or device, and what a request has counted stays true.            *)

LocksExclude ==
  \A r, x \in Requests : \A d \in Dimensions :
    d \in Held(r) /\ d \in Held(x) /\ KeyOf[r][d] = KeyOf[x][d] => r = x
CountsTrue ==
  \A r \in Requests : step[r] = 5 /\ counted[r] => \A d \in Dimensions : Cardinality(Sharing(r, d)) < Limits[d]

LimitsInv == LimitsTypeOK /\ IsFiniteSet(recent) /\ LocksExclude /\ CountsTrue /\ LimitsKept

IdentityInv == scenario \in Scenarios /\ AccountsInv /\ MembersInv /\ CustomersTyped /\ LimitsInv

-----------------------------------------------------------------------------
(* Requests for codes.                                                      *)

(* The locks a request holds, by how far it is.                             *)
LEMMA HeldByStep ==
  ASSUME NEW r \in Requests, step[r] \in 1 .. 6
  PROVE  /\ Held(r) \subseteq Dimensions
         /\ "device" \in Held(r) <=> step[r] \in 2 .. 5
         /\ "ip" \in Held(r) <=> step[r] \in 3 .. 5
         /\ "phone" \in Held(r) <=> step[r] \in 4 .. 5
<1>1. /\ LockOrder(r)[1] = "device" /\ LockOrder(r)[2] = "ip" /\ LockOrder(r)[3] = "phone"
  BY DEF LockOrder
<1>2. \A d \in Dimensions :
        d \in Held(r) <=> \/ d = "device" /\ 1 < step[r] /\ step[r] <= 5
                          \/ d = "ip" /\ 2 < step[r] /\ step[r] <= 5
                          \/ d = "phone" /\ 3 < step[r] /\ step[r] <= 5
  <2>1. 1 .. 3 = {1, 2, 3}
    OBVIOUS
  <2> QED BY <1>1, <2>1 DEF Held
<1>3. "device" \in Dimensions /\ "ip" \in Dimensions /\ "phone" \in Dimensions
  BY DEF Dimensions
<1>4. Held(r) \subseteq Dimensions
  BY DEF Held
<1> QED BY <1>2, <1>3, <1>4

LEMMA HeldAtFive ==
  ASSUME NEW r \in Requests, step[r] = 5, NEW d \in Dimensions
  PROVE  d \in Held(r)
BY HeldByStep DEF Dimensions

(* A request takes its next lock when nobody holds it.                      *)
LEMMA LocksStep ==
  ASSUME LimitsInv, NEW r \in Requests, Locks(r)
  PROVE  LimitsInv'
<1>1. /\ step \in [Requests -> 1 .. 6] /\ step[r] \in 1 .. 3
      /\ step' = [step EXCEPT ![r] = step[r] + 1] /\ UNCHANGED <<counted, recent>>
  BY DEF LimitsInv, LimitsTypeOK, Locks
<1> PICK d : d = LockOrder(r)[step[r]]
  OBVIOUS
<1>2. d \in Dimensions /\ Free(r, d)
  BY <1>1 DEF Locks, LockOrder, Dimensions
<1>3. step' \in [Requests -> 1 .. 6] /\ \A x \in Requests \ {r} : step'[x] = step[x]
      /\ step'[r] = step[r] + 1
  BY <1>1
<1>4. \A x \in Requests \ {r} : Held(x)' = Held(x)
  BY <1>3 DEF Held, LockOrder
<1>5. Held(r)' \subseteq Held(r) \cup {d}
  <2>1. ASSUME NEW e \in Held(r)' PROVE e \in Held(r) \cup {d}
    <3>1. PICK i \in 1 .. 3 : e \in Dimensions /\ LockOrder(r)[i] = e /\ i < step'[r] /\ step'[r] <= 5
      BY <2>1 DEF Held, LockOrder
    <3>2. CASE i = step[r]
      BY <3>1, <3>2
    <3>3. CASE i < step[r]
      BY <1>1, <3>1, <3>3 DEF Held
    <3> QED BY <1>1, <1>3, <3>1, <3>2, <3>3
  <2> QED BY <2>1
<1>6. LocksExclude'
  <2> SUFFICES ASSUME NEW x \in Requests, NEW y \in Requests, NEW e \in Dimensions,
                      e \in Held(x)', e \in Held(y)', KeyOf[x][e] = KeyOf[y][e], x # y
               PROVE  FALSE
    BY DEF LocksExclude
  <2>1. ASSUME NEW z \in Requests \ {r}, e \in Held(z)', e \in Held(r)', KeyOf[z][e] = KeyOf[r][e] PROVE FALSE
    <3>1. e \in Held(z)
      BY <1>4, <2>1
    <3>2. e \notin Held(r)
      BY <2>1, <3>1 DEF LimitsInv, LocksExclude
    <3>3. e = d
      BY <1>5, <2>1, <3>2
    <3> QED BY <1>2, <2>1, <3>1, <3>3 DEF Free
  <2>2. CASE x # r /\ y # r
    BY <1>4, <2>2 DEF LimitsInv, LocksExclude
  <2> QED BY <2>1, <2>2
<1>7. CountsTrue'
  <2>1. \A x \in Requests : step'[x] = 5 => step[x] = 5
    BY <1>1, <1>3
  <2> QED BY <1>1, <2>1 DEF LimitsInv, CountsTrue, Sharing
<1>8. LimitsTypeOK' /\ IsFiniteSet(recent)' /\ LimitsKept'
  BY <1>1, <1>3 DEF LimitsInv, LimitsTypeOK, LimitsKept, Sharing
<1> QED BY <1>6, <1>7, <1>8 DEF LimitsInv

(* It counts under its three locks.                                         *)
LEMMA CountsStep ==
  ASSUME LimitsInv, NEW r \in Requests, Counts(r)
  PROVE  LimitsInv'
<1>1. /\ step \in [Requests -> 1 .. 6] /\ step[r] = 4 /\ step' = [step EXCEPT ![r] = 5] /\ recent' = recent
      /\ counted' = [counted EXCEPT ![r] = \A d \in Dimensions : Cardinality(Sharing(r, d)) < Limits[d]]
      /\ counted \in [Requests -> BOOLEAN]
  BY DEF LimitsInv, LimitsTypeOK, Counts
<1>2. step' \in [Requests -> 1 .. 6] /\ step'[r] = 5 /\ \A x \in Requests \ {r} : step'[x] = step[x]
  BY <1>1
<1>3. /\ counted'[r] = (\A d \in Dimensions : Cardinality(Sharing(r, d)) < Limits[d])
      /\ \A x \in Requests \ {r} : counted'[x] = counted[x]
  BY <1>1
<1>4. \A x \in Requests : Held(x)' = Held(x)
  <2>1. \A x \in Requests : step[x] \in 1 .. 6 /\ step'[x] \in 1 .. 6
    BY <1>1, <1>2
  <2>2. Held(r)' = Held(r)
    <3>1. \A d \in Dimensions : d \in Held(r)
      BY <1>1, HeldByStep DEF Dimensions
    <3>2. \A d \in Dimensions : d \in Held(r)'
      BY <1>2, LockOrder(r)[1] = "device", LockOrder(r)[2] = "ip", LockOrder(r)[3] = "phone"
         DEF Held, Dimensions, LockOrder
    <3> QED BY <3>1, <3>2 DEF Held
  <2> QED BY <1>2, <2>2 DEF Held, LockOrder
<1>5. LocksExclude'
  BY <1>4 DEF LimitsInv, LocksExclude
<1>6. \A x \in Requests, d \in Dimensions : Sharing(x, d)' = Sharing(x, d)
  BY <1>1 DEF Sharing
<1>7. CountsTrue'
  <2> SUFFICES ASSUME NEW x \in Requests, step'[x] = 5, counted'[x], NEW d \in Dimensions
               PROVE  Cardinality(Sharing(x, d)) < Limits[d]
    BY <1>6 DEF CountsTrue
  <2>1. CASE x = r
    BY <1>3, <2>1
  <2>2. CASE x # r
    BY <1>2, <1>3, <2>2 DEF LimitsInv, CountsTrue
  <2> QED BY <2>1, <2>2
<1>8. LimitsTypeOK' /\ IsFiniteSet(recent)' /\ LimitsKept'
  <2>1. counted' \in [Requests -> BOOLEAN]
    BY <1>1
  <2> QED BY <1>1, <1>2, <1>6, <2>1 DEF LimitsInv, LimitsTypeOK, LimitsKept
<1> QED BY <1>5, <1>7, <1>8 DEF LimitsInv

(* While it held the locks nobody inserted a challenge it would have        *)
(* counted, so there is room for its own.                                   *)
LEMMA EndsStep ==
  ASSUME LimitsInv, NEW r \in Requests, Ends(r)
  PROVE  LimitsInv'
<1>1. /\ step \in [Requests -> 1 .. 6] /\ step[r] = 5 /\ step' = [step EXCEPT ![r] = 6] /\ counted' = counted
      /\ recent' = IF counted[r] THEN recent \cup {r} ELSE recent
      /\ recent \subseteq Requests /\ IsFiniteSet(recent)
  BY DEF LimitsInv, LimitsTypeOK, Ends
<1>2. step' \in [Requests -> 1 .. 6] /\ step'[r] = 6 /\ \A x \in Requests \ {r} : step'[x] = step[x]
  BY <1>1
<1>3. Held(r)' = {} /\ \A x \in Requests \ {r} : Held(x)' = Held(x)
  BY <1>2 DEF Held, LockOrder
<1>4. LocksExclude'
  BY <1>3 DEF LimitsInv, LocksExclude
<1>5. ASSUME NEW x \in Requests, NEW d \in Dimensions
      PROVE  Sharing(x, d)' = IF counted[r] /\ KeyOf[x][d] = KeyOf[r][d] THEN Sharing(x, d) \cup {r} ELSE Sharing(x, d)
  BY <1>1 DEF Sharing
<1>6. CountsTrue'
  <2> SUFFICES ASSUME NEW x \in Requests, step'[x] = 5, counted'[x], NEW d \in Dimensions
               PROVE  Cardinality(Sharing(x, d))' < Limits[d]
    BY DEF CountsTrue
  <2>1. x # r /\ step[x] = 5 /\ counted[x]
    BY <1>1, <1>2
  <2>2. KeyOf[x][d] # KeyOf[r][d]
    BY <1>1, <2>1, HeldAtFive DEF LimitsInv, LocksExclude
  <2>3. Sharing(x, d)' = Sharing(x, d)
    BY <1>5, <2>2
  <2> QED BY <2>1, <2>3 DEF LimitsInv, CountsTrue
<1>7. LimitsKept'
  <2> SUFFICES ASSUME NEW x \in Requests, NEW d \in Dimensions
               PROVE  Cardinality(Sharing(x, d))' <= Limits[d]
    BY DEF LimitsKept
  <2>1. CASE counted[r] /\ KeyOf[x][d] = KeyOf[r][d]
    <3>1. Sharing(x, d) = Sharing(r, d)
      BY <2>1 DEF Sharing
    <3>2. Cardinality(Sharing(x, d)) < Limits[d]
      BY <1>1, <2>1, <3>1 DEF LimitsInv, CountsTrue
    <3>3. IsFiniteSet(Sharing(x, d))
      BY <1>1, FS_Subset DEF Sharing
    <3>4. Cardinality(Sharing(x, d)) \in Nat /\ Limits[d] \in Nat
      BY <3>3, FS_CardinalityType, LimitsAssumption
    <3>7. Cardinality(Sharing(x, d) \cup {r})
            = IF r \in Sharing(x, d) THEN Cardinality(Sharing(x, d)) ELSE Cardinality(Sharing(x, d)) + 1
      <4> PICK S : S = Sharing(x, d)
        OBVIOUS
      <4>1. Cardinality(S \cup {r}) = IF r \in S THEN Cardinality(S) ELSE Cardinality(S) + 1
        BY <3>3, FS_AddElement
      <4> QED BY <4>1
    <3>5. Sharing(x, d)' = Sharing(x, d) \cup {r}
      BY <1>5, <2>1
    <3>6. Cardinality(Sharing(x, d) \cup {r}) \in Nat
      BY <3>3, FS_AddElement, FS_CardinalityType
    <3> QED BY <3>2, <3>4, <3>5, <3>6, <3>7
  <2>2. CASE ~(counted[r] /\ KeyOf[x][d] = KeyOf[r][d])
    BY <1>5, <2>2 DEF LimitsInv, LimitsKept
  <2> QED BY <2>1, <2>2
<1>8. LimitsTypeOK' /\ IsFiniteSet(recent)'
  BY <1>1, <1>2, FS_AddElement DEF LimitsInv, LimitsTypeOK
<1> QED BY <1>4, <1>6, <1>7, <1>8 DEF LimitsInv

LEMMA LeavesWindowStep ==
  ASSUME LimitsInv, NEW r \in Requests, LeavesWindow(r)
  PROVE  LimitsInv'
<1>1. recent' = recent \ {r} /\ UNCHANGED <<step, counted>> /\ recent \subseteq Requests /\ IsFiniteSet(recent)
  BY DEF LimitsInv, LimitsTypeOK, LeavesWindow
<1>2. \A x \in Requests : Held(x)' = Held(x)
  BY <1>1 DEF Held, LockOrder
<1>3. LocksExclude'
  BY <1>2 DEF LimitsInv, LocksExclude
<1>4. ASSUME NEW x \in Requests, NEW d \in Dimensions
      PROVE  /\ Cardinality(Sharing(x, d)') <= Cardinality(Sharing(x, d))
             /\ Cardinality(Sharing(x, d)') \in Nat /\ Cardinality(Sharing(x, d)) \in Nat /\ Limits[d] \in Nat
  <2>1. Sharing(x, d)' \subseteq Sharing(x, d)
    BY <1>1 DEF Sharing
  <2>2. IsFiniteSet(Sharing(x, d))
    BY <1>1, FS_Subset DEF Sharing
  <2>3. IsFiniteSet(Sharing(x, d)') /\ Cardinality(Sharing(x, d)') <= Cardinality(Sharing(x, d))
    BY <2>1, <2>2, FS_Subset
  <2>4. Limits[d] \in Nat
    BY LimitsAssumption
  <2> QED BY <2>2, <2>3, <2>4, FS_CardinalityType
<1>5. CountsTrue'
  <2> SUFFICES ASSUME NEW x \in Requests, step[x] = 5, counted[x], NEW d \in Dimensions
               PROVE  Cardinality(Sharing(x, d)') < Limits[d]
    BY <1>1 DEF CountsTrue
  <2>1. Cardinality(Sharing(x, d)) < Limits[d]
    BY DEF LimitsInv, CountsTrue
  <2> QED BY <1>4, <2>1
<1>6. LimitsKept'
  <2> SUFFICES ASSUME NEW x \in Requests, NEW d \in Dimensions
               PROVE  Cardinality(Sharing(x, d)') <= Limits[d]
    BY DEF LimitsKept
  <2>1. Cardinality(Sharing(x, d)) <= Limits[d]
    BY DEF LimitsInv, LimitsKept
  <2> QED BY <1>4, <2>1
<1>7. LimitsTypeOK' /\ IsFiniteSet(recent)'
  BY <1>1, FS_RemoveElement DEF LimitsInv, LimitsTypeOK
<1> QED BY <1>3, <1>5, <1>6, <1>7 DEF LimitsInv

LEMMA UnchangedKeepsLimits ==
  ASSUME LimitsInv, UNCHANGED limitVars
  PROVE  LimitsInv'
<1>1. UNCHANGED <<step, counted, recent>>
  BY DEF limitVars
<1>2. \A x \in Requests : Held(x)' = Held(x) /\ \A d \in Dimensions : Sharing(x, d)' = Sharing(x, d)
  BY <1>1 DEF Held, LockOrder, Sharing
<1> QED BY <1>1, <1>2 DEF LimitsInv, LimitsTypeOK, LocksExclude, CountsTrue, LimitsKept

LEMMA LimitsNext == LimitsInv /\ [Next]_vars => LimitsInv'
<1> SUFFICES ASSUME LimitsInv, [Next]_vars PROVE LimitsInv'
  OBVIOUS
<1>1. CASE LimitStep
  BY <1>1, LocksStep, CountsStep, EndsStep, LeavesWindowStep DEF LimitStep
<1>2. CASE UNCHANGED limitVars
  BY <1>2, UnchangedKeepsLimits
<1> QED BY <1>1, <1>2 DEF Next, vars

LEMMA LimitsStart == ASSUME NEW S \in SUBSET Requests, LimitsInit(S) PROVE LimitsInv
<1>1. /\ step = [r \in Requests |-> IF r \in S THEN 1 ELSE 6]
      /\ counted = [r \in Requests |-> FALSE] /\ recent = {}
  BY DEF LimitsInit
<1>2. LimitsTypeOK
  BY <1>1 DEF LimitsTypeOK
<1>3. \A r \in Requests : step[r] \in {1, 6}
  BY <1>1
<1>4. LocksExclude
  <2>1. \A r \in Requests : Held(r) = {}
    BY <1>3 DEF Held
  <2> QED BY <2>1 DEF LocksExclude
<1>5. CountsTrue
  BY <1>3 DEF CountsTrue
<1>6. LimitsKept
  <2> SUFFICES ASSUME NEW r \in Requests, NEW d \in Dimensions PROVE Cardinality(Sharing(r, d)) <= Limits[d]
    BY DEF LimitsKept
  <2>1. Cardinality(Sharing(r, d)) = 0
    BY <1>1, FS_EmptySet DEF Sharing
  <2>2. Limits[d] \in Nat
    BY LimitsAssumption
  <2> QED BY <2>1, <2>2
<1> QED BY <1>1, <1>2, <1>4, <1>5, <1>6, FS_EmptySet DEF LimitsInv

(* Of the requests that wait, one that has come furthest waits for one that *)
(* has all its locks.                                                       *)
LEMMA SomeoneGoesOn == ASSUME LimitsTypeOK PROVE NoWaitingCircle
<1> SUFFICES ASSUME NEW r \in Requests, step[r] < 6,
                    \A x \in Requests : step[x] \notin {4, 5},
                    \A x \in Requests : step[x] < 4 => ~Free(x, LockOrder(x)[step[x]])
             PROVE  FALSE
  BY DEF NoWaitingCircle
<1>1. \A x \in Requests : step[x] \in {1, 2, 3, 6}
  BY DEF LimitsTypeOK
<1>2. \A x \in Requests : step[x] # 3
  <2> SUFFICES ASSUME NEW x \in Requests, step[x] = 3 PROVE FALSE
    OBVIOUS
  <2>1. LockOrder(x)[step[x]] = "phone"
    BY DEF LockOrder
  <2>2. PICK y \in Requests : "phone" \in Held(y)
    BY <2>1 DEF Free
  <2> QED BY <1>1, <2>2, HeldByStep
<1>3. \A x \in Requests : step[x] # 2
  <2> SUFFICES ASSUME NEW x \in Requests, step[x] = 2 PROVE FALSE
    OBVIOUS
  <2>1. LockOrder(x)[step[x]] = "ip"
    BY DEF LockOrder
  <2>2. PICK y \in Requests : "ip" \in Held(y)
    BY <2>1 DEF Free
  <2> QED BY <1>1, <1>2, <2>2, HeldByStep
<1>4. step[r] = 1 /\ LockOrder(r)[step[r]] = "device"
  BY <1>1, <1>2, <1>3 DEF LockOrder
<1>5. PICK y \in Requests : "device" \in Held(y)
  BY <1>4 DEF Free
<1> QED BY <1>1, <1>2, <1>3, <1>5, HeldByStep

(* createOtpChallengeAfterRateCheck counts under the locks of what it       *)
(* counts: however many requests arrive at once, no phone, address or       *)
(* device exceeds its limit, and they never wait for each other in a circle.*)
THEOREM LimitsSoundHolds == Spec => []LimitsSound
<1>1. Init => LimitsInv
  BY LimitsStart, ScenariosAssumption DEF Init
<1>2. LimitsInv => LimitsSound
  BY SomeoneGoesOn DEF LimitsInv, LimitsSound
<1> QED BY <1>1, <1>2, LimitsNext, PTL DEF Spec

-----------------------------------------------------------------------------
(* Accounts, codes, sessions and logins.                                    *)

LEMMA SameScenario ==
  ASSUME scenario' = scenario
  PROVE  /\ Phones' = Phones /\ Enterprises' = Enterprises /\ Shops' = Shops /\ MaxAttempts' = MaxAttempts
         /\ MaxAccounts' = MaxAccounts /\ AccountIds' = AccountIds /\ OtpRows' = OtpRows
<1>1. Phones' = Phones /\ MaxAttempts' = MaxAttempts /\ MaxAccounts' = MaxAccounts
  BY DEF Phones, MaxAttempts, MaxAccounts
<1> QED BY <1>1 DEF Enterprises, Shops, AccountIds, OtpRows

LEMMA Bounds ==
  ASSUME scenario \in Scenarios
  PROVE  MaxAttempts \in Nat \ {0} /\ MaxAccounts \in Nat
BY ScenariosAssumption DEF MaxAttempts, MaxAccounts

LEMMA AccountFacts ==
  ASSUME AccountsTyped
  PROVE  /\ Len(accounts) \in Nat /\ Len(otps) \in Nat /\ Len(sessions) \in Nat
         /\ DOMAIN accounts = 1 .. Len(accounts) /\ DOMAIN changes = 1 .. Len(accounts)
         /\ DOMAIN otps = 1 .. Len(otps) /\ DOMAIN sessions = 1 .. Len(sessions)
         /\ \A a \in 1 .. Len(accounts) : accounts[a] \in AccountRows(Phones) /\ changes[a] \in Nat
         /\ \A c \in 1 .. Len(otps) : otps[c] \in OtpRows
         /\ \A s \in 1 .. Len(sessions) : sessions[s] \in SessionRows(Nat)
<1>1. /\ accounts \in Seq(AccountRows(Phones)) /\ otps \in Seq(OtpRows) /\ sessions \in Seq(SessionRows(Nat))
      /\ changes \in Seq(Nat) /\ Len(changes) = Len(accounts)
  BY DEF AccountsTyped
<1> QED BY <1>1, ElementOfSeq, LenProperties

(* What most steps do: accounts are added, or generations and events are    *)
(* counted together; codes that are spent stay so; sessions do not revive.  *)
AccountsGrow ==
  /\ accounts' \in Seq(AccountRows(Phones)) /\ Len(accounts') <= MaxAccounts /\ Len(accounts) <= Len(accounts')
  /\ changes' \in Seq(Nat) /\ Len(changes') = Len(accounts')
  /\ \A a \in 1 .. Len(accounts) :
       /\ accounts'[a].generation + changes[a] = accounts[a].generation + changes'[a]
       /\ accounts[a].logins <= accounts'[a].logins
CodesKept ==
  /\ otps' \in Seq(OtpRows) /\ Len(otps) <= Len(otps')
  /\ \A c \in 1 .. Len(otps) : otps[c].consumed =>
       otps'[c].consumed /\ otps'[c].failed = otps[c].failed
SessionsKept ==
  /\ sessions' \in Seq(SessionRows(Nat)) /\ Len(sessions') = Len(sessions)
  /\ \A s \in 1 .. Len(sessions) :
       /\ sessions'[s].account = sessions[s].account /\ sessions'[s].generation = sessions[s].generation
       /\ sessions'[s].otp = sessions[s].otp /\ sessions'[s].since = sessions[s].since
       /\ sessions'[s].sequence = sessions[s].sequence
       /\ sessions'[s].status = "LIVE" => sessions[s].status = "LIVE"

(* At most one login begins, with a code not spent before.                  *)
LoginsOpen ==
  /\ \A l \in logins' \ logins :
       /\ l \in LoginRows /\ l.account \in 1 .. Len(accounts')
       /\ l.generation + changes'[l.account] = accounts'[l.account].generation + l.since
       /\ Spent(l.otp)' /\ ~Spent(l.otp)
  /\ \A l, k \in logins' \ logins : l = k

LEMMA SpentStays ==
  ASSUME AccountsTyped, CodesKept, scenario' = scenario, NEW c, Spent(c)
  PROVE  Spent(c)'
<1>1. Len(otps) \in Nat /\ Len(otps') \in Nat
  BY LenProperties DEF AccountsTyped, CodesKept
<1> QED BY <1>1, SameScenario DEF Spent, CodesKept

LEMMA Balance ==
  ASSUME NEW x \in Nat, NEW y \in Nat, NEW u \in Nat, NEW v \in Nat, NEW g \in Nat, NEW n \in Nat,
         y + u = x + v, g + u = x + n
  PROVE  g + v = y + n
OBVIOUS

LEMMA GrownFacts ==
  ASSUME AccountsTyped, AccountsGrow, NEW a \in 1 .. Len(accounts)
  PROVE  /\ a \in 1 .. Len(accounts')
         /\ accounts[a] \in AccountRows(Phones) /\ accounts'[a] \in AccountRows(Phones)
         /\ changes[a] \in Nat /\ changes'[a] \in Nat
<1>1. /\ Len(accounts) \in Nat /\ Len(accounts') \in Nat /\ Len(accounts) <= Len(accounts')
      /\ Len(changes') = Len(accounts')
      /\ accounts' \in Seq(AccountRows(Phones)) /\ changes' \in Seq(Nat)
  BY AccountFacts, LenProperties DEF AccountsGrow
<1>2. a \in 1 .. Len(accounts')
  BY <1>1
<1>3. accounts'[a] \in AccountRows(Phones) /\ changes'[a] \in Nat
  BY <1>1, <1>2, ElementOfSeq
<1> QED BY <1>2, <1>3, AccountFacts

LEMMA InStepStays ==
  ASSUME AccountsTyped, AccountsGrow, NEW a \in 1 .. Len(accounts), NEW g \in Nat, NEW n \in Nat,
         g + changes[a] = accounts[a].generation + n
  PROVE  g + changes'[a] = accounts'[a].generation + n
<1>1. PICK x \in Nat, y \in Nat, u \in Nat, v \in Nat :
        /\ x = accounts[a].generation /\ y = accounts'[a].generation /\ u = changes[a] /\ v = changes'[a]
  BY GrownFacts DEF AccountRows
<1>2. accounts'[a].generation + changes[a] = accounts[a].generation + changes'[a]
  BY DEF AccountsGrow
<1>3. y + u = x + v /\ g + u = x + n
  BY <1>1, <1>2
<1>4. g + v = y + n
  BY ONLY <1>3, Balance, g \in Nat, n \in Nat, x \in Nat, y \in Nat, u \in Nat, v \in Nat
<1> QED BY <1>1, <1>4

LEMMA LoginsStay ==
  ASSUME AccountsTyped, InStep, AccountsGrow, CodesKept, NEW l \in logins
  PROVE  /\ l \in LoginRows /\ l.account \in 1 .. Len(accounts') /\ l.otp \in 1 .. Len(otps')
         /\ l.generation + changes'[l.account] = accounts'[l.account].generation + l.since
<1>1. l \in LoginRows /\ l.account \in 1 .. Len(accounts) /\ l.otp \in 1 .. Len(otps)
  BY DEF AccountsTyped
<1>2. l.generation \in Nat /\ l.since \in Nat
  BY <1>1 DEF LoginRows
<1>3. l.generation + changes'[l.account] = accounts'[l.account].generation + l.since
  BY <1>1, <1>2, InStepStays DEF InStep
<1>4. Len(accounts) \in Nat /\ Len(otps) \in Nat /\ Len(accounts') \in Nat /\ Len(otps') \in Nat
  BY LenProperties DEF AccountsTyped, AccountsGrow, CodesKept
<1> QED BY <1>1, <1>3, <1>4 DEF AccountsGrow, CodesKept

LEMMA Carried ==
  ASSUME AccountsInv, scenario' = scenario, AccountsGrow, CodesKept, SessionsKept, LoginsOpen, AdminsTyped'
  PROVE  AccountsInv'
<1>1. /\ AccountsTyped /\ InStep /\ Counted /\ CodesOnce
      /\ Phones' = Phones /\ MaxAccounts' = MaxAccounts /\ OtpRows' = OtpRows
  BY SameScenario DEF AccountsInv
<1>2. /\ Len(accounts) \in Nat /\ Len(accounts') \in Nat /\ Len(sessions) \in Nat
      /\ DOMAIN sessions = 1 .. Len(sessions) /\ DOMAIN sessions' = 1 .. Len(sessions)
  BY <1>1, LenProperties DEF AccountsTyped, AccountsGrow, SessionsKept
<1>3. \A s \in 1 .. Len(sessions) : /\ sessions[s] \in SessionRows(Nat) /\ sessions[s].account \in 1 .. Len(accounts)
                                    /\ sessions[s].account \in 1 .. Len(accounts')
  <2>1. \A s \in 1 .. Len(sessions) : sessions[s] \in SessionRows(Nat)
    BY <1>1, AccountFacts
  <2>2. \A s \in 1 .. Len(sessions) : sessions[s].account \in 1 .. Len(accounts)
    BY <1>1, <1>2 DEF AccountsTyped
  <2>3. 1 .. Len(accounts) \subseteq 1 .. Len(accounts')
    BY <1>2 DEF AccountsGrow
  <2> QED BY <2>1, <2>2, <2>3
<1>4. AccountsTyped'
  <2>1. \A s \in DOMAIN sessions' : sessions'[s].account \in 1 .. Len(accounts')
    BY <1>2, <1>3 DEF SessionsKept
  <2>2. \A l \in logins' : l \in LoginRows /\ l.account \in 1 .. Len(accounts') /\ l.otp \in 1 .. Len(otps')
    BY <1>1, LoginsStay DEF LoginsOpen, Spent
  <2> QED BY <1>1, <2>1, <2>2 DEF AccountsTyped, AccountsGrow, CodesKept, SessionsKept
<1>5. InStep'
  <2>1. ASSUME NEW s \in DOMAIN sessions', sessions'[s].status = "LIVE"
        PROVE  sessions'[s].generation + changes'[sessions'[s].account]
                 = accounts'[sessions'[s].account].generation + sessions'[s].since
    <3>1. /\ s \in 1 .. Len(sessions) /\ sessions[s].status = "LIVE"
          /\ sessions'[s].account = sessions[s].account /\ sessions'[s].generation = sessions[s].generation
          /\ sessions'[s].since = sessions[s].since
      BY <1>2, <2>1 DEF SessionsKept
    <3>2. sessions[s].generation \in Nat /\ sessions[s].since \in Nat /\ sessions[s].account \in 1 .. Len(accounts)
      BY <1>3, <3>1 DEF SessionRows
    <3>3. sessions[s].generation + changes[sessions[s].account]
            = accounts[sessions[s].account].generation + sessions[s].since
      BY <1>1, <1>2, <3>1 DEF InStep
    <3>4. sessions[s].generation + changes'[sessions[s].account]
            = accounts'[sessions[s].account].generation + sessions[s].since
      BY <1>1, <3>2, <3>3, InStepStays
    <3> QED BY <3>1, <3>4
  <2>2. \A l \in logins' : l.generation + changes'[l.account] = accounts'[l.account].generation + l.since
    BY <1>1, LoginsStay DEF LoginsOpen
  <2> QED BY <2>1, <2>2 DEF InStep
<1>6. Counted'
  <2>1. ASSUME NEW s \in DOMAIN sessions' PROVE sessions'[s].sequence <= accounts'[sessions'[s].account].logins
    <3>1. /\ s \in 1 .. Len(sessions) /\ sessions'[s].account = sessions[s].account
          /\ sessions'[s].sequence = sessions[s].sequence
      BY <1>2, <2>1 DEF SessionsKept
    <3> PICK a : a = sessions[s].account
      OBVIOUS
    <3>2. /\ a \in 1 .. Len(accounts) /\ a \in 1 .. Len(accounts') /\ sessions[s].sequence \in Nat
      BY <1>3, <3>1 DEF SessionRows
    <3>3. accounts[a].logins \in Nat /\ accounts'[a].logins \in Nat
      BY <1>1, <3>2, GrownFacts DEF AccountRows
    <3>4. sessions[s].sequence <= accounts[a].logins /\ accounts[a].logins <= accounts'[a].logins
      BY <1>1, <1>2, <3>1, <3>2 DEF Counted, AccountsGrow
    <3>5. sessions[s].sequence <= accounts'[a].logins
      BY ONLY <3>2, <3>3, <3>4
    <3> QED BY <3>1, <3>5
  <2>2. FirstLoginOnce'
    BY <1>1, <1>2 DEF Counted, FirstLoginOnce, SessionsKept
  <2> QED BY <2>1, <2>2 DEF Counted
<1>7. CodesOnce'
  <2>1. \A s \in DOMAIN sessions' : sessions'[s].otp = sessions[s].otp /\ s \in DOMAIN sessions
    BY <1>2 DEF SessionsKept
  <2>2. \A c : Spent(c) => Spent(c)'
    BY <1>1, SpentStays
  <2>3. \A l \in logins' : Spent(l.otp)'
    BY <1>1, <2>2 DEF CodesOnce, LoginsOpen
  <2>4. \A l, k \in logins' : l.otp = k.otp => l = k
    BY <1>1 DEF CodesOnce, LoginsOpen
  <2>5. \A s \in DOMAIN sessions', l \in logins' : sessions'[s].otp # l.otp
    <3> SUFFICES ASSUME NEW s \in DOMAIN sessions', NEW l \in logins', sessions'[s].otp = l.otp PROVE FALSE
      OBVIOUS
    <3>1. CASE l \in logins
      BY <1>1, <2>1, <3>1 DEF CodesOnce
    <3>2. CASE l \notin logins
      <4>1. l.otp # 0
        BY <2>3 DEF Spent
      <4> QED BY <1>1, <2>1, <3>2, <4>1 DEF CodesOnce, LoginsOpen
    <3> QED BY <3>1, <3>2
  <2>6. (\A s \in DOMAIN sessions : sessions[s].otp # 0 => Spent(sessions[s].otp))'
    <3> SUFFICES ASSUME NEW s \in DOMAIN sessions', sessions'[s].otp # 0 PROVE Spent(sessions[s].otp)'
      OBVIOUS
    <3> PICK c : c = sessions[s].otp
      OBVIOUS
    <3>1. Spent(c)' /\ sessions'[s].otp = c
      BY <1>1, <2>1, <2>2 DEF CodesOnce
    <3> QED BY <3>1 DEF Spent
  <2>7. \A s, r \in DOMAIN sessions' : sessions'[s].otp # 0 /\ sessions'[s].otp = sessions'[r].otp => s = r
    BY <1>1, <2>1 DEF CodesOnce
  <2> QED BY <2>3, <2>4, <2>5, <2>6, <2>7 DEF CodesOnce
<1> QED BY <1>4, <1>5, <1>6, <1>7 DEF AccountsInv

(* A session is written: in step, next in the sequence of its account, with *)
(* a code of its own.                                                       *)
SessionFits(row) ==
  /\ row \in SessionRows(Nat) /\ row.account \in 1 .. Len(accounts')
  /\ row.generation + changes'[row.account] = accounts'[row.account].generation + row.since
  /\ row.sequence <= accounts'[row.account].logins
  /\ \A s \in DOMAIN sessions : sessions[s].account = row.account => sessions[s].sequence # row.sequence
  /\ row.otp # 0 /\ Spent(row.otp)'
  /\ \A s \in DOMAIN sessions : sessions[s].otp # row.otp
  /\ \A l \in logins' : l.otp # row.otp

LEMMA SessionBegins ==
  ASSUME AccountsInv, scenario' = scenario, AccountsGrow, CodesKept, logins' \subseteq logins, AdminsTyped',
         NEW row, SessionFits(row), sessions' = Append(sessions, row)
  PROVE  AccountsInv'
<1>1. /\ AccountsTyped /\ InStep /\ Counted /\ CodesOnce
      /\ Phones' = Phones /\ MaxAccounts' = MaxAccounts /\ OtpRows' = OtpRows
  BY SameScenario DEF AccountsInv
<1>2. /\ Len(accounts) \in Nat /\ Len(accounts') \in Nat /\ Len(sessions) \in Nat
      /\ DOMAIN sessions = 1 .. Len(sessions)
  BY <1>1, LenProperties DEF AccountsTyped, AccountsGrow
<1>3. /\ sessions' \in Seq(SessionRows(Nat)) /\ DOMAIN sessions' = 1 .. Len(sessions) + 1
      /\ \A s \in DOMAIN sessions : sessions'[s] = sessions[s]
      /\ sessions'[Len(sessions) + 1] = row
  BY <1>1, <1>2, AppendProperties, LenProperties DEF AccountsTyped, SessionFits
<1> PICK n : n = Len(sessions) + 1
  OBVIOUS
<1>4. /\ sessions'[n] = row /\ n \notin DOMAIN sessions
      /\ \A s \in DOMAIN sessions' : s = n \/ s \in DOMAIN sessions
  BY <1>2, <1>3
<1>5. \A s \in DOMAIN sessions : /\ sessions[s] \in SessionRows(Nat) /\ sessions[s].account \in 1 .. Len(accounts)
                                 /\ sessions[s].account \in 1 .. Len(accounts')
  <2>1. \A s \in DOMAIN sessions : sessions[s] \in SessionRows(Nat)
    BY <1>1, <1>2, AccountFacts
  <2>2. \A s \in DOMAIN sessions : sessions[s].account \in 1 .. Len(accounts)
    BY <1>1, <1>2 DEF AccountsTyped
  <2>3. 1 .. Len(accounts) \subseteq 1 .. Len(accounts')
    BY <1>2 DEF AccountsGrow
  <2> QED BY <2>1, <2>2, <2>3
<1>6. AccountsTyped'
  <2>1. \A s \in DOMAIN sessions' : sessions'[s].account \in 1 .. Len(accounts')
    BY <1>3, <1>4, <1>5 DEF SessionFits
  <2>2. \A l \in logins' : l \in LoginRows /\ l.account \in 1 .. Len(accounts') /\ l.otp \in 1 .. Len(otps')
    BY <1>1, LoginsStay
  <2> QED BY <1>1, <1>3, <2>1, <2>2 DEF AccountsTyped, AccountsGrow, CodesKept
<1>7. InStep'
  <2>1. ASSUME NEW s \in DOMAIN sessions', sessions'[s].status = "LIVE"
        PROVE  sessions'[s].generation + changes'[sessions'[s].account]
                 = accounts'[sessions'[s].account].generation + sessions'[s].since
    <3>1. CASE s = n
      BY <1>4, <3>1 DEF SessionFits
    <3>2. CASE s \in DOMAIN sessions
      <4>1. /\ sessions[s].generation \in Nat /\ sessions[s].since \in Nat
            /\ sessions[s].account \in 1 .. Len(accounts)
        BY <1>5, <3>2 DEF SessionRows
      <4>2. sessions[s].generation + changes[sessions[s].account]
              = accounts[sessions[s].account].generation + sessions[s].since
        BY <1>1, <1>3, <2>1, <3>2 DEF InStep
      <4>3. sessions[s].generation + changes'[sessions[s].account]
              = accounts'[sessions[s].account].generation + sessions[s].since
        BY <1>1, <4>1, <4>2, InStepStays
      <4> QED BY <1>3, <3>2, <4>3
    <3> QED BY <1>4, <3>1, <3>2
  <2>2. \A l \in logins' : l.generation + changes'[l.account] = accounts'[l.account].generation + l.since
    BY <1>1, LoginsStay
  <2> QED BY <2>1, <2>2 DEF InStep
<1>8. Counted'
  <2>1. ASSUME NEW s \in DOMAIN sessions' PROVE sessions'[s].sequence <= accounts'[sessions'[s].account].logins
    <3>1. CASE s = n
      BY <1>4, <3>1 DEF SessionFits
    <3>2. CASE s \in DOMAIN sessions
      <4> PICK a : a = sessions[s].account
        OBVIOUS
      <4>1. /\ a \in 1 .. Len(accounts) /\ a \in 1 .. Len(accounts') /\ sessions[s].sequence \in Nat
        BY <1>5, <3>2 DEF SessionRows
      <4>2. accounts[a].logins \in Nat /\ accounts'[a].logins \in Nat
        BY <1>1, <4>1, GrownFacts DEF AccountRows
      <4>3. sessions[s].sequence <= accounts[a].logins /\ accounts[a].logins <= accounts'[a].logins
        BY <1>1, <3>2, <4>1 DEF Counted, AccountsGrow
      <4>4. sessions[s].sequence <= accounts'[a].logins
        BY ONLY <4>1, <4>2, <4>3
      <4> QED BY <1>3, <3>2, <4>4
    <3> QED BY <1>4, <3>1, <3>2
  <2>2. \A s, r \in DOMAIN sessions' :
          s # r /\ sessions'[s].account = sessions'[r].account =>
            sessions'[s].sequence # sessions'[r].sequence \/ sessions'[s].sequence = 0
    BY <1>1, <1>3, <1>4 DEF Counted, FirstLoginOnce, SessionFits
  <2> QED BY <2>1, <2>2 DEF Counted, FirstLoginOnce
<1>9. CodesOnce'
  <2>1. \A c : Spent(c) => Spent(c)'
    BY <1>1, SpentStays
  <2>2. \A l \in logins' : Spent(l.otp)'
    BY <1>1, <2>1 DEF CodesOnce
  <2>3. \A l, k \in logins' : l.otp = k.otp => l = k
    BY <1>1 DEF CodesOnce
  <2>4. \A s \in DOMAIN sessions', l \in logins' : sessions'[s].otp # l.otp
    BY <1>1, <1>3, <1>4 DEF CodesOnce, SessionFits
  <2>5. (\A s \in DOMAIN sessions : sessions[s].otp # 0 => Spent(sessions[s].otp))'
    <3> SUFFICES ASSUME NEW s \in DOMAIN sessions', sessions'[s].otp # 0 PROVE Spent(sessions[s].otp)'
      OBVIOUS
    <3> PICK c : c = sessions'[s].otp
      OBVIOUS
    <3>1. Spent(c)'
      <4>1. CASE s = n
        <5>1. c = row.otp
          BY <1>4, <4>1
        <5>2. Spent(row.otp)'
          BY DEF SessionFits
        <5> QED BY <5>1, <5>2
      <4>2. CASE s \in DOMAIN sessions
        BY <1>1, <1>3, <2>1, <4>2 DEF CodesOnce
      <4> QED BY <1>4, <4>1, <4>2
    <3> QED BY <3>1 DEF Spent
  <2>6. \A s, r \in DOMAIN sessions' : sessions'[s].otp # 0 /\ sessions'[s].otp = sessions'[r].otp => s = r
    BY <1>1, <1>3, <1>4 DEF CodesOnce, SessionFits
  <2> QED BY <2>2, <2>3, <2>4, <2>5, <2>6 DEF CodesOnce
<1> QED BY <1>6, <1>7, <1>8, <1>9 DEF AccountsInv

LEMMA SameAccounts == ASSUME AccountsInv, UNCHANGED <<accounts, changes>> PROVE AccountsGrow
<1>1. AccountsTyped
  BY DEF AccountsInv
<1>2. Len(accounts) \in Nat /\ \A a \in 1 .. Len(accounts) : accounts[a].logins \in Nat
  BY <1>1, AccountFacts DEF AccountRows
<1> QED BY <1>1, <1>2 DEF AccountsTyped, AccountsGrow

LEMMA SameCodes == ASSUME AccountsInv, UNCHANGED otps PROVE CodesKept
BY LenProperties DEF AccountsInv, AccountsTyped, CodesKept

LEMMA SameSessions == ASSUME AccountsInv, UNCHANGED sessions PROVE SessionsKept
BY DEF AccountsInv, AccountsTyped, SessionsKept

LEMMA NoLogin == ASSUME logins' \subseteq logins PROVE LoginsOpen
BY DEF LoginsOpen

LEMMA SameAdmins == ASSUME AccountsInv, AccountsGrow, UNCHANGED <<adminTxs, bootstrapped>> PROVE AdminsTyped'
<1>1. Len(accounts) \in Nat /\ Len(accounts') \in Nat /\ Len(accounts) <= Len(accounts')
  BY LenProperties DEF AccountsInv, AccountsTyped, AccountsGrow
<1> QED BY <1>1 DEF AccountsInv, AdminsTyped

LEMMA CodeChanges ==
  ASSUME AccountsInv, NEW c \in DOMAIN otps, NEW row \in OtpRows, otps' = [otps EXCEPT ![c] = row],
         otps[c].consumed => row.consumed /\ row.failed = otps[c].failed
  PROVE  CodesKept /\ otps'[c] = row /\ Len(otps') = Len(otps)
<1>1. otps \in Seq(OtpRows) /\ Len(otps) \in Nat /\ c \in 1 .. Len(otps)
  BY AccountFacts DEF AccountsInv, AccountsTyped
<1>2. /\ otps' \in Seq(OtpRows) /\ Len(otps') = Len(otps)
      /\ \A d \in 1 .. Len(otps) : otps'[d] = IF d = c THEN row ELSE otps[d]
  BY <1>1, ExceptSeq
<1> QED BY <1>1, <1>2 DEF CodesKept

LEMMA CodeConsumed ==
  ASSUME AccountsInv, scenario \in Scenarios, scenario' = scenario, NEW c \in DOMAIN otps, otps' = Consumed(c),
         NEW purpose, Usable(c, purpose)
  PROVE  CodesKept /\ Spent(c)' /\ ~Spent(c)
<1>1. otps[c] \in OtpRows /\ c \in 1 .. Len(otps) /\ MaxAttempts' = MaxAttempts
  BY AccountFacts, SameScenario DEF AccountsInv
<1> PICK row : row = [otps[c] EXCEPT !.consumed = TRUE]
  OBVIOUS
<1>2. row \in OtpRows /\ row.consumed /\ row.failed = otps[c].failed
  BY <1>1 DEF OtpRows
<1>3. otps' = [otps EXCEPT ![c] = row]
  BY DEF Consumed
<1>4. CodesKept /\ otps'[c] = row /\ Len(otps') = Len(otps)
  BY <1>2, <1>3, CodeChanges
<1> QED BY <1>1, <1>2, <1>4 DEF Usable, Spent

LEMMA AccountAdded ==
  ASSUME AccountsInv, NEW row \in AccountRows(Phones), Len(accounts) < MaxAccounts, scenario \in Scenarios,
         accounts' = Append(accounts, row), changes' = Append(changes, 0)
  PROVE  /\ AccountsGrow /\ Len(accounts) \in Nat
         /\ Len(accounts') = Len(accounts) + 1 /\ accounts'[Len(accounts) + 1] = row /\ changes'[Len(accounts) + 1] = 0
<1>1. /\ accounts \in Seq(AccountRows(Phones)) /\ changes \in Seq(Nat) /\ Len(changes) = Len(accounts)
      /\ Len(accounts) \in Nat /\ MaxAccounts \in Nat
  BY AccountFacts, Bounds DEF AccountsInv, AccountsTyped
<1>2. /\ accounts' \in Seq(AccountRows(Phones)) /\ Len(accounts') = Len(accounts) + 1
      /\ \A a \in 1 .. Len(accounts) : accounts'[a] = accounts[a]
      /\ accounts'[Len(accounts) + 1] = row
  BY <1>1, AppendProperties
<1>3. /\ changes' \in Seq(Nat) /\ Len(changes') = Len(accounts) + 1
      /\ \A a \in 1 .. Len(accounts) : changes'[a] = changes[a]
      /\ changes'[Len(accounts) + 1] = 0
  BY <1>1, AppendProperties
<1>4. \A a \in 1 .. Len(accounts) : accounts[a].logins \in Nat
  BY AccountFacts DEF AccountsInv, AccountRows
<1> QED BY <1>1, <1>2, <1>3, <1>4 DEF AccountsGrow

LEMMA AccountRowChanges ==
  ASSUME AccountsInv, NEW a \in DOMAIN accounts, NEW row \in AccountRows(Phones), NEW m \in Nat,
         accounts' = [accounts EXCEPT ![a] = row], changes' = [changes EXCEPT ![a] = m],
         row.generation + changes[a] = accounts[a].generation + m, accounts[a].logins <= row.logins
  PROVE  AccountsGrow /\ Len(accounts') = Len(accounts) /\ accounts'[a] = row /\ changes'[a] = m
<1>1. /\ accounts \in Seq(AccountRows(Phones)) /\ changes \in Seq(Nat) /\ Len(changes) = Len(accounts)
      /\ Len(accounts) \in Nat /\ a \in 1 .. Len(accounts) /\ Len(accounts) <= MaxAccounts
  BY AccountFacts DEF AccountsInv, AccountsTyped
<1>2. /\ accounts' \in Seq(AccountRows(Phones)) /\ Len(accounts') = Len(accounts)
      /\ \A b \in 1 .. Len(accounts) : accounts'[b] = IF b = a THEN row ELSE accounts[b]
  BY <1>1, ExceptSeq
<1>3. /\ changes' \in Seq(Nat) /\ Len(changes') = Len(accounts)
      /\ \A b \in 1 .. Len(accounts) : changes'[b] = IF b = a THEN m ELSE changes[b]
  BY <1>1, ExceptSeq
<1>4. \A b \in 1 .. Len(accounts) : accounts[b].logins \in Nat
  BY AccountFacts DEF AccountsInv, AccountRows
<1> QED BY <1>1, <1>2, <1>3, <1>4 DEF AccountsGrow

LEMMA AccountFound == ASSUME NEW phone, AccountOf(phone) # None PROVE AccountOf(phone) \in DOMAIN accounts
BY DEF AccountOf

LEMMA SessionsEnd ==
  ASSUME AccountsInv, NEW a, RevokeSessions(a)
  PROVE  SessionsKept
<1>1. Len(sessions) \in Nat /\ DOMAIN sessions = 1 .. Len(sessions)
      /\ \A s \in 1 .. Len(sessions) : sessions[s] \in SessionRows(Nat)
  BY AccountFacts DEF AccountsInv
<1>2. sessions' = [s \in 1 .. Len(sessions) |->
        IF sessions[s].account = a THEN [sessions[s] EXCEPT !.status = "REVOKED"] ELSE sessions[s]]
  BY <1>1 DEF RevokeSessions
<1>3. ASSUME NEW s \in 1 .. Len(sessions)
      PROVE  /\ sessions'[s] \in SessionRows(Nat)
             /\ sessions'[s].account = sessions[s].account /\ sessions'[s].generation = sessions[s].generation
             /\ sessions'[s].otp = sessions[s].otp /\ sessions'[s].since = sessions[s].since
             /\ sessions'[s].sequence = sessions[s].sequence
             /\ sessions'[s].status = "LIVE" => sessions[s].status = "LIVE"
  BY <1>1, <1>2 DEF SessionRows
<1>4. sessions' \in [1 .. Len(sessions) -> SessionRows(Nat)]
  BY <1>2, <1>3
<1>5. sessions' \in Seq(SessionRows(Nat)) /\ Len(sessions') = Len(sessions)
  BY <1>1, <1>4
<1> QED BY <1>3, <1>5 DEF SessionsKept

LEMMA SessionStatus ==
  ASSUME AccountsInv, NEW s \in DOMAIN sessions, NEW status \in {"REVOKED", "EXPIRED"},
         sessions' = [sessions EXCEPT ![s].status = status]
  PROVE  SessionsKept
<1>1. sessions \in Seq(SessionRows(Nat)) /\ s \in 1 .. Len(sessions) /\ sessions[s] \in SessionRows(Nat)
  BY AccountFacts DEF AccountsInv, AccountsTyped
<1> PICK row : row = [sessions[s] EXCEPT !.status = status]
  OBVIOUS
<1>2. row \in SessionRows(Nat)
  BY <1>1 DEF SessionRows
<1>3. sessions' = [sessions EXCEPT ![s] = row]
  OBVIOUS
<1>4. /\ sessions' \in Seq(SessionRows(Nat)) /\ Len(sessions') = Len(sessions)
      /\ \A r \in 1 .. Len(sessions) : sessions'[r] = IF r = s THEN row ELSE sessions[r]
  BY <1>1, <1>2, <1>3, ExceptSeq
<1>5. /\ row.account = sessions[s].account /\ row.generation = sessions[s].generation /\ row.otp = sessions[s].otp
      /\ row.since = sessions[s].since /\ row.sequence = sessions[s].sequence /\ row.status # "LIVE"
  BY <1>1 DEF SessionRows
<1> QED BY <1>4, <1>5 DEF SessionsKept

LEMMA CodeSteps ==
  ASSUME AccountsInv, scenario \in Scenarios, scenario' = scenario,
         \/ Codes
         \/ \E c \in DOMAIN otps : WrongCode(c) \/ VerifyChallenge(c) \/ LoginUnknown(c) \/ RegisterAgain(c) \/ OtpDue(c)
  PROVE  AccountsInv'
<1>1. UNCHANGED <<accounts, sessions, logins, adminTxs, bootstrapped, changes>>
  BY DEF Codes, RequestOtp, WrongCode, VerifyChallenge, LoginUnknown, RegisterAgain, OtpDue
<1>2. AccountsGrow /\ SessionsKept /\ LoginsOpen /\ AdminsTyped'
  BY <1>1, SameAccounts, SameSessions, NoLogin, SameAdmins
<1>3. /\ Len(otps) \in Nat /\ otps \in Seq(OtpRows) /\ DOMAIN otps = 1 .. Len(otps)
      /\ \A c \in DOMAIN otps : otps[c] \in OtpRows
  BY AccountFacts DEF AccountsInv, AccountsTyped
<1>4. CodesKept
  <2>1. CASE Codes
    <3>1. PICK phone \in Phones, purpose \in Purposes : RequestOtp(phone, purpose)
      BY <2>1 DEF Codes
    <3> PICK row : row = [phone |-> phone, purpose |-> purpose, failed |-> 0, consumed |-> FALSE,
                          due |-> FALSE, used |-> FALSE]
      OBVIOUS
    <3>2. row \in OtpRows
      BY Bounds DEF OtpRows
    <3>3. otps' = Append(otps, row)
      BY <3>1 DEF RequestOtp
    <3>4. otps' \in Seq(OtpRows) /\ Len(otps') = Len(otps) + 1 /\ \A c \in 1 .. Len(otps) : otps'[c] = otps[c]
      BY <1>3, <3>2, <3>3, AppendProperties
    <3> QED BY <1>3, <3>4 DEF CodesKept
  <2>2. ASSUME NEW c \in DOMAIN otps, WrongCode(c) PROVE CodesKept
    <3> PICK row : row = [otps[c] EXCEPT !.failed = otps[c].failed + 1]
      OBVIOUS
    <3>1. ~otps[c].consumed /\ otps[c].failed < MaxAttempts /\ MaxAttempts \in Nat
      BY <2>2, Bounds DEF WrongCode, Usable
    <3>2. row \in OtpRows
      <4>1. otps[c] \in OtpRows /\ otps[c].failed \in 0 .. MaxAttempts
        BY <1>3 DEF OtpRows
      <4>2. PICK f \in 0 .. MaxAttempts : f = otps[c].failed + 1
        BY <3>1, <4>1
      <4>3. row = [otps[c] EXCEPT !.failed = f]
        BY <4>2
      <4> QED BY <4>1, <4>3 DEF OtpRows
    <3>3. otps' = [otps EXCEPT ![c] = row]
      BY <2>2 DEF WrongCode
    <3> QED BY <3>1, <3>2, <3>3, CodeChanges
  <2>3. ASSUME NEW c \in DOMAIN otps, VerifyChallenge(c) \/ LoginUnknown(c) \/ RegisterAgain(c) PROVE CodesKept
    <3>1. PICK purpose : Usable(c, purpose) /\ otps' = Consumed(c)
      BY <2>3 DEF VerifyChallenge, LoginUnknown, RegisterAgain
    <3> QED BY <3>1, CodeConsumed
  <2>4. ASSUME NEW c \in DOMAIN otps, OtpDue(c) PROVE CodesKept
    <3> PICK row : row = [otps[c] EXCEPT !.due = TRUE]
      OBVIOUS
    <3>1. row \in OtpRows /\ row.consumed = otps[c].consumed /\ row.failed = otps[c].failed
      BY <1>3 DEF OtpRows
    <3>2. otps' = [otps EXCEPT ![c] = row]
      BY <2>4 DEF OtpDue
    <3> QED BY <3>1, <3>2, CodeChanges
  <2> QED BY <2>1, <2>2, <2>3, <2>4
<1> QED BY <1>2, <1>4, Carried

LEMMA VerifyLoginStep ==
  ASSUME AccountsInv, scenario \in Scenarios, scenario' = scenario, NEW c \in DOMAIN otps, VerifyLogin(c)
  PROVE  AccountsInv'
<1>1. /\ UNCHANGED <<accounts, sessions, adminTxs, bootstrapped, changes>>
      /\ otps' = Consumed(c) /\ Usable(c, "LOGIN") /\ AccountOf(otps[c].phone) # None
  BY DEF VerifyLogin
<1>2. AccountsGrow /\ SessionsKept /\ AdminsTyped'
  BY <1>1, SameAccounts, SameSessions, SameAdmins
<1>3. CodesKept /\ Spent(c)' /\ ~Spent(c)
  BY <1>1, CodeConsumed
<1> PICK a : a = AccountOf(otps[c].phone)
  OBVIOUS
<1>4. a \in 1 .. Len(accounts) /\ accounts[a] \in AccountRows(Phones) /\ changes[a] \in Nat /\ c \in Nat
  BY <1>1, AccountFound, AccountFacts DEF AccountsInv
<1> PICK l : l = [account |-> a, generation |-> accounts[a].generation,
                  read |-> accounts[a].logins, otp |-> c, since |-> changes[a]]
  OBVIOUS
<1>5. logins' \subseteq logins \cup {l}
  BY DEF VerifyLogin
<1>6. /\ l \in LoginRows /\ l.account = a /\ l.otp = c
      /\ l.generation + changes'[a] = accounts'[a].generation + l.since
  BY <1>1, <1>4 DEF LoginRows, AccountRows
<1>7. LoginsOpen
  BY <1>1, <1>3, <1>4, <1>5, <1>6 DEF LoginsOpen
<1> QED BY <1>2, <1>3, <1>7, Carried

LEMMA LoginInvitedStep ==
  ASSUME AccountsInv, scenario \in Scenarios, scenario' = scenario, NEW c \in DOMAIN otps, LoginInvited(c)
  PROVE  AccountsInv'
<1> PICK row : row = Account(otps[c].phone, "ACCOUNTANT")
  OBVIOUS
<1> PICK n : n = Len(accounts) + 1
  OBVIOUS
<1> PICK l : l = [account |-> n, generation |-> 1, read |-> 0, otp |-> c, since |-> 0]
  OBVIOUS
<1>1. /\ UNCHANGED <<sessions, adminTxs, bootstrapped>>
      /\ otps' = Consumed(c) /\ Usable(c, "LOGIN") /\ logins' = logins \cup {l}
      /\ accounts' = Append(accounts, row) /\ changes' = Append(changes, 0) /\ Len(accounts) < MaxAccounts
  BY DEF LoginInvited, NewAccount
<1>2. row \in AccountRows(Phones) /\ row.generation = 1 /\ c \in Nat
  BY AccountFacts DEF AccountsInv, OtpRows, Account, AccountRows, Roles
<1>3. /\ AccountsGrow /\ Len(accounts) \in Nat /\ Len(accounts') = n /\ accounts'[n] = row /\ changes'[n] = 0
  BY <1>1, <1>2, AccountAdded
<1>4. SessionsKept /\ AdminsTyped' /\ CodesKept /\ Spent(c)' /\ ~Spent(c)
  BY <1>1, <1>3, SameSessions, SameAdmins, CodeConsumed
<1>5. /\ l \in LoginRows /\ l.account = n /\ l.otp = c /\ n \in 1 .. Len(accounts')
      /\ l.generation + changes'[n] = accounts'[n].generation + l.since
  BY <1>2, <1>3 DEF LoginRows
<1>6. LoginsOpen
  BY <1>1, <1>4, <1>5 DEF LoginsOpen
<1> QED BY <1>3, <1>4, <1>6, Carried

LEMMA IssueSessionStep ==
  ASSUME AccountsInv, scenario' = scenario, NEW l \in logins, IssueSession(l)
  PROVE  AccountsInv'
<1> PICK a : a = l.account
  OBVIOUS
<1>1. /\ AccountsTyped /\ InStep /\ Counted /\ CodesOnce
      /\ l \in LoginRows /\ a \in 1 .. Len(accounts) /\ accounts[a] \in AccountRows(Phones) /\ changes[a] \in Nat
      /\ a \in DOMAIN accounts
  BY AccountFacts DEF AccountsInv, AccountsTyped
<1> PICK row : row = [accounts[a] EXCEPT !.logins = accounts[a].logins + 1]
  OBVIOUS
<1>2. /\ row \in AccountRows(Phones) /\ row.generation = accounts[a].generation
      /\ row.logins = accounts[a].logins + 1 /\ accounts[a].logins \in Nat /\ accounts[a].generation \in Nat
  BY <1>1 DEF AccountRows
<1> PICK new : new = SessionRow(a, l.generation, l.otp, l.since, accounts[a].logins + 1)
  OBVIOUS
<1>3. /\ UNCHANGED <<otps, adminTxs, bootstrapped, changes>>
      /\ accounts' = [accounts EXCEPT ![a] = row] /\ sessions' = Append(sessions, new) /\ logins' = logins \ {l}
  BY DEF IssueSession
<1>4. changes' = [changes EXCEPT ![a] = changes[a]]
  <2>1. changes \in [1 .. Len(changes) -> Nat]
    BY <1>1, LenProperties DEF AccountsTyped
  <2> QED BY <1>3, <2>1
<1>5. AccountsGrow /\ Len(accounts') = Len(accounts) /\ accounts'[a] = row /\ changes'[a] = changes[a]
  <2> PICK m \in Nat : m = changes[a]
    BY <1>1
  <2>1. changes' = [changes EXCEPT ![a] = m] /\ accounts' = [accounts EXCEPT ![a] = row]
    BY <1>3, <1>4
  <2>2. row.generation + changes[a] = accounts[a].generation + m /\ accounts[a].logins <= row.logins
    BY <1>2
  <2>3. AccountsGrow /\ Len(accounts') = Len(accounts) /\ accounts'[a] = row /\ changes'[a] = m
    <3>1. a \in DOMAIN accounts /\ row \in AccountRows(Phones) /\ m \in Nat
      BY <1>1, <1>2
    <3> QED BY ONLY AccountsInv, <2>1, <2>2, <3>1, AccountRowChanges
  <2> QED BY <2>3
<1>6. CodesKept /\ AdminsTyped'
  BY <1>3, <1>5, SameCodes, SameAdmins
<1>7. /\ new \in SessionRows(Nat) /\ new.account = a /\ new.otp = l.otp /\ new.generation = l.generation
      /\ new.since = l.since /\ new.sequence = accounts[a].logins + 1
  BY <1>1, <1>2 DEF SessionRow, SessionRows, LoginRows
<1>8. SessionFits(new)
  <2>1. new.generation + changes'[a] = accounts'[a].generation + new.since
    BY <1>1, <1>2, <1>5, <1>7 DEF InStep
  <2>2. ASSUME NEW s \in DOMAIN sessions, sessions[s].account = a PROVE sessions[s].sequence # new.sequence
    <3>1. sessions[s].sequence <= accounts[a].logins /\ sessions[s].sequence \in Nat
      BY <1>1, <2>2, AccountFacts DEF Counted, SessionRows
    <3> QED BY <1>2, <1>7, <3>1
  <2>3. new.otp # 0 /\ Spent(new.otp)'
    <3> PICK c : c = l.otp
      OBVIOUS
    <3>1. Spent(c) /\ Spent(c)' /\ c # 0
      BY <1>1, <1>6, SpentStays DEF CodesOnce, Spent
    <3> QED BY <1>7, <3>1
  <2>4. \A s \in DOMAIN sessions : sessions[s].otp # new.otp
    BY <1>1, <1>7 DEF CodesOnce
  <2>5. \A k \in logins' : k.otp # new.otp
    BY <1>1, <1>3, <1>7 DEF CodesOnce
  <2>6. new.sequence <= accounts'[a].logins /\ a \in 1 .. Len(accounts')
    BY <1>1, <1>2, <1>5, <1>7
  <2> QED BY <1>7, <2>1, <2>2, <2>3, <2>4, <2>5, <2>6 DEF SessionFits
<1> QED BY <1>3, <1>5, <1>6, <1>8, SessionBegins

LEMMA RegisterStep ==
  ASSUME AccountsInv, scenario \in Scenarios, scenario' = scenario, NEW c \in DOMAIN otps, Register(c)
  PROVE  AccountsInv'
<1> PICK row : row = [Account(otps[c].phone, RoleOf(otps[c].phone)) EXCEPT !.logins = 1]
  OBVIOUS
<1> PICK n : n = Len(accounts) + 1
  OBVIOUS
<1> PICK new : new = SessionRow(n, 1, c, 0, 1)
  OBVIOUS
<1>1. /\ UNCHANGED <<logins, adminTxs, bootstrapped>>
      /\ otps' = Consumed(c) /\ Usable(c, "REGISTER") /\ sessions' = Append(sessions, new)
      /\ accounts' = Append(accounts, row) /\ changes' = Append(changes, 0) /\ Len(accounts) < MaxAccounts
  BY DEF Register, NewAccount
<1>2. row \in AccountRows(Phones) /\ row.generation = 1 /\ row.logins = 1 /\ c \in 1 .. Len(otps) /\ Len(otps) \in Nat
  BY AccountFacts DEF AccountsInv, OtpRows, Account, RoleOf, AccountRows, Roles
<1>3. AccountsGrow /\ Len(accounts) \in Nat /\ Len(accounts') = n /\ accounts'[n] = row /\ changes'[n] = 0
  BY <1>1, <1>2, AccountAdded
<1>4. AdminsTyped' /\ CodesKept /\ Spent(c)' /\ ~Spent(c)
  BY <1>1, <1>3, SameAdmins, CodeConsumed
<1>5. /\ new \in SessionRows(Nat) /\ new.account = n /\ new.otp = c /\ new.generation = 1
      /\ new.since = 0 /\ new.sequence = 1
  BY <1>2, <1>3 DEF SessionRow, SessionRows
<1>6. SessionFits(new)
  <2>1. new.generation + changes'[n] = accounts'[n].generation + new.since
    BY <1>2, <1>3, <1>5
  <2>2. new.sequence <= accounts'[n].logins /\ n \in 1 .. Len(accounts')
    BY <1>2, <1>3, <1>5
  <2>3. \A s \in DOMAIN sessions : sessions[s].account # n
    BY <1>3 DEF AccountsInv, AccountsTyped
  <2>4. new.otp # 0 /\ Spent(new.otp)'
    BY <1>2, <1>4, <1>5
  <2>5. \A s \in DOMAIN sessions : sessions[s].otp # new.otp
    BY <1>4, <1>5, <2>4 DEF AccountsInv, CodesOnce
  <2>6. \A k \in logins' : k.otp # new.otp
    BY <1>1, <1>4, <1>5 DEF AccountsInv, CodesOnce
  <2> QED BY <1>5, <2>1, <2>2, <2>3, <2>4, <2>5, <2>6 DEF SessionFits
<1> QED BY <1>1, <1>3, <1>4, <1>6, SessionBegins

LEMMA ChangePhoneStep ==
  ASSUME AccountsInv, scenario' = scenario, NEW s \in DOMAIN sessions, NEW old \in DOMAIN otps, NEW new \in DOMAIN otps,
         ChangePhone(s, old, new)
  PROVE  AccountsInv'
<1> PICK a : a = sessions[s].account
  OBVIOUS
<1>1. /\ a \in DOMAIN accounts /\ accounts[a] \in AccountRows(Phones) /\ changes[a] \in Nat
      /\ otps \in Seq(OtpRows) /\ otps[old] \in OtpRows /\ otps[new] \in OtpRows /\ Len(otps) \in Nat
      /\ DOMAIN otps = 1 .. Len(otps)
  BY AccountFacts DEF AccountsInv, AccountsTyped
<1>2. /\ UNCHANGED <<logins, adminTxs, bootstrapped>> /\ RevokeSessions(a)
      /\ accounts' = [accounts EXCEPT ![a].phone = otps[new].phone, ![a].generation = @ + 1]
      /\ otps' = [otps EXCEPT ![old].used = TRUE, ![new].used = TRUE]
      /\ changes' = [changes EXCEPT ![a] = @ + 1]
  BY DEF ChangePhone
<1> PICK row : row = [accounts[a] EXCEPT !.phone = otps[new].phone, !.generation = accounts[a].generation + 1]
  OBVIOUS
<1>3. /\ row \in AccountRows(Phones) /\ row.generation = accounts[a].generation + 1 /\ row.logins = accounts[a].logins
      /\ accounts[a].generation \in Nat /\ accounts[a].logins \in Nat
  <2>1. accounts[a].generation \in Nat /\ accounts[a].logins \in Nat /\ otps[new].phone \in Phones
    BY <1>1 DEF AccountRows, OtpRows
  <2> PICK phone \in Phones, g \in Nat : phone = otps[new].phone /\ g = accounts[a].generation + 1
    BY <2>1
  <2>2. row = [accounts[a] EXCEPT !.phone = phone, !.generation = g]
    OBVIOUS
  <2>3. row \in AccountRows(Phones) /\ row.generation = g /\ row.logins = accounts[a].logins
    BY <1>1, <2>2 DEF AccountRows
  <2> QED BY <2>1, <2>3
<1>4. accounts' = [accounts EXCEPT ![a] = row]
  BY <1>1, <1>2 DEF AccountRows
<1>5. AccountsGrow
  <2> PICK m \in Nat : m = changes[a] + 1
    BY <1>1
  <2>1. changes' = [changes EXCEPT ![a] = m]
    BY <1>2
  <2>2. row.generation + changes[a] = accounts[a].generation + m /\ accounts[a].logins <= row.logins
    <3>1. changes[a] \in Nat /\ accounts[a].generation \in Nat /\ accounts[a].logins \in Nat
      BY <1>1, <1>3
    <3>2. row.generation = accounts[a].generation + 1 /\ row.logins = accounts[a].logins
      BY <1>3
    <3> QED BY ONLY <3>1, <3>2, m = changes[a] + 1
  <2>3. a \in DOMAIN accounts /\ row \in AccountRows(Phones) /\ m \in Nat
    BY <1>1, <1>3
  <2> QED BY ONLY AccountsInv, <1>4, <2>1, <2>2, <2>3, AccountRowChanges
<1>6. CodesKept
  <2> PICK first : first = [otps[old] EXCEPT !.used = TRUE]
    OBVIOUS
  <2>1. first \in OtpRows /\ first.consumed = otps[old].consumed /\ first.failed = otps[old].failed
    BY <1>1 DEF OtpRows
  <2> PICK half : half = [otps EXCEPT ![old] = first]
    OBVIOUS
  <2>2. /\ half \in Seq(OtpRows) /\ Len(half) = Len(otps)
        /\ \A d \in 1 .. Len(otps) : half[d] = IF d = old THEN first ELSE otps[d]
    BY <1>1, <2>1, ExceptSeq
  <2> PICK second : second = [half[new] EXCEPT !.used = TRUE]
    OBVIOUS
  <2>3. half[new] \in OtpRows /\ half[new].consumed = otps[new].consumed /\ half[new].failed = otps[new].failed
    BY <1>1, <2>1, <2>2
  <2>4. second \in OtpRows /\ second.consumed = otps[new].consumed /\ second.failed = otps[new].failed
    BY <2>3 DEF OtpRows
  <2>5. otps' = [half EXCEPT ![new] = second]
    BY <1>2
  <2>6. /\ otps' \in Seq(OtpRows) /\ Len(otps') = Len(otps)
        /\ \A d \in 1 .. Len(otps) : otps'[d] = IF d = new THEN second ELSE half[d]
    <3>1. new \in 1 .. Len(half) /\ half \in Seq(OtpRows) /\ second \in OtpRows
      BY <1>1, <2>2, <2>4
    <3> QED BY ONLY <2>2, <2>5, <3>1, ExceptSeq
  <2>7. ASSUME NEW c \in 1 .. Len(otps)
        PROVE  otps'[c].consumed = otps[c].consumed /\ otps'[c].failed = otps[c].failed
    <3>1. CASE c = new
      BY <2>4, <2>6, <3>1
    <3>2. CASE c # new /\ c = old
      BY <2>1, <2>2, <2>6, <3>2
    <3>3. CASE c # new /\ c # old
      BY <2>2, <2>6, <3>3
    <3> QED BY <3>1, <3>2, <3>3
  <2> QED BY <1>1, <2>6, <2>7 DEF CodesKept
<1> QED BY <1>2, <1>5, <1>6, SessionsEnd, NoLogin, SameAdmins, Carried

LEMMA ChangedRow ==
  ASSUME NEW row \in AccountRows(Phones), NEW change \in AccountChanges
  PROVE  /\ Changed(row, change) \in AccountRows(Phones)
         /\ Changed(row, change).generation = row.generation /\ Changed(row, change).logins = row.logins
BY DEF AccountChanges, Changed, AccountRows, Roles

LEMMA CommitStep ==
  ASSUME AccountsInv, scenario' = scenario, NEW t \in adminTxs, CommitAccountChange(t)
  PROVE  AccountsInv'
<1> PICK a : a = t.target
  OBVIOUS
<1>1. /\ a \in 1 .. Len(accounts) /\ t.change \in AccountChanges /\ adminTxs \subseteq AdminTxRows /\ bootstrapped \in BOOLEAN
      /\ \A x \in adminTxs : x.target \in 1 .. Len(accounts)
  BY DEF AccountsInv, AdminsTyped, AdminTxRows
<1>2. a \in DOMAIN accounts /\ accounts[a] \in AccountRows(Phones) /\ changes[a] \in Nat
  BY <1>1, AccountFacts DEF AccountsInv
<1>3. /\ UNCHANGED <<otps, logins, bootstrapped>> /\ adminTxs' = adminTxs \ {t} /\ RevokeSessions(a)
      /\ accounts' = [accounts EXCEPT ![a] = [Changed(accounts[a], t.change) EXCEPT
                        !.generation = Changed(accounts[a], t.change).generation + 1]]
      /\ changes' = [changes EXCEPT ![a] = @ + 1]
  BY DEF CommitAccountChange
<1> PICK half : half = Changed(accounts[a], t.change)
  OBVIOUS
<1>4. half \in AccountRows(Phones) /\ half.generation = accounts[a].generation /\ half.logins = accounts[a].logins
  BY <1>1, <1>2, ChangedRow
<1> PICK row : row = [half EXCEPT !.generation = half.generation + 1]
  OBVIOUS
<1>5. /\ row \in AccountRows(Phones) /\ row.generation = accounts[a].generation + 1 /\ row.logins = accounts[a].logins
      /\ accounts[a].generation \in Nat /\ accounts[a].logins \in Nat
  BY <1>2, <1>4 DEF AccountRows
<1>6. accounts' = [accounts EXCEPT ![a] = row]
  BY <1>3
<1>7. AccountsGrow /\ Len(accounts') = Len(accounts)
  <2> PICK m \in Nat : m = changes[a] + 1
    BY <1>2
  <2>1. changes' = [changes EXCEPT ![a] = m]
    BY <1>3
  <2>2. row.generation + changes[a] = accounts[a].generation + m /\ accounts[a].logins <= row.logins
    BY <1>2, <1>5
  <2>3. a \in DOMAIN accounts /\ row \in AccountRows(Phones) /\ m \in Nat
    BY <1>2, <1>5
  <2> QED BY ONLY AccountsInv, <1>6, <2>1, <2>2, <2>3, AccountRowChanges
<1>8. AdminsTyped'
  BY <1>1, <1>3, <1>7 DEF AdminsTyped
<1> QED BY <1>3, <1>7, <1>8, SessionsEnd, SameCodes, NoLogin, Carried

LEMMA OtherAccountSteps ==
  ASSUME AccountsInv, scenario \in Scenarios, scenario' = scenario,
         \/ \E l \in logins : LoginLost(l)
         \/ \E s \in DOMAIN sessions : Logout(s) \/ SessionDue(s)
         \/ \E s \in DOMAIN sessions, a \in DOMAIN accounts, change \in AccountChanges : RequestAccountChange(s, a, change)
         \/ \E t \in adminTxs : PrepareAccountChange(t)
         \/ UNCHANGED accountVars
  PROVE  AccountsInv'
<1>1. UNCHANGED <<accounts, otps, bootstrapped, changes>> /\ logins' \subseteq logins
  BY DEF LoginLost, Logout, SessionDue, RequestAccountChange, PrepareAccountChange, accountVars
<1>2. AccountsGrow /\ CodesKept /\ LoginsOpen
  BY <1>1, SameAccounts, SameCodes, NoLogin
<1>3. SessionsKept
  <2>1. CASE UNCHANGED sessions
    BY <2>1, SameSessions
  <2>2. ASSUME NEW s \in DOMAIN sessions, Logout(s) \/ SessionDue(s) PROVE SessionsKept
    BY <2>2, SessionStatus DEF Logout, SessionDue
  <2> QED BY <2>1, <2>2 DEF LoginLost, RequestAccountChange, PrepareAccountChange, accountVars
<1>4. AdminsTyped'
  <2>1. /\ adminTxs \subseteq AdminTxRows /\ bootstrapped \in BOOLEAN
        /\ \A t \in adminTxs : t.target \in 1 .. Len(accounts)
    BY DEF AccountsInv, AdminsTyped
  <2>2. ASSUME NEW s \in DOMAIN sessions, NEW a \in DOMAIN accounts, NEW change \in AccountChanges,
               RequestAccountChange(s, a, change)
        PROVE  AdminsTyped'
    <3> PICK t : t = [actor |-> sessions[s].account, target |-> a, change |-> change, prepared |-> FALSE]
      OBVIOUS
    <3>1. t \in AdminTxRows /\ t.target \in 1 .. Len(accounts)
      BY AccountFacts DEF AccountsInv, SessionRows, AdminTxRows
    <3>2. adminTxs' = adminTxs \cup {t}
      BY <2>2 DEF RequestAccountChange
    <3> QED BY <1>1, <2>1, <3>1, <3>2 DEF AdminsTyped
  <2>3. ASSUME NEW t \in adminTxs, PrepareAccountChange(t) PROVE AdminsTyped'
    <3> PICK u : u = [t EXCEPT !.prepared = TRUE]
      OBVIOUS
    <3>1. u \in AdminTxRows /\ u.target \in 1 .. Len(accounts)
      BY <2>1 DEF AdminTxRows
    <3>2. adminTxs' \subseteq adminTxs \cup {u}
      BY <2>3 DEF PrepareAccountChange
    <3> QED BY <1>1, <2>1, <3>1, <3>2 DEF AdminsTyped
  <2>4. CASE UNCHANGED adminTxs
    BY <1>1, <2>1, <2>4 DEF AdminsTyped
  <2> QED BY <2>2, <2>3, <2>4 DEF LoginLost, Logout, SessionDue, accountVars
<1> QED BY <1>2, <1>3, <1>4, Carried

LEMMA BootstrapStep ==
  ASSUME AccountsInv, scenario \in Scenarios, scenario' = scenario, NEW phone \in Phones, BootstrapAdministrator(phone)
  PROVE  AccountsInv'
<1>1. UNCHANGED <<otps, sessions, logins, adminTxs>> /\ bootstrapped' = TRUE
  BY DEF BootstrapAdministrator
<1>2. AccountsGrow
  <2>1. CASE AccountOf(phone) = None
    <3>1. Account(phone, "ADMIN") \in AccountRows(Phones)
      BY DEF Account, AccountRows, Roles
    <3>2. accounts' = Append(accounts, Account(phone, "ADMIN")) /\ changes' = Append(changes, 0) /\ Len(accounts) < MaxAccounts
      BY <2>1 DEF BootstrapAdministrator
    <3> QED BY <3>1, <3>2, AccountAdded
  <2>2. CASE AccountOf(phone) # None
    <3> PICK a : a = AccountOf(phone)
      OBVIOUS
    <3>1. /\ a \in DOMAIN accounts /\ a \in 1 .. Len(accounts) /\ accounts[a] \in AccountRows(Phones)
          /\ changes[a] \in Nat /\ changes \in Seq(Nat) /\ Len(changes) = Len(accounts)
      BY <2>2, AccountFound, AccountFacts DEF AccountsInv, AccountsTyped
    <3> PICK row : row = [accounts[a] EXCEPT !.role = "ADMIN"]
      OBVIOUS
    <3>2. /\ row \in AccountRows(Phones) /\ row.generation = accounts[a].generation /\ row.logins = accounts[a].logins
          /\ accounts[a].generation \in Nat /\ accounts[a].logins \in Nat
      BY <3>1 DEF AccountRows, Roles
    <3>3. accounts' = [accounts EXCEPT ![a] = row] /\ changes' = changes
      BY <2>2 DEF BootstrapAdministrator
    <3> PICK m \in Nat : m = changes[a]
      BY <3>1
    <3>4. changes' = [changes EXCEPT ![a] = m]
      <4>1. changes \in [1 .. Len(changes) -> Nat]
        BY <3>1, LenProperties
      <4> QED BY <3>1, <3>3, <4>1
    <3>5. row.generation + changes[a] = accounts[a].generation + m /\ accounts[a].logins <= row.logins
      BY <3>1, <3>2
    <3>6. a \in DOMAIN accounts /\ row \in AccountRows(Phones) /\ m \in Nat
      BY <3>1, <3>2
    <3>7. accounts' = [accounts EXCEPT ![a] = row]
      BY <3>3
    <3> QED BY ONLY AccountsInv, <3>4, <3>5, <3>6, <3>7, AccountRowChanges
  <2> QED BY <2>1, <2>2
<1>3. AdminsTyped'
  <2>1. Len(accounts) \in Nat /\ Len(accounts') \in Nat /\ Len(accounts) <= Len(accounts')
    BY <1>2, LenProperties DEF AccountsInv, AccountsTyped, AccountsGrow
  <2> QED BY <1>1, <2>1 DEF AccountsInv, AdminsTyped
<1> QED BY <1>1, <1>2, <1>3, SameCodes, SameSessions, NoLogin, Carried

LEMMA MembersLeaveAccounts == EnterpriseSteps \/ CustomerSteps => UNCHANGED accountVars
<1>1. EnterpriseSteps => UNCHANGED accountVars
  BY DEF EnterpriseSteps, CreateEnterprise, UpdateProfile, AddMemberReads, AddMemberCommits,
         RemoveMemberCounts, RemoveMemberCommits
<1>2. CustomerSteps => UNCHANGED accountVars
  BY DEF CustomerSteps, InviteReads, InviteCommits, InviteAgain, AcceptInvitation
<1> QED BY <1>1, <1>2

LEMMA AccountsNext ==
  ASSUME AccountsInv, scenario \in Scenarios, [Next]_vars
  PROVE  AccountsInv'
<1>1. scenario' = scenario
  BY DEF Next, vars
<1>2. CASE Codes
  BY <1>1, <1>2, CodeSteps
<1>3. ASSUME NEW c \in DOMAIN otps,
             \/ WrongCode(c) \/ VerifyChallenge(c) \/ VerifyLogin(c) \/ LoginInvited(c) \/ LoginUnknown(c)
             \/ Register(c) \/ RegisterAgain(c)
      PROVE  AccountsInv'
  <2>1. CASE WrongCode(c) \/ VerifyChallenge(c) \/ LoginUnknown(c) \/ RegisterAgain(c)
    BY <1>1, <2>1, CodeSteps
  <2>2. CASE VerifyLogin(c)
    BY <1>1, <2>2, VerifyLoginStep
  <2>3. CASE LoginInvited(c)
    BY <1>1, <2>3, LoginInvitedStep
  <2>4. CASE Register(c)
    BY <1>1, <2>4, RegisterStep
  <2> QED BY <1>3, <2>1, <2>2, <2>3, <2>4
<1>4. CASE SessionSteps
  <2>1. ASSUME NEW l \in logins, IssueSession(l) PROVE AccountsInv'
    BY <1>1, <2>1, IssueSessionStep
  <2>2. CASE \E l \in logins : LoginLost(l)
    BY <1>1, <2>2, OtherAccountSteps
  <2>3. CASE \E s \in DOMAIN sessions : Logout(s)
    BY <1>1, <2>3, OtherAccountSteps
  <2>4. ASSUME NEW s \in DOMAIN sessions, NEW old \in DOMAIN otps, NEW new \in DOMAIN otps, ChangePhone(s, old, new)
        PROVE  AccountsInv'
    BY <1>1, <2>4, ChangePhoneStep
  <2> QED BY <1>4, <2>1, <2>2, <2>3, <2>4 DEF SessionSteps
<1>5. CASE AccountAdministration
  <2>1. CASE \E s \in DOMAIN sessions, a \in DOMAIN accounts, change \in AccountChanges : RequestAccountChange(s, a, change)
    BY <1>1, <2>1, OtherAccountSteps
  <2>2. CASE \E t \in adminTxs : PrepareAccountChange(t)
    BY <1>1, <2>2, OtherAccountSteps
  <2>3. ASSUME NEW t \in adminTxs, CommitAccountChange(t) PROVE AccountsInv'
    BY <1>1, <2>3, CommitStep
  <2>4. ASSUME NEW phone \in Phones, BootstrapAdministrator(phone) PROVE AccountsInv'
    BY <1>1, <2>4, BootstrapStep
  <2>5. \/ \E s \in DOMAIN sessions, a \in DOMAIN accounts, change \in AccountChanges : RequestAccountChange(s, a, change)
        \/ \E t \in adminTxs : PrepareAccountChange(t) \/ CommitAccountChange(t)
        \/ \E phone \in Phones : BootstrapAdministrator(phone)
    BY <1>5 DEF AccountAdministration
  <2> QED BY <2>1, <2>2, <2>3, <2>4, <2>5
<1>6. CASE Clock
  <2>1. CASE \E c \in DOMAIN otps : OtpDue(c)
    BY <1>1, <2>1, CodeSteps
  <2>2. CASE \E s \in DOMAIN sessions : SessionDue(s)
    BY <1>1, <2>2, OtherAccountSteps
  <2>3. CASE UNCHANGED accountVars
    BY <1>1, <2>3, OtherAccountSteps
  <2>4. \/ \E c \in DOMAIN otps : OtpDue(c)
        \/ \E s \in DOMAIN sessions : SessionDue(s)
        \/ UNCHANGED accountVars
    BY <1>6 DEF Clock, InvitationDue
  <2> QED BY <2>1, <2>2, <2>3, <2>4
<1>7. CASE EnterpriseSteps \/ CustomerSteps \/ UNCHANGED vars \/ UNCHANGED identityVars
  <2>1. UNCHANGED accountVars
    BY <1>7, MembersLeaveAccounts DEF vars, identityVars
  <2> QED BY <1>1, <2>1, OtherAccountSteps
<1> QED BY <1>1, <1>2, <1>3, <1>4, <1>5, <1>6, <1>7 DEF Next, IdentityStep, Verifications

LEMMA AccountsStart == Init => AccountsInv
<1> SUFFICES ASSUME Init PROVE AccountsInv
  OBVIOUS
<1> PICK s \in Scenarios : s = scenario
  BY DEF Init
<1> PICK rows, held : rows = s.seed.accounts /\ held = s.seed.sessions
  OBVIOUS
<1>1. /\ accounts = rows /\ sessions = held /\ bootstrapped = s.seed.bootstrapped
      /\ changes = [a \in DOMAIN accounts |-> 0] /\ otps = <<>> /\ logins = {} /\ adminTxs = {}
  BY DEF Init, Seed
<1>2. /\ rows \in Seq(AccountRows(Phones)) /\ Len(rows) <= MaxAccounts
      /\ held \in Seq(SessionRows(1 .. Len(rows))) /\ s.seed.bootstrapped \in BOOLEAN
  BY SeedAssumption DEF Phones, MaxAccounts
<1>3. \A i \in DOMAIN held :
        /\ held[i].otp = 0 /\ held[i].since = 0
        /\ held[i].status = "LIVE" => held[i].generation = rows[held[i].account].generation
        /\ held[i].sequence <= rows[held[i].account].logins
  BY SeedAssumption
<1>4. \A i, j \in DOMAIN held : i # j /\ held[i].account = held[j].account =>
        held[i].sequence # held[j].sequence \/ held[i].sequence = 0
  BY SeedAssumption
<1>5. /\ Len(rows) \in Nat /\ DOMAIN rows = 1 .. Len(rows) /\ Len(held) \in Nat /\ DOMAIN held = 1 .. Len(held)
      /\ \A i \in DOMAIN held : held[i] \in SessionRows(1 .. Len(rows)) /\ held[i].account \in 1 .. Len(rows)
      /\ \A a \in 1 .. Len(rows) : rows[a].generation \in Nat
  <2>1. \A a \in 1 .. Len(rows) : rows[a] \in AccountRows(Phones)
    BY <1>2, ElementOfSeq
  <2>2. Len(held) \in Nat /\ DOMAIN held = 1 .. Len(held) /\ \A i \in DOMAIN held : held[i] \in SessionRows(1 .. Len(rows))
    BY <1>2, ElementOfSeq, LenProperties
  <2>3. Len(rows) \in Nat /\ DOMAIN rows = 1 .. Len(rows)
    BY <1>2, LenProperties
  <2>4. \A i \in DOMAIN held : held[i].account \in 1 .. Len(rows)
    BY <2>2 DEF SessionRows
  <2> QED BY <2>1, <2>2, <2>3, <2>4 DEF AccountRows
<1>6. AccountsTyped
  <2>1. \A i \in DOMAIN held : held[i] \in SessionRows(Nat)
    BY <1>5 DEF SessionRows
  <2>2. held \in Seq(SessionRows(Nat))
    <3>1. held \in [1 .. Len(held) -> SessionRows(Nat)]
      BY <1>2, <1>5, <2>1, LenProperties
    <3> QED BY <1>5, <3>1
  <2>3. changes \in Seq(Nat) /\ Len(changes) = Len(accounts)
    BY <1>1, <1>5
  <2> QED BY <1>1, <1>2, <1>5, <2>2, <2>3 DEF AccountsTyped
<1>7. InStep
  <2>1. \A a \in 1 .. Len(rows) : changes[a] = 0
    BY <1>1, <1>5
  <2>2. ASSUME NEW i \in DOMAIN held, held[i].status = "LIVE"
        PROVE  held[i].generation + changes[held[i].account] = rows[held[i].account].generation + held[i].since
    BY <1>3, <1>5, <2>1, <2>2
  <2> QED BY <1>1, <2>2 DEF InStep
<1>8. Counted
  BY <1>1, <1>3, <1>4 DEF Counted, FirstLoginOnce
<1>9. CodesOnce
  BY <1>1, <1>3 DEF CodesOnce
<1>10. AdminsTyped
  BY <1>1, <1>2 DEF AdminsTyped
<1> QED BY <1>6, <1>7, <1>8, <1>9, <1>10 DEF AccountsInv

(* Every event that ends the sessions of an account (setStatus,             *)
(* setAdministrator, completePhoneChange) raises the generation that        *)
(* authenticate compares, and a login carries the generation its code was   *)
(* checked against: no interleaving lets the old credentials in.            *)
THEOREM SessionsCurrentHolds == Spec => []SessionsCurrent
<1> DEFINE Inv == AccountsInv /\ scenario \in Scenarios
<1>1. Init => Inv
  BY AccountsStart DEF Init
<1>2. Inv /\ [Next]_vars => Inv'
  BY AccountsNext DEF Next, vars
<1>3. Inv => SessionsCurrent
  <2> SUFFICES ASSUME AccountsInv, NEW s \in DOMAIN sessions, Valid(s)
               PROVE  sessions[s].since = changes[sessions[s].account]
    BY DEF SessionsCurrent
  <2> PICK a : a = sessions[s].account
    OBVIOUS
  <2>1. /\ a \in 1 .. Len(accounts) /\ accounts[a].generation \in Nat /\ changes[a] \in Nat
        /\ sessions[s].since \in Nat
    BY AccountFacts DEF AccountsInv, AccountsTyped, AccountRows, SessionRows
  <2>2. sessions[s].generation + changes[a] = accounts[a].generation + sessions[s].since
        /\ accounts[a].generation = sessions[s].generation
    BY DEF AccountsInv, InStep, Valid
  <2> QED BY <2>1, <2>2
<1> QED
  <2> HIDE DEF Inv
  <2> QED BY <1>1, <1>2, <1>3, PTL DEF Spec

-----------------------------------------------------------------------------
(* Members.                                                                 *)

(* The greatest of finitely many numbers is one of them.                    *)
LessThan == {p \in Nat \X Nat : p[1] < p[2]}
LEMMA MaxOfSome ==
  ASSUME NEW n \in Nat, NEW S \in SUBSET (0 .. n), S # {}
  PROVE  Max(S) \in S
<1> DEFINE T == {k \in Nat : n - k \in S}
<1>1. T \subseteq Nat /\ T # {}
  <2>1. PICK x : x \in S
    OBVIOUS
  <2>2. n - x \in Nat /\ n - (n - x) = x
    BY <2>1
  <2> QED BY <2>1, <2>2
<1>2. PICK k \in T : \A j \in T : <<j, k>> \notin LessThan
  <2>1. IsWellFoundedOn(LessThan, Nat)
    BY NatLessThanWellFounded DEF LessThan, OpToRel
  <2> HIDE DEF T
  <2> QED BY <1>1, <2>1, WFMin
<1>3. n - k \in S /\ k \in Nat
  OBVIOUS
<1>4. ASSUME NEW y \in S PROVE y <= n - k
  <2>1. n - y \in Nat /\ n - (n - y) = y
    OBVIOUS
  <2>2. n - y \in T
    BY <2>1
  <2>3. ~(n - y < k)
    <3> HIDE DEF T
    <3> QED BY <1>2, <1>3, <2>1, <2>2 DEF LessThan
  <2> QED BY <1>3, <2>1, <2>3
<1> QED BY <1>3, <1>4 DEF Max

MemberRowsHere == MemberRows(Enterprises, Phones, AccountIds)

LEMMA MemberFacts ==
  ASSUME MembersTyped
  PROVE  /\ Len(members) \in Nat /\ DOMAIN members = 1 .. Len(members) /\ members \in Seq(MemberRowsHere)
         /\ \A i \in 1 .. Len(members) : members[i] \in MemberRowsHere
<1>1. members \in Seq(MemberRowsHere)
  BY DEF MembersTyped, MemberRowsHere
<1> QED BY <1>1, ElementOfSeq, LenProperties

(* What an activation does to rows: pending ones of the phone change.       *)
Moved(old, new, phone) ==
  /\ new \in Seq(MemberRowsHere) /\ Len(new) = Len(old)
  /\ \A i \in 1 .. Len(old) :
       /\ new[i].enterprise = old[i].enterprise
       /\ \/ new[i].status = old[i].status
          \/ old[i].status = "PENDING" /\ old[i].phone = phone
       /\ new[i].status = "PENDING" => new[i].phone = old[i].phone

LEMMA MovedTwice ==
  ASSUME NEW phone, NEW old \in Seq(MemberRowsHere), NEW mid, NEW new, Moved(old, mid, phone), Moved(mid, new, phone)
  PROVE  Moved(old, new, phone)
<1>1. Len(old) \in Nat /\ Len(mid) = Len(old) /\ Len(new) = Len(old) /\ new \in Seq(MemberRowsHere)
  BY LenProperties DEF Moved
<1>2. ASSUME NEW i \in 1 .. Len(old)
      PROVE  /\ new[i].enterprise = old[i].enterprise
             /\ \/ new[i].status = old[i].status
                \/ old[i].status = "PENDING" /\ old[i].phone = phone
             /\ new[i].status = "PENDING" => new[i].phone = old[i].phone
  BY <1>1 DEF Moved
<1> QED BY <1>1, <1>2 DEF Moved

LEMMA MergedMoves ==
  ASSUME NEW phone, NEW a, NEW rows \in Seq(MemberRowsHere)
  PROVE  Moved(rows, Merged(rows, phone, a), phone)
<1> PICK new : new = Merged(rows, phone, a)
  OBVIOUS
<1>1. Len(rows) \in Nat /\ DOMAIN rows = 1 .. Len(rows) /\ \A i \in 1 .. Len(rows) : rows[i] \in MemberRowsHere
  BY ElementOfSeq, LenProperties
<1>2. ASSUME NEW i \in 1 .. Len(rows)
      PROVE  /\ new[i] \in MemberRowsHere /\ new[i].enterprise = rows[i].enterprise
             /\ \/ new[i].status = rows[i].status
                \/ rows[i].status = "PENDING" /\ rows[i].phone = phone
             /\ new[i].phone = rows[i].phone
  <2>1. \/ new[i] = rows[i]
        \/ rows[i].status = "PENDING" /\ rows[i].phone = phone /\ new[i] = [rows[i] EXCEPT !.status = "REVOKED"]
    BY <1>1 DEF Merged
  <2> QED BY <1>1, <2>1 DEF MemberRowsHere, MemberRows
<1>3. new \in [1 .. Len(rows) -> MemberRowsHere]
  BY <1>1, <1>2 DEF Merged
<1>4. new \in Seq(MemberRowsHere) /\ Len(new) = Len(rows)
  BY <1>1, <1>3
<1> QED BY <1>2, <1>4 DEF Moved

LEMMA JoinedMoves ==
  ASSUME NEW phone, NEW a \in AccountIds, NEW rows \in Seq(MemberRowsHere)
  PROVE  Moved(rows, Joined(rows, phone, a), phone)
<1> PICK new : new = Joined(rows, phone, a)
  OBVIOUS
<1>1. Len(rows) \in Nat /\ DOMAIN rows = 1 .. Len(rows) /\ \A i \in 1 .. Len(rows) : rows[i] \in MemberRowsHere
  BY ElementOfSeq, LenProperties
<1>2. ASSUME NEW i \in 1 .. Len(rows)
      PROVE  /\ new[i] \in MemberRowsHere /\ new[i].enterprise = rows[i].enterprise
             /\ \/ new[i].status = rows[i].status
                \/ rows[i].status = "PENDING" /\ rows[i].phone = phone
             /\ new[i].phone = rows[i].phone
  <2>1. \/ new[i] = rows[i]
        \/ /\ rows[i].status = "PENDING" /\ rows[i].phone = phone
           /\ new[i] = [rows[i] EXCEPT !.status = "ACTIVE", !.account = a]
    BY <1>1 DEF Joined
  <2> QED BY <1>1, <2>1 DEF MemberRowsHere, MemberRows
<1>3. new \in [1 .. Len(rows) -> MemberRowsHere]
  BY <1>1, <1>2 DEF Joined
<1>4. new \in Seq(MemberRowsHere) /\ Len(new) = Len(rows)
  BY <1>1, <1>3
<1> QED BY <1>2, <1>4 DEF Moved

LEMMA RebindMoves ==
  ASSUME MembersTyped, NEW phone \in Phones, NEW a
  PROVE  Moved(members, Rebind(a, phone), phone)
<1> PICK rows : rows = Merged(members, phone, a)
  OBVIOUS
<1>1. members \in Seq(MemberRowsHere) /\ Moved(members, rows, phone) /\ rows \in Seq(MemberRowsHere)
  BY MemberFacts, MergedMoves DEF Moved
<1>2. Len(rows) \in Nat /\ DOMAIN rows = 1 .. Len(rows) /\ \A i \in 1 .. Len(rows) : rows[i] \in MemberRowsHere
  BY <1>1, ElementOfSeq, LenProperties
<1> PICK new : new = Rebind(a, phone)
  OBVIOUS
<1>3. new = [i \in 1 .. Len(rows) |->
               IF rows[i].account = a /\ rows[i].status = "ACTIVE" THEN [rows[i] EXCEPT !.phone = phone] ELSE rows[i]]
  BY <1>2 DEF Rebind
<1>4. ASSUME NEW i \in 1 .. Len(rows)
      PROVE  /\ new[i] \in MemberRowsHere /\ new[i].enterprise = rows[i].enterprise
             /\ new[i].status = rows[i].status
             /\ new[i].status = "PENDING" => new[i].phone = rows[i].phone
  <2>1. \/ new[i] = rows[i]
        \/ rows[i].status = "ACTIVE" /\ new[i] = [rows[i] EXCEPT !.phone = phone]
    BY <1>3
  <2> QED BY <1>2, <2>1 DEF MemberRowsHere, MemberRows
<1>5. new \in [1 .. Len(rows) -> MemberRowsHere]
  BY <1>3, <1>4
<1>6. new \in Seq(MemberRowsHere) /\ Len(new) = Len(rows)
  BY <1>2, <1>5
<1>7. Moved(rows, new, phone)
  BY <1>4, <1>6 DEF Moved
<1> QED BY <1>1, <1>7, MovedTwice

LEMMA RowsMove ==
  ASSUME MembersInv, scenario' = scenario, UNCHANGED <<adds, removals, enterprises>>,
         NEW phone, Moved(members, members', phone), MayActivate(phone)
  PROVE  MembersInv'
<1>1. /\ Len(members) \in Nat /\ DOMAIN members = 1 .. Len(members) /\ Len(members') = Len(members)
      /\ DOMAIN members' = 1 .. Len(members) /\ members' \in Seq(MemberRowsHere)
  BY MemberFacts, LenProperties DEF MembersInv, Moved
<1>2. MembersTyped'
  BY <1>1, SameScenario DEF MembersInv, MembersTyped, MemberRowsHere, AddRows
<1>3. \A i \in 1 .. Len(members) : RowLocked(i) => members'[i].status = members[i].status
  BY <1>1 DEF Moved, MayActivate
<1>4. RowsHeld'
  <2>1. ASSUME NEW t \in adds, t.row # None PROVE members'[t.row].status = "REVOKED"
    <3>1. t.row \in 1 .. Len(members) /\ members[t.row].status = "REVOKED" /\ RowLocked(t.row)
      BY <1>1, <2>1 DEF MembersInv, MembersTyped, RowsHeld, RowLocked, None
    <3> QED BY <1>3, <3>1
  <2>2. ASSUME NEW t \in removals PROVE members'[t.row].status = IF t.active THEN "ACTIVE" ELSE "PENDING"
    <3>1. /\ t.row \in 1 .. Len(members) /\ RowLocked(t.row)
          /\ members[t.row].status = IF t.active THEN "ACTIVE" ELSE "PENDING"
      BY DEF MembersInv, MembersTyped, RowsHeld, RowLocked
    <3> QED BY <1>3, <3>1
  <2> QED BY <2>1, <2>2 DEF MembersInv, RowsHeld
<1>5. SomeoneStays'
  <2> SUFFICES ASSUME NEW e \in DOMAIN enterprises PROVE \E i \in DOMAIN members' : Staying(e, i)'
    BY DEF SomeoneStays
  <2>1. PICK i \in DOMAIN members : Staying(e, i)
    BY DEF MembersInv, SomeoneStays
  <2>2. i \in DOMAIN members' /\ members'[i].enterprise = e /\ members'[i].status = "ACTIVE"
    BY <1>1, <2>1 DEF Moved, Staying
  <2> QED BY <2>1, <2>2 DEF Staying
<1> QED BY <1>2, <1>4, <1>5 DEF MembersInv

LEMMA ActivationStep ==
  ASSUME MembersInv, scenario' = scenario, UNCHANGED <<adds, removals, enterprises>>,
         NEW phone, NEW a \in AccountIds, NEW rows \in Seq(MemberRowsHere), Moved(members, rows, phone),
         ActivatePendingRelationships(rows, phone, a), MayActivate(phone)
  PROVE  MembersInv'
<1>1. members \in Seq(MemberRowsHere)
  BY MemberFacts DEF MembersInv
<1> PICK mid : mid = Merged(rows, phone, a)
  OBVIOUS
<1>2. Moved(rows, mid, phone) /\ mid \in Seq(MemberRowsHere)
  BY MergedMoves DEF Moved
<1>3. Moved(mid, members', phone)
  BY <1>2, JoinedMoves DEF ActivatePendingRelationships
<1>4. Moved(members, members', phone)
  BY <1>1, <1>2, <1>3, MovedTwice
<1> QED BY <1>4, RowsMove

(* The account is new, or known to have the phone from now on.              *)
LEMMA AccountMoves ==
  ASSUME MembersInv, AccountsInv, scenario \in Scenarios, scenario' = scenario,
         \/ \E c \in DOMAIN otps : LoginInvited(c) \/ Register(c)
         \/ \E s \in DOMAIN sessions, old, new \in DOMAIN otps : ChangePhone(s, old, new)
  PROVE  MembersInv'
<1>1. MaxAccounts \in Nat /\ Len(accounts) \in Nat /\ Len(accounts) <= MaxAccounts
  BY Bounds, AccountFacts DEF AccountsInv, AccountsTyped
<1>2. members \in Seq(MemberRowsHere)
  BY MemberFacts DEF MembersInv
<1>3. ASSUME NEW phone, NewAccount(phone) PROVE MembersInv'
  <2>1. Len(accounts) + 1 \in AccountIds
    BY <1>1, <1>3 DEF NewAccount, AccountIds
  <2>2. Moved(members, members, phone)
    BY <1>2 DEF Moved
  <2>3. /\ UNCHANGED <<adds, removals, enterprises>> /\ MayActivate(phone)
        /\ ActivatePendingRelationships(members, phone, Len(accounts) + 1)
    BY <1>3 DEF NewAccount
  <2> PICK a \in AccountIds : a = Len(accounts) + 1
    BY <2>1
  <2> QED BY <1>2, <2>2, <2>3, ActivationStep
<1>4. ASSUME NEW s \in DOMAIN sessions, NEW old \in DOMAIN otps, NEW new \in DOMAIN otps, ChangePhone(s, old, new)
      PROVE  MembersInv'
  <2> PICK a, phone : a = sessions[s].account /\ phone = otps[new].phone
    OBVIOUS
  <2>1. a \in AccountIds /\ phone \in Phones
    <3>1. a \in 1 .. Len(accounts) /\ otps[new] \in OtpRows
      BY AccountFacts DEF AccountsInv, AccountsTyped
    <3> QED BY <1>1, <3>1 DEF AccountIds, OtpRows
  <2>2. /\ UNCHANGED <<adds, removals, enterprises>> /\ MayActivate(phone)
        /\ ActivatePendingRelationships(Rebind(a, phone), phone, a)
    BY <1>4 DEF ChangePhone
  <2>3. Moved(members, Rebind(a, phone), phone)
    BY <2>1, RebindMoves DEF MembersInv
  <2>4. Rebind(a, phone) \in Seq(MemberRowsHere)
    BY <2>3 DEF Moved
  <2> QED BY <2>1, <2>2, <2>3, <2>4, ActivationStep
<1> QED BY <1>3, <1>4 DEF LoginInvited, Register

LEMMA CreateEnterpriseStep ==
  ASSUME MembersInv, AccountsInv, scenario \in Scenarios, scenario' = scenario, NEW actor \in Actors, NEW e \in Enterprises,
         CreateEnterprise(actor, e)
  PROVE  MembersInv'
<1>1. Len(members) \in Nat /\ DOMAIN members = 1 .. Len(members) /\ members \in Seq(MemberRowsHere)
  BY MemberFacts DEF MembersInv
<1>2. actor.account \in 1 .. Len(accounts) /\ actor.account \in AccountIds /\ accounts[actor.account].phone \in Phones
  <2>1. PICK s \in DOMAIN sessions : actor = Actor(s)
    BY DEF Actors
  <2>2. actor.account = sessions[s].account
    BY <2>1 DEF Actor
  <2>3. actor.account \in 1 .. Len(accounts)
    BY <2>2 DEF AccountsInv, AccountsTyped
  <2>4. MaxAccounts \in Nat /\ Len(accounts) \in Nat /\ Len(accounts) <= MaxAccounts
    BY Bounds, AccountFacts DEF AccountsInv, AccountsTyped
  <2>5. accounts[actor.account] \in AccountRows(Phones)
    BY <2>3, AccountFacts DEF AccountsInv
  <2> QED BY <2>3, <2>4, <2>5 DEF AccountRows, AccountIds
<1> PICK row : row = [enterprise |-> e, phone |-> accounts[actor.account].phone,
                      account |-> actor.account, status |-> "ACTIVE"]
  OBVIOUS
<1>3. row \in MemberRowsHere /\ row.enterprise = e /\ row.status = "ACTIVE"
  BY <1>2 DEF MemberRowsHere, MemberRows
<1>4. /\ members' = Append(members, row) /\ UNCHANGED <<adds, removals>>
      /\ DOMAIN enterprises' = DOMAIN enterprises \cup {e}
  BY DEF CreateEnterprise
<1>5. /\ members' \in Seq(MemberRowsHere) /\ Len(members') = Len(members) + 1
      /\ \A i \in 1 .. Len(members) : members'[i] = members[i]
      /\ members'[Len(members) + 1] = row /\ DOMAIN members' = 1 .. Len(members) + 1
  BY <1>1, <1>3, <1>4, AppendProperties, LenProperties
<1>6. MembersTyped'
  <2>1. DOMAIN enterprises' \subseteq Enterprises
    BY <1>4 DEF MembersInv, MembersTyped
  <2>2. /\ adds \subseteq AddRows /\ \A t \in adds : t.row \in 0 .. Len(members) + 1
        /\ removals \subseteq RemovalRows /\ \A t \in removals : t.row \in 1 .. Len(members) + 1
    BY <1>1 DEF MembersInv, MembersTyped
  <2> QED BY <1>4, <1>5, <2>1, <2>2, SameScenario DEF MembersTyped, MemberRowsHere, AddRows
<1>7. RowsHeld'
  <2>1. \A t \in adds : t.row # None => t.row \in 1 .. Len(members)
    BY <1>1 DEF MembersInv, MembersTyped, None
  <2>2. \A t \in removals : t.row \in 1 .. Len(members)
    BY DEF MembersInv, MembersTyped
  <2> QED BY <1>4, <1>5, <2>1, <2>2 DEF MembersInv, RowsHeld
<1>8. SomeoneStays'
  <2> SUFFICES ASSUME NEW x \in DOMAIN enterprises' PROVE \E i \in DOMAIN members' : Staying(x, i)'
    BY DEF SomeoneStays
  <2>1. CASE x = e
    <3> PICK n : n = Len(members) + 1
      OBVIOUS
    <3>1. n \in DOMAIN members' /\ members'[n] = row /\ \A t \in removals : t.row # n
      BY <1>1, <1>5 DEF MembersInv, MembersTyped
    <3>2. Staying(x, n)'
      BY <1>3, <1>4, <2>1, <3>1 DEF Staying
    <3> QED BY <3>1, <3>2
  <2>2. CASE x # e
    <3>1. x \in DOMAIN enterprises
      BY <1>4, <2>2
    <3>2. PICK i \in DOMAIN members : Staying(x, i)
      BY <3>1 DEF MembersInv, SomeoneStays
    <3>3. i \in DOMAIN members' /\ members'[i] = members[i]
      BY <1>1, <1>5
    <3>4. Staying(x, i)'
      BY <1>4, <3>2, <3>3 DEF Staying
    <3> QED BY <3>3, <3>4
  <2> QED BY <2>1, <2>2
<1> QED BY <1>6, <1>7, <1>8 DEF MembersInv

LEMMA AddMemberReadsStep ==
  ASSUME MembersInv, AccountsInv, scenario \in Scenarios, scenario' = scenario, NEW actor, NEW e \in Enterprises,
         NEW phone \in Phones, AddMemberReads(actor, e, phone)
  PROVE  MembersInv'
<1>1. Len(members) \in Nat /\ DOMAIN members = 1 .. Len(members)
  BY MemberFacts DEF MembersInv
<1> PICK row : row = Latest(e, phone)
  OBVIOUS
<1> PICK t : t = [enterprise |-> e, phone |-> phone, row |-> row, account |-> AccountOf(phone)]
  OBVIOUS
<1>2. /\ UNCHANGED <<enterprises, members, removals>> /\ adds' = adds \cup {t}
      /\ row # None => ~RowLocked(row) /\ members[row].status = "REVOKED"
  BY DEF AddMemberReads
<1>3. row \in 0 .. Len(members)
  <2>1. CASE RowsOf(e, phone) = {}
    BY <1>1, <2>1 DEF Latest, None
  <2>2. CASE RowsOf(e, phone) # {}
    <3>1. RowsOf(e, phone) \subseteq 0 .. Len(members)
      BY <1>1 DEF RowsOf
    <3>2. Max(RowsOf(e, phone)) \in RowsOf(e, phone)
      BY <1>1, <2>2, <3>1, MaxOfSome
    <3> QED BY <2>2, <3>1, <3>2 DEF Latest
  <2> QED BY <2>1, <2>2
<1>4. AccountOf(phone) \in AccountIds
  <2>1. MaxAccounts \in Nat /\ Len(accounts) \in Nat /\ Len(accounts) <= MaxAccounts /\ DOMAIN accounts = 1 .. Len(accounts)
    BY Bounds, AccountFacts DEF AccountsInv, AccountsTyped
  <2>2. AccountOf(phone) = None \/ AccountOf(phone) \in DOMAIN accounts
    BY AccountFound
  <2> QED BY <2>1, <2>2 DEF AccountIds, None
<1>5. t \in AddRows /\ t.row = row
  BY <1>1, <1>3, <1>4 DEF AddRows
<1>6. MembersTyped'
  BY <1>2, <1>3, <1>5, SameScenario DEF MembersInv, MembersTyped, AddRows
<1>7. RowsHeld'
  <2>1. row # None => \A u \in adds : u.row # row
    BY <1>2 DEF RowLocked
  <2>2. \A u, v \in adds' : u.row # None /\ u.row = v.row => u = v
    BY <1>2, <1>5, <2>1 DEF MembersInv, RowsHeld
  <2>3. \A u \in adds' : u.row # None => members[u.row].status = "REVOKED"
    BY <1>2, <1>5 DEF MembersInv, RowsHeld
  <2> QED BY <1>2, <2>2, <2>3 DEF MembersInv, RowsHeld
<1>8. SomeoneStays'
  BY <1>2 DEF MembersInv, SomeoneStays, Staying
<1> QED BY <1>6, <1>7, <1>8 DEF MembersInv

(* A new row, or one that was revoked and locked since.                     *)
LEMMA AddMemberCommitsStep ==
  ASSUME MembersInv, scenario' = scenario, NEW t \in adds, AddMemberCommits(t)
  PROVE  MembersInv'
<1>1. Len(members) \in Nat /\ DOMAIN members = 1 .. Len(members) /\ members \in Seq(MemberRowsHere)
      /\ \A i \in 1 .. Len(members) : members[i] \in MemberRowsHere
  BY MemberFacts DEF MembersInv
<1>2. /\ UNCHANGED <<enterprises, removals>> /\ adds' = adds \ {t}
      /\ members' = members \/ members' = Added(t)
  BY DEF AddMemberCommits
<1>3. /\ t \in AddRows /\ t.row \in 0 .. Len(members) /\ adds \subseteq AddRows /\ removals \subseteq RemovalRows
      /\ t.row # None => members[t.row].status = "REVOKED"
  BY DEF MembersInv, MembersTyped, RowsHeld
<1>4. /\ members' \in Seq(MemberRowsHere) /\ Len(members') \in Nat /\ Len(members) <= Len(members')
      /\ \A i \in 1 .. Len(members) : i # t.row => members'[i] = members[i]
  <2> PICK status \in {"PENDING", "ACTIVE"} : status = IF t.account = None THEN "PENDING" ELSE "ACTIVE"
    OBVIOUS
  <2>1. CASE members' = members
    BY <1>1, <2>1
  <2>2. CASE members' = Added(t) /\ t.row = None
    <3> PICK row : row = [enterprise |-> t.enterprise, phone |-> t.phone, account |-> t.account, status |-> status]
      OBVIOUS
    <3>1. row \in MemberRowsHere
      BY <1>3 DEF AddRows, MemberRowsHere, MemberRows
    <3>2. members' = Append(members, row)
      BY <2>2 DEF Added
    <3>3. /\ members' \in Seq(MemberRowsHere) /\ Len(members') = Len(members) + 1
          /\ \A i \in 1 .. Len(members) : members'[i] = members[i]
      BY <1>1, <3>1, <3>2, AppendProperties
    <3> QED BY <1>1, <3>3
  <2>3. CASE members' = Added(t) /\ t.row # None
    <3>1. t.row \in 1 .. Len(members)
      BY <1>1, <1>3, <2>3 DEF None
    <3> PICK row : row = [members[t.row] EXCEPT !.status = status, !.account = t.account]
      OBVIOUS
    <3>2. row \in MemberRowsHere
      BY <1>1, <1>3, <3>1 DEF AddRows, MemberRowsHere, MemberRows
    <3>3. members' = [members EXCEPT ![t.row] = row]
      <4>1. members' = [members EXCEPT ![t.row].status = status, ![t.row].account = t.account]
        BY <2>3 DEF Added
      <4> QED BY <1>1, <3>1, <4>1 DEF MemberRowsHere, MemberRows
    <3>4. /\ members' \in Seq(MemberRowsHere) /\ Len(members') = Len(members)
          /\ \A i \in 1 .. Len(members) : members'[i] = IF i = t.row THEN row ELSE members[i]
      BY <1>1, <3>1, <3>2, <3>3, ExceptSeq
    <3> QED BY <1>1, <3>4
  <2> QED BY <1>2, <2>1, <2>2, <2>3
<1>5. DOMAIN members' = 1 .. Len(members')
  BY <1>4, LenProperties
<1>6. MembersTyped'
  <2>1. /\ \A u \in adds' : u \in AddRows /\ u.row \in 0 .. Len(members')
        /\ \A u \in removals : u.row \in 1 .. Len(members')
    BY <1>1, <1>2, <1>4 DEF MembersInv, MembersTyped
  <2> QED BY <1>2, <1>3, <1>4, <2>1, SameScenario DEF MembersInv, MembersTyped, MemberRowsHere, AddRows
<1>7. RowsHeld'
  <2>1. ASSUME NEW u \in adds', u.row # None PROVE members'[u.row].status = "REVOKED"
    <3>1. u \in adds /\ u # t /\ members[u.row].status = "REVOKED" /\ u.row \in 1 .. Len(members)
      BY <1>1, <1>2, <2>1 DEF MembersInv, MembersTyped, RowsHeld, None
    <3>2. u.row # t.row
      BY <2>1, <3>1 DEF MembersInv, RowsHeld
    <3> QED BY <1>4, <3>1, <3>2
  <2>2. ASSUME NEW u \in removals PROVE members'[u.row].status = IF u.active THEN "ACTIVE" ELSE "PENDING"
    <3>1. /\ members[u.row].status = IF u.active THEN "ACTIVE" ELSE "PENDING"
          /\ u.row \in 1 .. Len(members)
      BY DEF MembersInv, MembersTyped, RowsHeld
    <3>2. u.row # t.row
      BY <1>1, <1>3, <3>1 DEF None
    <3> QED BY <1>4, <3>1, <3>2
  <2>3. \A u, v \in adds' : u.row # None /\ u.row = v.row => u = v
    BY <1>2 DEF MembersInv, RowsHeld
  <2> QED BY <1>2, <2>1, <2>2, <2>3 DEF RowsHeld
<1>8. SomeoneStays'
  <2> SUFFICES ASSUME NEW e \in DOMAIN enterprises PROVE \E i \in DOMAIN members' : Staying(e, i)'
    BY <1>2 DEF SomeoneStays
  <2>1. PICK i \in DOMAIN members : Staying(e, i)
    BY DEF MembersInv, SomeoneStays
  <2>2. i # t.row
    BY <1>1, <1>3, <2>1 DEF Staying, None
  <2>3. i \in DOMAIN members' /\ members'[i] = members[i]
    BY <1>1, <1>4, <1>5, <2>2
  <2>4. Staying(e, i)'
    BY <1>2, <2>1, <2>3 DEF Staying
  <2> QED BY <2>3, <2>4
<1> QED BY <1>6, <1>7, <1>8 DEF MembersInv

(* Whoever counts two members or more leaves one, unless another removal    *)
(* has counted in the same enterprise.                                      *)
LEMMA RemoveMemberCountsStep ==
  ASSUME MembersInv, scenario' = scenario, NEW actor, NEW i \in DOMAIN members, RemoveMemberCounts(actor, i)
  PROVE  MembersInv'
<1>1. Len(members) \in Nat /\ DOMAIN members = 1 .. Len(members) /\ members[i] \in MemberRowsHere
  BY MemberFacts DEF MembersInv
<1> PICK r : r = [row |-> i, active |-> members[i].status = "ACTIVE"]
  OBVIOUS
<1>2. /\ UNCHANGED <<enterprises, members, adds>> /\ removals' = removals \cup {r}
      /\ members[i].status \in {"PENDING", "ACTIVE"}
      /\ members[i].status = "ACTIVE" =>
           /\ ~\E t \in removals : t.active /\ members[t.row].enterprise = members[i].enterprise
           /\ Cardinality(ActiveMembers(members, members[i].enterprise)) > 1
  BY DEF RemoveMemberCounts, Live
<1>3. r \in RemovalRows /\ r.row = i
  BY <1>1 DEF RemovalRows
<1>4. r.active <=> members[i].status = "ACTIVE"
  OBVIOUS
<1>5. MembersTyped'
  BY <1>1, <1>2, <1>3, SameScenario DEF MembersInv, MembersTyped, AddRows
<1>6. RowsHeld'
  <2>1. members[r.row].status = IF r.active THEN "ACTIVE" ELSE "PENDING"
    BY <1>2, <1>3, <1>4
  <2> QED BY <1>2, <2>1 DEF MembersInv, RowsHeld
<1>7. SomeoneStays'
  <2> SUFFICES ASSUME NEW e \in DOMAIN enterprises PROVE \E j \in DOMAIN members : Staying(e, j)'
    BY <1>2 DEF SomeoneStays
  <2>1. PICK k \in DOMAIN members : Staying(e, k)
    BY DEF MembersInv, SomeoneStays
  <2>2. CASE k # i
    <3>1. Staying(e, k)'
      BY <1>2, <1>3, <2>1, <2>2 DEF Staying
    <3> QED BY <3>1
  <2>3. CASE k = i
    <3>1. members[i].enterprise = e /\ members[i].status = "ACTIVE"
      BY <2>1, <2>3 DEF Staying
    <3> PICK A : A = ActiveMembers(members, e)
      OBVIOUS
    <3>2. A \subseteq DOMAIN members /\ i \in A /\ Cardinality(A) > 1
      BY <1>2, <3>1 DEF ActiveMembers
    <3>3. PICK j \in A : j # i
      <4>1. Cardinality({i}) = 1
        BY FS_Singleton
      <4>2. A # {i}
        BY <3>2, <4>1
      <4> QED BY <3>2, <4>2
    <3>4. j \in DOMAIN members /\ members[j].enterprise = e /\ members[j].status = "ACTIVE"
      BY <3>2 DEF ActiveMembers
    <3>5. \A t \in removals : t.row # j
      BY <1>2, <3>1, <3>4 DEF MembersInv, RowsHeld
    <3>6. Staying(e, j)'
      BY <1>2, <1>3, <3>3, <3>4, <3>5 DEF Staying
    <3> QED BY <3>4, <3>6
  <2> QED BY <2>2, <2>3
<1> QED BY <1>5, <1>6, <1>7 DEF MembersInv

LEMMA RemoveMemberCommitsStep ==
  ASSUME MembersInv, scenario' = scenario, NEW t \in removals, RemoveMemberCommits(t)
  PROVE  MembersInv'
<1>1. /\ Len(members) \in Nat /\ DOMAIN members = 1 .. Len(members) /\ members \in Seq(MemberRowsHere)
      /\ t.row \in 1 .. Len(members) /\ members[t.row] \in MemberRowsHere
      /\ members[t.row].status = IF t.active THEN "ACTIVE" ELSE "PENDING"
      /\ removals \subseteq RemovalRows /\ t \in RemovalRows
  BY MemberFacts DEF MembersInv, MembersTyped, RowsHeld
<1> PICK row : row = [members[t.row] EXCEPT !.status = "REVOKED"]
  OBVIOUS
<1>2. row \in MemberRowsHere
  BY <1>1 DEF MemberRowsHere, MemberRows
<1>3. UNCHANGED <<enterprises, adds>> /\ removals' = removals \ {t} /\ members' = [members EXCEPT ![t.row] = row]
  BY DEF RemoveMemberCommits
<1>4. /\ members' \in Seq(MemberRowsHere) /\ Len(members') = Len(members) /\ DOMAIN members' = DOMAIN members
      /\ \A i \in 1 .. Len(members) : i # t.row => members'[i] = members[i]
  BY <1>1, <1>2, <1>3, ExceptSeq
<1>5. MembersTyped'
  BY <1>3, <1>4, SameScenario DEF MembersInv, MembersTyped, MemberRowsHere, AddRows
<1>6. RowsHeld'
  <2>1. ASSUME NEW u \in adds, u.row # None PROVE members'[u.row].status = "REVOKED"
    <3>1. u.row \in 1 .. Len(members) /\ members[u.row].status = "REVOKED"
      BY <1>1, <2>1 DEF MembersInv, MembersTyped, RowsHeld, None
    <3>2. u.row # t.row
      BY <1>1, <3>1
    <3> QED BY <1>4, <3>1, <3>2
  <2>2. ASSUME NEW u \in removals, u # t PROVE members'[u.row].status = IF u.active THEN "ACTIVE" ELSE "PENDING"
    <3>1. /\ u.row \in 1 .. Len(members) /\ u \in RemovalRows
          /\ members[u.row].status = IF u.active THEN "ACTIVE" ELSE "PENDING"
      BY DEF MembersInv, MembersTyped, RowsHeld
    <3>2. u.row # t.row
      BY <1>1, <2>2, <3>1 DEF RemovalRows
    <3> QED BY <1>4, <3>1, <3>2
  <2> QED BY <1>3, <2>1, <2>2 DEF MembersInv, RowsHeld
<1>7. SomeoneStays'
  <2> SUFFICES ASSUME NEW e \in DOMAIN enterprises PROVE \E i \in DOMAIN members' : Staying(e, i)'
    BY <1>3 DEF SomeoneStays
  <2>1. PICK i \in DOMAIN members : Staying(e, i)
    BY DEF MembersInv, SomeoneStays
  <2>2. i # t.row
    BY <2>1 DEF Staying
  <2>3. i \in DOMAIN members' /\ members'[i] = members[i]
    BY <1>1, <1>4, <2>2
  <2>4. Staying(e, i)'
    BY <1>3, <2>1, <2>3 DEF Staying
  <2> QED BY <2>3, <2>4
<1> QED BY <1>5, <1>6, <1>7 DEF MembersInv

LEMMA MembersStay ==
  ASSUME MembersInv, scenario' = scenario, UNCHANGED <<members, adds, removals>>,
         DOMAIN enterprises' = DOMAIN enterprises
  PROVE  MembersInv'
<1>1. MembersTyped'
  BY SameScenario DEF MembersInv, MembersTyped, AddRows
<1>2. RowsHeld' /\ SomeoneStays'
  BY DEF MembersInv, RowsHeld, SomeoneStays, Staying
<1> QED BY <1>1, <1>2 DEF MembersInv

(* The steps that touch the rows of enterprises.                            *)
LEMMA StepsOfMembers ==
  ASSUME [Next]_vars
  PROVE  \/ UNCHANGED enterpriseVars \/ EnterpriseSteps
         \/ \E c \in DOMAIN otps : LoginInvited(c) \/ Register(c)
         \/ \E s \in DOMAIN sessions, old, new \in DOMAIN otps : ChangePhone(s, old, new)
<1>1. CASE Codes
  BY <1>1 DEF Codes, RequestOtp
<1>2. CASE Verifications
  BY <1>2 DEF Verifications, WrongCode, VerifyChallenge, VerifyLogin, LoginUnknown, RegisterAgain
<1>3. CASE SessionSteps
  BY <1>3 DEF SessionSteps, IssueSession, LoginLost, Logout
<1>4. CASE AccountAdministration
  BY <1>4 DEF AccountAdministration, RequestAccountChange, PrepareAccountChange, CommitAccountChange,
              BootstrapAdministrator
<1>5. CASE CustomerSteps
  BY <1>5 DEF CustomerSteps, InviteReads, InviteCommits, InviteAgain, AcceptInvitation
<1>6. CASE Clock
  BY <1>6 DEF Clock, OtpDue, SessionDue, InvitationDue
<1>7. CASE UNCHANGED vars \/ UNCHANGED identityVars
  BY <1>7 DEF vars, identityVars
<1> QED BY <1>1, <1>2, <1>3, <1>4, <1>5, <1>6, <1>7 DEF Next, IdentityStep

LEMMA MembersNext ==
  ASSUME MembersInv, AccountsInv, scenario \in Scenarios, [Next]_vars
  PROVE  MembersInv'
<1>1. scenario' = scenario
  BY DEF Next, vars
<1>2. CASE UNCHANGED enterpriseVars
  <2>1. UNCHANGED <<members, adds, removals>> /\ DOMAIN enterprises' = DOMAIN enterprises
    BY <1>2 DEF enterpriseVars
  <2> QED BY <1>1, <2>1, MembersStay
<1>3. CASE \/ \E c \in DOMAIN otps : LoginInvited(c) \/ Register(c)
           \/ \E s \in DOMAIN sessions, old, new \in DOMAIN otps : ChangePhone(s, old, new)
  BY <1>1, <1>3, AccountMoves
<1>4. CASE EnterpriseSteps
  <2>1. ASSUME NEW actor \in Actors, NEW e \in Enterprises, CreateEnterprise(actor, e) PROVE MembersInv'
    BY <1>1, <2>1, CreateEnterpriseStep
  <2>2. ASSUME NEW actor \in Actors, NEW e \in Enterprises, UpdateProfile(actor, e) PROVE MembersInv'
    <3>1. UNCHANGED <<members, adds, removals>> /\ DOMAIN enterprises' = DOMAIN enterprises
      BY <2>2 DEF UpdateProfile
    <3> QED BY <1>1, <3>1, MembersStay
  <2>3. ASSUME NEW actor \in Actors, NEW e \in Enterprises, NEW phone \in Phones, AddMemberReads(actor, e, phone)
        PROVE  MembersInv'
    BY <1>1, <2>3, AddMemberReadsStep
  <2>4. ASSUME NEW t \in adds, AddMemberCommits(t) PROVE MembersInv'
    BY <1>1, <2>4, AddMemberCommitsStep
  <2>5. ASSUME NEW actor \in Actors, NEW i \in DOMAIN members, RemoveMemberCounts(actor, i) PROVE MembersInv'
    BY <1>1, <2>5, RemoveMemberCountsStep
  <2>6. ASSUME NEW t \in removals, RemoveMemberCommits(t) PROVE MembersInv'
    BY <1>1, <2>6, RemoveMemberCommitsStep
  <2> QED BY <1>4, <2>1, <2>2, <2>3, <2>4, <2>5, <2>6 DEF EnterpriseSteps
<1>5. \/ UNCHANGED enterpriseVars \/ EnterpriseSteps
      \/ \E c \in DOMAIN otps : LoginInvited(c) \/ Register(c)
      \/ \E s \in DOMAIN sessions, old, new \in DOMAIN otps : ChangePhone(s, old, new)
  BY StepsOfMembers
<1> QED BY <1>2, <1>3, <1>4, <1>5

LEMMA MembersStart == Init => MembersInv
<1> SUFFICES ASSUME Init PROVE MembersInv
  OBVIOUS
<1>1. PICK s \in Scenarios : s = scenario
  BY DEF Init
<1>2. members = s.seed.members /\ enterprises = s.seed.enterprises /\ adds = {} /\ removals = {}
  BY <1>1 DEF Init, Seed
<1>3. /\ s.seed.members \in Seq(MemberRows(s.enterprises, s.phones, 0 .. s.maxAccounts))
      /\ DOMAIN s.seed.enterprises \subseteq s.enterprises
      /\ \A e \in DOMAIN s.seed.enterprises :
           \E i \in DOMAIN s.seed.members : s.seed.members[i].enterprise = e /\ s.seed.members[i].status = "ACTIVE"
  BY SeedAssumption
<1>4. MembersTyped
  BY <1>1, <1>2, <1>3 DEF MembersTyped, Enterprises, Phones, AccountIds, MaxAccounts
<1>5. RowsHeld /\ SomeoneStays
  BY <1>2, <1>3 DEF RowsHeld, SomeoneStays, Staying
<1> QED BY <1>4, <1>5 DEF MembersInv

(* removeMember counts the active members under a lock of the enterprise:   *)
(* however removals, additions, registrations and phone changes overlap, a  *)
(* member remains.                                                          *)
THEOREM MembersRemainHolds == Spec => []MembersRemain
<1> DEFINE Inv == AccountsInv /\ MembersInv /\ scenario \in Scenarios
<1>1. Init => Inv
  BY AccountsStart, MembersStart DEF Init
<1>2. Inv /\ [Next]_vars => Inv'
  BY AccountsNext, MembersNext DEF Next, vars
<1>3. Inv => MembersRemain
  BY DEF MembersInv, SomeoneStays, Staying, MembersRemain, ActiveMembers
<1> QED
  <2> HIDE DEF Inv
  <2> QED BY <1>1, <1>2, <1>3, PTL DEF Spec

-----------------------------------------------------------------------------
(* Customers.                                                               *)

LEMMA InvitationFacts ==
  ASSUME CustomersTyped
  PROVE  /\ Len(invitations) \in Nat /\ DOMAIN invitations = 1 .. Len(invitations)
         /\ \A i \in 1 .. Len(invitations) : invitations[i] \in InvitationRows
BY ElementOfSeq, LenProperties DEF CustomersTyped

LEMMA InvitationChanges ==
  ASSUME CustomersTyped, NEW i \in DOMAIN invitations, NEW row \in InvitationRows
  PROVE  [invitations EXCEPT ![i] = row] \in Seq(InvitationRows)
BY InvitationFacts, ExceptSeq DEF CustomersTyped

LEMMA InvitationsAccepted ==
  ASSUME CustomersTyped, NEW rows, NEW phone, NEW a \in AccountIds, ActivatePendingRelationships(rows, phone, a)
  PROVE  invitations' \in Seq(InvitationRows) /\ grants' \subseteq Shops \X AccountIds
<1>1. /\ Len(invitations) \in Nat /\ DOMAIN invitations = 1 .. Len(invitations)
      /\ \A i \in 1 .. Len(invitations) : invitations[i] \in InvitationRows
  BY InvitationFacts
<1>2. invitations' = [i \in 1 .. Len(invitations) |->
        IF Outstanding(i, phone) THEN [invitations[i] EXCEPT !.status = "ACTIVE"] ELSE invitations[i]]
  BY <1>1 DEF ActivatePendingRelationships
<1>3. \A i \in 1 .. Len(invitations) : [invitations[i] EXCEPT !.status = "ACTIVE"] \in InvitationRows
  BY <1>1 DEF InvitationRows
<1>4. invitations' \in [1 .. Len(invitations) -> InvitationRows]
  BY <1>1, <1>2, <1>3
<1>5. invitations' \in Seq(InvitationRows)
  BY <1>1, <1>4
<1>6. \A i \in DOMAIN invitations : invitations[i].shop \in Shops
  BY <1>1 DEF InvitationRows
<1> QED BY <1>5, <1>6 DEF ActivatePendingRelationships, CustomersTyped

LEMMA KnownAccount ==
  ASSUME AccountsInv, scenario \in Scenarios, NEW phone
  PROVE  /\ DOMAIN accounts \subseteq AccountIds /\ AccountOf(phone) \in AccountIds
         /\ Len(accounts) \in Nat /\ (Len(accounts) < MaxAccounts => Len(accounts) + 1 \in AccountIds)
<1>1. MaxAccounts \in Nat /\ Len(accounts) \in Nat /\ Len(accounts) <= MaxAccounts /\ DOMAIN accounts = 1 .. Len(accounts)
  BY Bounds, AccountFacts DEF AccountsInv, AccountsTyped
<1>2. AccountOf(phone) = None \/ AccountOf(phone) \in DOMAIN accounts
  BY AccountFound
<1> QED BY <1>1, <1>2 DEF AccountIds, None

LEMMA CustomersNext ==
  ASSUME CustomersTyped, AccountsInv, scenario \in Scenarios, [Next]_vars
  PROVE  CustomersTyped'
<1>1. scenario' = scenario
  BY DEF Next, vars
<1>2. InvitationRows' = InvitationRows /\ InviteRows' = InviteRows /\ Shops' = Shops /\ AccountIds' = AccountIds
  BY <1>1, SameScenario DEF InvitationRows, InviteRows
<1>3. /\ Len(invitations) \in Nat /\ DOMAIN invitations = 1 .. Len(invitations)
      /\ \A i \in DOMAIN invitations : invitations[i] \in InvitationRows
      /\ invitations \in Seq(InvitationRows) /\ invites \subseteq InviteRows /\ grants \subseteq Shops \X AccountIds
  BY InvitationFacts DEF CustomersTyped
<1> SUFFICES invitations' \in Seq(InvitationRows) /\ invites' \subseteq InviteRows /\ grants' \subseteq Shops \X AccountIds
  BY <1>2 DEF CustomersTyped
<1>4. CASE UNCHANGED customerVars
  BY <1>3, <1>4 DEF customerVars
<1>5. ASSUME NEW c \in DOMAIN otps, LoginInvited(c) \/ Register(c)
      PROVE  invitations' \in Seq(InvitationRows) /\ invites' \subseteq InviteRows /\ grants' \subseteq Shops \X AccountIds
  <2>1. NewAccount(otps[c].phone)
    BY <1>5 DEF LoginInvited, Register
  <2> PICK a, phone : a = Len(accounts) + 1 /\ phone = otps[c].phone
    OBVIOUS
  <2>2. a \in AccountIds /\ ActivatePendingRelationships(members, phone, a) /\ UNCHANGED invites
    BY <2>1, KnownAccount DEF NewAccount
  <2> QED BY <1>3, <2>2, InvitationsAccepted
<1>6. ASSUME NEW s \in DOMAIN sessions, NEW old \in DOMAIN otps, NEW new \in DOMAIN otps, ChangePhone(s, old, new)
      PROVE  invitations' \in Seq(InvitationRows) /\ invites' \subseteq InviteRows /\ grants' \subseteq Shops \X AccountIds
  <2> PICK a, phone : a = sessions[s].account /\ phone = otps[new].phone
    OBVIOUS
  <2>1. a \in AccountIds
    BY AccountFacts, KnownAccount DEF AccountsInv, AccountsTyped
  <2>2. ActivatePendingRelationships(Rebind(a, phone), phone, a) /\ UNCHANGED invites
    BY <1>6 DEF ChangePhone
  <2> QED BY <1>3, <2>1, <2>2, InvitationsAccepted
<1>7. ASSUME NEW shop \in Shops, NEW phone \in Phones, InviteReads(shop, phone)
      PROVE  invitations' \in Seq(InvitationRows) /\ invites' \subseteq InviteRows /\ grants' \subseteq Shops \X AccountIds
  <2>1. [shop |-> shop, phone |-> phone, account |-> AccountOf(phone)] \in InviteRows
    BY KnownAccount DEF InviteRows
  <2> QED BY <1>3, <1>7, <2>1 DEF InviteReads
<1>8. ASSUME NEW t \in invites, InviteCommits(t)
      PROVE  invitations' \in Seq(InvitationRows) /\ invites' \subseteq InviteRows /\ grants' \subseteq Shops \X AccountIds
  <2>1. t.shop \in Shops /\ t.phone \in Phones /\ t.account \in AccountIds
    BY <1>3 DEF InviteRows
  <2> PICK rows : rows = InvitationsExpired(t.shop, t.phone)
    OBVIOUS
  <2>2. \A i \in DOMAIN invitations : [invitations[i] EXCEPT !.status = "EXPIRED"] \in InvitationRows
    BY <1>3 DEF InvitationRows
  <2>3. rows \in [1 .. Len(invitations) -> InvitationRows]
    BY <1>3, <2>2 DEF InvitationsExpired
  <2>4. rows \in Seq(InvitationRows)
    BY <1>3, <2>3
  <2> PICK row : row = [shop |-> t.shop, phone |-> t.phone, due |-> FALSE, status |-> Activation(t.account)]
    OBVIOUS
  <2>5. row \in InvitationRows
    BY <2>1 DEF InvitationRows, Activation
  <2>6. invitations' = Append(rows, row) /\ invites' \subseteq invites /\ grants' = Admitted(t.shop, t.account)
    BY <1>8 DEF InviteCommits
  <2>7. Append(rows, row) \in Seq(InvitationRows)
    BY <2>4, <2>5, AppendProperties
  <2> QED BY <1>3, <2>1, <2>6, <2>7 DEF Admitted
<1>9. ASSUME NEW i \in DOMAIN invitations, InviteAgain(i)
      PROVE  invitations' \in Seq(InvitationRows) /\ invites' \subseteq InviteRows /\ grants' \subseteq Shops \X AccountIds
  <2> PICK a : a = AccountOf(invitations[i].phone)
    OBVIOUS
  <2> PICK row : row = [invitations[i] EXCEPT !.status = Activation(a)]
    OBVIOUS
  <2>1. Activation(a) \in {"PENDING", "ACTIVE"} /\ a \in AccountIds /\ invitations[i].shop \in Shops
    BY <1>3, KnownAccount DEF Activation, InvitationRows
  <2>2. row \in InvitationRows
    BY <1>3, <2>1 DEF InvitationRows
  <2>3. /\ invitations' = [invitations EXCEPT ![i] = row] /\ UNCHANGED invites
        /\ grants' = Admitted(invitations[i].shop, a)
    BY <1>9 DEF InviteAgain
  <2> QED BY <1>3, <2>1, <2>2, <2>3, InvitationChanges DEF Admitted
<1>10. ASSUME NEW actor \in Actors, NEW i \in DOMAIN invitations, AcceptInvitation(actor, i)
       PROVE  invitations' \in Seq(InvitationRows) /\ invites' \subseteq InviteRows /\ grants' \subseteq Shops \X AccountIds
  <2>1. PICK status \in {"EXPIRED", "ACTIVE"} : invitations' = [invitations EXCEPT ![i].status = status]
    BY <1>10 DEF AcceptInvitation
  <2> PICK row : row = [invitations[i] EXCEPT !.status = status]
    OBVIOUS
  <2>2. row \in InvitationRows /\ invitations[i].shop \in Shops
    BY <1>3 DEF InvitationRows
  <2>3. invitations' = [invitations EXCEPT ![i] = row]
    BY <2>1
  <2>4. actor.account \in AccountIds
    <3>1. PICK s \in DOMAIN sessions : actor = Actor(s)
      BY DEF Actors
    <3>2. actor.account = sessions[s].account
      BY <3>1 DEF Actor
    <3> QED BY <3>2, AccountFacts, KnownAccount DEF AccountsInv, AccountsTyped
  <2>5. UNCHANGED invites /\ grants' \subseteq grants \cup {<<invitations[i].shop, actor.account>>}
    BY <1>10 DEF AcceptInvitation
  <2> QED BY <1>3, <2>2, <2>3, <2>4, <2>5, InvitationChanges
<1>11. ASSUME NEW i \in DOMAIN invitations, InvitationDue(i)
       PROVE  invitations' \in Seq(InvitationRows) /\ invites' \subseteq InviteRows /\ grants' \subseteq Shops \X AccountIds
  <2> PICK row : row = [invitations[i] EXCEPT !.due = TRUE]
    OBVIOUS
  <2>1. row \in InvitationRows
    BY <1>3 DEF InvitationRows
  <2>2. invitations' = [invitations EXCEPT ![i] = row] /\ UNCHANGED <<invites, grants>>
    BY <1>11 DEF InvitationDue
  <2> QED BY <1>3, <2>1, <2>2, InvitationChanges
<1>12. \/ UNCHANGED customerVars
       \/ \E c \in DOMAIN otps : LoginInvited(c) \/ Register(c)
       \/ \E s \in DOMAIN sessions, old, new \in DOMAIN otps : ChangePhone(s, old, new)
       \/ CustomerSteps
       \/ \E i \in DOMAIN invitations : InvitationDue(i)
  <2>1. CASE Codes
    BY <2>1 DEF Codes, RequestOtp
  <2>2. CASE Verifications
    BY <2>2 DEF Verifications, WrongCode, VerifyChallenge, VerifyLogin, LoginUnknown, RegisterAgain
  <2>3. CASE SessionSteps
    BY <2>3 DEF SessionSteps, IssueSession, LoginLost, Logout
  <2>4. CASE AccountAdministration
    BY <2>4 DEF AccountAdministration, RequestAccountChange, PrepareAccountChange, CommitAccountChange,
                BootstrapAdministrator
  <2>5. CASE EnterpriseSteps
    BY <2>5 DEF EnterpriseSteps, CreateEnterprise, UpdateProfile, AddMemberReads, AddMemberCommits,
                RemoveMemberCounts, RemoveMemberCommits
  <2>6. CASE Clock
    BY <2>6 DEF Clock, OtpDue, SessionDue
  <2>7. CASE UNCHANGED vars \/ UNCHANGED identityVars
    BY <2>7 DEF vars, identityVars
  <2> QED BY <2>1, <2>2, <2>3, <2>4, <2>5, <2>6, <2>7 DEF Next, IdentityStep
<1>13. CASE CustomerSteps
  BY <1>7, <1>8, <1>9, <1>10, <1>13 DEF CustomerSteps
<1> QED BY <1>4, <1>5, <1>6, <1>11, <1>12, <1>13

-----------------------------------------------------------------------------
(* Phones that move.                                                        *)

(* The unique indexes hold, and rows belong to enterprises that exist.      *)
MembersKeyed ==
  /\ Indexed(members)
  /\ \A i \in DOMAIN members : members[i].enterprise \in DOMAIN enterprises
  /\ \A t \in adds : t.enterprise \in DOMAIN enterprises

(* Rows that are live were so before.                                       *)
Shrunk(old, new) == DOMAIN new = DOMAIN old /\ \A i \in DOMAIN old : Live(new[i]) => new[i] = old[i]

LEMMA ShrunkIndexed ==
  ASSUME NEW old, NEW new, Indexed(old), Shrunk(old, new)
  PROVE  Indexed(new)
BY DEF Indexed, Shrunk

LEMMA MergedShrinks ==
  ASSUME NEW rows \in Seq(MemberRowsHere), NEW phone, NEW a
  PROVE  LET new == Merged(rows, phone, a)
         IN  /\ new \in Seq(MemberRowsHere) /\ Shrunk(rows, new)
             /\ \A i \in DOMAIN new : new[i].status = "PENDING" /\ new[i].phone = phone =>
                  ~IsMember(rows, new[i].enterprise, a) /\ ~IsMember(new, new[i].enterprise, a)
<1> PICK new : new = Merged(rows, phone, a)
  OBVIOUS
<1>1. Len(rows) \in Nat /\ DOMAIN rows = 1 .. Len(rows) /\ \A i \in 1 .. Len(rows) : rows[i] \in MemberRowsHere
  BY ElementOfSeq, LenProperties
<1>2. new \in Seq(MemberRowsHere)
  BY MergedMoves DEF Moved
<1>3. DOMAIN new = DOMAIN rows
  BY DEF Merged
<1>4. ASSUME NEW i \in DOMAIN rows, Live(new[i])
      PROVE  /\ new[i] = rows[i]
             /\ ~(rows[i].status = "PENDING" /\ rows[i].phone = phone /\ IsMember(rows, rows[i].enterprise, a))
  <2>1. CASE rows[i].status = "PENDING" /\ rows[i].phone = phone /\ IsMember(rows, rows[i].enterprise, a)
    <3>1. new[i] = [rows[i] EXCEPT !.status = "REVOKED"]
      BY <2>1 DEF Merged
    <3>2. new[i].status = "REVOKED"
      BY <1>1, <3>1 DEF MemberRowsHere, MemberRows
    <3> QED BY <1>4, <3>2 DEF Live
  <2>2. CASE ~(rows[i].status = "PENDING" /\ rows[i].phone = phone /\ IsMember(rows, rows[i].enterprise, a))
    BY <2>2 DEF Merged
  <2> QED BY <2>1, <2>2
<1>5. Shrunk(rows, new)
  BY <1>3, <1>4 DEF Shrunk
<1>6. \A e : IsMember(new, e, a) => IsMember(rows, e, a)
  BY <1>3, <1>4 DEF IsMember, Live
<1>7. \A i \in DOMAIN new : new[i].status = "PENDING" /\ new[i].phone = phone =>
        ~IsMember(rows, new[i].enterprise, a) /\ ~IsMember(new, new[i].enterprise, a)
  BY <1>3, <1>4, <1>6 DEF Live
<1> QED BY <1>2, <1>5, <1>7

LEMMA JoinedIndexed ==
  ASSUME NEW rows \in Seq(MemberRowsHere), NEW phone, NEW a, Indexed(rows),
         \A i \in DOMAIN rows : rows[i].status = "PENDING" /\ rows[i].phone = phone => ~IsMember(rows, rows[i].enterprise, a)
  PROVE  Indexed(Joined(rows, phone, a))
<1> PICK new : new = Joined(rows, phone, a)
  OBVIOUS
<1>1. Len(rows) \in Nat /\ DOMAIN rows = 1 .. Len(rows) /\ \A i \in 1 .. Len(rows) : rows[i] \in MemberRowsHere
  BY ElementOfSeq, LenProperties
<1>2. DOMAIN new = DOMAIN rows
  BY DEF Joined
<1>3. ASSUME NEW i \in DOMAIN rows
      PROVE  \/ new[i] = rows[i]
             \/ /\ rows[i].status = "PENDING" /\ rows[i].phone = phone
                /\ new[i].status = "ACTIVE" /\ new[i].account = a
                /\ new[i].phone = phone /\ new[i].enterprise = rows[i].enterprise
  <2>1. CASE rows[i].status = "PENDING" /\ rows[i].phone = phone
    <3>1. new[i] = [rows[i] EXCEPT !.status = "ACTIVE", !.account = a]
      BY <2>1 DEF Joined
    <3> QED BY <1>1, <2>1, <3>1 DEF MemberRowsHere, MemberRows
  <2>2. CASE ~(rows[i].status = "PENDING" /\ rows[i].phone = phone)
    BY <2>2 DEF Joined
  <2> QED BY <2>1, <2>2
<1>4. ASSUME NEW i \in DOMAIN rows, NEW j \in DOMAIN rows, i # j, Live(new[i]), Live(new[j]),
             new[i].enterprise = new[j].enterprise
      PROVE  /\ new[i].phone # new[j].phone
             /\ new[i].status = "ACTIVE" /\ new[j].status = "ACTIVE" => new[i].account # new[j].account
  <2>1. /\ Live(rows[i]) /\ Live(rows[j]) /\ rows[i].enterprise = rows[j].enterprise
        /\ new[i].phone = rows[i].phone /\ new[j].phone = rows[j].phone
    BY <1>3, <1>4 DEF Live
  <2>2. rows[i].phone # rows[j].phone
    BY <1>4, <2>1 DEF Indexed
  <2>3. ASSUME new[i].status = "ACTIVE", new[j].status = "ACTIVE" PROVE new[i].account # new[j].account
    <3>1. CASE new[i] = rows[i] /\ new[j] = rows[j]
      BY <1>4, <2>1, <2>3, <3>1 DEF Indexed
    <3>2. CASE new[i] # rows[i]
      <4>1. rows[i].status = "PENDING" /\ rows[i].phone = phone /\ new[i].account = a /\ ~IsMember(rows, rows[i].enterprise, a)
        BY <1>3, <3>2
      <4>2. new[j] = rows[j]
        BY <1>3, <2>2, <4>1
      <4> QED BY <2>1, <2>3, <4>1, <4>2 DEF IsMember
    <3>3. CASE new[j] # rows[j]
      <4>1. rows[j].status = "PENDING" /\ rows[j].phone = phone /\ new[j].account = a /\ ~IsMember(rows, rows[j].enterprise, a)
        BY <1>3, <3>3
      <4>2. new[i] = rows[i]
        BY <1>3, <2>2, <4>1
      <4> QED BY <2>1, <2>3, <4>1, <4>2 DEF IsMember
    <3> QED BY <3>1, <3>2, <3>3
  <2> QED BY <2>1, <2>2, <2>3
<1> QED BY <1>2, <1>4 DEF Indexed

(* activatePendingRelationships keeps the unique indexes, because it merges *)
(* before it joins.                                                         *)
LEMMA ActivationIndexed ==
  ASSUME NEW rows \in Seq(MemberRowsHere), NEW phone, NEW a, Indexed(rows)
  PROVE  Indexed(Joined(Merged(rows, phone, a), phone, a))
<1> PICK mid : mid = Merged(rows, phone, a)
  OBVIOUS
<1>1. /\ mid \in Seq(MemberRowsHere) /\ Shrunk(rows, mid)
      /\ \A i \in DOMAIN mid : mid[i].status = "PENDING" /\ mid[i].phone = phone => ~IsMember(mid, mid[i].enterprise, a)
  BY MergedShrinks
<1>2. Indexed(mid)
  BY <1>1, ShrunkIndexed
<1>3. Indexed(Joined(mid, phone, a))
  BY <1>1, <1>2, JoinedIndexed
<1> QED BY <1>3

LEMMA RebindIndexed ==
  ASSUME MembersTyped, Indexed(members), NEW phone, NEW a, ~LeftBehind(a, phone)
  PROVE  Indexed(Rebind(a, phone))
<1> PICK rows : rows = Merged(members, phone, a)
  OBVIOUS
<1>1. /\ rows \in Seq(MemberRowsHere) /\ Shrunk(members, rows)
      /\ \A i \in DOMAIN rows : rows[i].status = "PENDING" /\ rows[i].phone = phone => ~IsMember(members, rows[i].enterprise, a)
  BY MemberFacts, MergedShrinks
<1>2. Indexed(rows) /\ DOMAIN rows = DOMAIN members
  BY <1>1, ShrunkIndexed DEF Shrunk
<1>3. Len(rows) \in Nat /\ DOMAIN rows = 1 .. Len(rows) /\ \A i \in 1 .. Len(rows) : rows[i] \in MemberRowsHere
  BY <1>1, ElementOfSeq, LenProperties
<1> PICK new : new = Rebind(a, phone)
  OBVIOUS
<1>4. DOMAIN new = DOMAIN rows
  BY DEF Rebind
<1>5. ASSUME NEW i \in DOMAIN rows
      PROVE  IF rows[i].account = a /\ rows[i].status = "ACTIVE"
             THEN /\ new[i].status = "ACTIVE" /\ new[i].account = a /\ new[i].phone = phone
                  /\ new[i].enterprise = rows[i].enterprise
             ELSE new[i] = rows[i]
  <2>1. new[i] = IF rows[i].account = a /\ rows[i].status = "ACTIVE" THEN [rows[i] EXCEPT !.phone = phone] ELSE rows[i]
    BY DEF Rebind
  <2> QED BY <1>3, <2>1 DEF MemberRowsHere, MemberRows
<1>6. ASSUME NEW i \in DOMAIN rows, NEW j \in DOMAIN rows, i # j, Live(rows[j]), rows[j].enterprise = rows[i].enterprise,
             rows[i].account = a, rows[i].status = "ACTIVE"
      PROVE  ~(rows[j].account = a /\ rows[j].status = "ACTIVE") /\ rows[j].phone # phone
  <2>1. ~(rows[j].account = a /\ rows[j].status = "ACTIVE")
    BY <1>2, <1>6 DEF Indexed, Live
  <2>2. rows[i] = members[i] /\ rows[j] = members[j]
    BY <1>1, <1>2, <1>6 DEF Shrunk, Live
  <2>3. IsMember(members, rows[j].enterprise, a)
    BY <1>2, <1>6, <2>2 DEF IsMember
  <2>4. CASE rows[j].status = "PENDING"
    BY <1>1, <2>1, <2>3, <2>4
  <2>5. CASE rows[j].status = "ACTIVE"
    BY <1>2, <2>1, <2>2, <2>3, <2>5 DEF LeftBehind
  <2> QED BY <1>6, <2>1, <2>4, <2>5 DEF Live
<1>7. ASSUME NEW i \in DOMAIN rows, NEW j \in DOMAIN rows, i # j, Live(new[i]), Live(new[j]),
             new[i].enterprise = new[j].enterprise
      PROVE  /\ new[i].phone # new[j].phone
             /\ new[i].status = "ACTIVE" /\ new[j].status = "ACTIVE" => new[i].account # new[j].account
  <2>1. Live(rows[i]) /\ Live(rows[j]) /\ rows[i].enterprise = rows[j].enterprise
    BY <1>5, <1>7 DEF Live
  <2>2. CASE rows[i].account = a /\ rows[i].status = "ACTIVE"
    <3>1. ~(rows[j].account = a /\ rows[j].status = "ACTIVE") /\ rows[j].phone # phone
      BY <1>6, <1>7, <2>1, <2>2
    <3> QED BY <1>5, <2>2, <3>1
  <2>3. CASE rows[j].account = a /\ rows[j].status = "ACTIVE"
    <3>1. ~(rows[i].account = a /\ rows[i].status = "ACTIVE") /\ rows[i].phone # phone
      BY <1>6, <1>7, <2>1, <2>3
    <3> QED BY <1>5, <2>3, <3>1
  <2>4. CASE ~(rows[i].account = a /\ rows[i].status = "ACTIVE") /\ ~(rows[j].account = a /\ rows[j].status = "ACTIVE")
    BY <1>2, <1>5, <1>7, <2>1, <2>4 DEF Indexed
  <2> QED BY <2>2, <2>3, <2>4
<1> QED BY <1>4, <1>7 DEF Indexed

LEMMA ChangesFit ==
  ASSUME MembersTyped, Indexed(members)
  PROVE  PhoneChangeFits
<1> SUFFICES ASSUME NEW a \in DOMAIN accounts, NEW phone \in Phones, ~LeftBehind(a, phone)
             PROVE  Indexed(Rebind(a, phone)) /\ Indexed(Joined(Merged(Rebind(a, phone), phone, a), phone, a))
  BY DEF PhoneChangeFits
<1> PICK rows : rows = Rebind(a, phone)
  OBVIOUS
<1>1. Indexed(rows)
  BY RebindIndexed
<1>2. rows \in Seq(MemberRowsHere)
  BY RebindMoves DEF Moved
<1> QED BY <1>1, <1>2, ActivationIndexed

LEMMA AccountRowsMove ==
  ASSUME MembersInv, AccountsInv, MembersKeyed, scenario \in Scenarios,
         \/ \E c \in DOMAIN otps : LoginInvited(c) \/ Register(c)
         \/ \E s \in DOMAIN sessions, old, new \in DOMAIN otps : ChangePhone(s, old, new)
  PROVE  /\ Indexed(members') /\ \E phone : Moved(members, members', phone)
         /\ UNCHANGED <<adds, enterprises>>
<1>1. members \in Seq(MemberRowsHere) /\ Indexed(members)
  BY MemberFacts DEF MembersInv, MembersKeyed
<1>2. ASSUME NEW rows \in Seq(MemberRowsHere), NEW phone, NEW a \in AccountIds, Indexed(rows), Moved(members, rows, phone),
             ActivatePendingRelationships(rows, phone, a)
      PROVE  Indexed(members') /\ Moved(members, members', phone)
  <2> PICK mid : mid = Merged(rows, phone, a)
    OBVIOUS
  <2>1. members' = Joined(mid, phone, a)
    BY <1>2 DEF ActivatePendingRelationships
  <2>2. Moved(rows, mid, phone) /\ mid \in Seq(MemberRowsHere)
    BY MergedMoves DEF Moved
  <2>3. Moved(mid, members', phone)
    BY <2>1, <2>2, JoinedMoves
  <2>4. Moved(members, mid, phone)
    BY <1>1, <1>2, <2>2, MovedTwice
  <2>5. Moved(members, members', phone)
    BY <1>1, <2>3, <2>4, MovedTwice
  <2>6. Indexed(members')
    BY <1>2, <2>1, ActivationIndexed
  <2> QED BY <2>5, <2>6
<1>3. ASSUME NEW phone, NewAccount(phone)
      PROVE  Indexed(members') /\ Moved(members, members', phone) /\ UNCHANGED <<adds, enterprises>>
  <2>1. Moved(members, members, phone)
    BY <1>1 DEF Moved
  <2>2. /\ UNCHANGED <<adds, enterprises>> /\ Len(accounts) + 1 \in AccountIds
        /\ ActivatePendingRelationships(members, phone, Len(accounts) + 1)
    BY <1>3, KnownAccount DEF NewAccount
  <2> PICK a \in AccountIds : a = Len(accounts) + 1
    BY <2>2
  <2> QED BY <1>1, <1>2, <2>1, <2>2
<1>4. ASSUME NEW s \in DOMAIN sessions, NEW old \in DOMAIN otps, NEW new \in DOMAIN otps, ChangePhone(s, old, new)
      PROVE  Indexed(members') /\ Moved(members, members', otps[new].phone) /\ UNCHANGED <<adds, enterprises>>
  <2> PICK a, phone : a = sessions[s].account /\ phone = otps[new].phone
    OBVIOUS
  <2>1. a \in AccountIds /\ phone \in Phones
    <3>1. a \in 1 .. Len(accounts) /\ otps[new] \in OtpRows /\ DOMAIN accounts = 1 .. Len(accounts)
      BY AccountFacts DEF AccountsInv, AccountsTyped
    <3> QED BY <3>1, KnownAccount DEF OtpRows
  <2> PICK rows : rows = Rebind(a, phone)
    OBVIOUS
  <2>2. /\ UNCHANGED <<adds, enterprises>> /\ Indexed(rows)
        /\ ActivatePendingRelationships(rows, phone, a)
    BY <1>4 DEF ChangePhone
  <2>3. Moved(members, rows, phone)
    BY <2>1, RebindMoves DEF MembersInv
  <2>4. rows \in Seq(MemberRowsHere)
    BY <2>3 DEF Moved
  <2> QED BY <1>2, <2>1, <2>2, <2>3, <2>4
<1> QED BY <1>3, <1>4 DEF LoginInvited, Register

LEMMA KeyedNext ==
  ASSUME MembersInv, AccountsInv, MembersKeyed, scenario \in Scenarios, [Next]_vars
  PROVE  MembersKeyed'
<1>1. /\ Len(members) \in Nat /\ DOMAIN members = 1 .. Len(members) /\ members \in Seq(MemberRowsHere)
      /\ \A i \in 1 .. Len(members) : members[i] \in MemberRowsHere
  BY MemberFacts DEF MembersInv
<1>2. CASE UNCHANGED <<members, adds>> /\ DOMAIN enterprises' = DOMAIN enterprises
  BY <1>2 DEF MembersKeyed, Indexed
<1>3. CASE \/ \E c \in DOMAIN otps : LoginInvited(c) \/ Register(c)
           \/ \E s \in DOMAIN sessions, old, new \in DOMAIN otps : ChangePhone(s, old, new)
  <2>1. PICK phone : Moved(members, members', phone) /\ Indexed(members') /\ UNCHANGED <<adds, enterprises>>
    BY <1>3, AccountRowsMove
  <2>2. DOMAIN members' = 1 .. Len(members)
    BY <2>1, LenProperties DEF Moved
  <2>3. \A i \in DOMAIN members' : members'[i].enterprise \in DOMAIN enterprises'
    BY <1>1, <2>1, <2>2 DEF Moved, MembersKeyed
  <2> QED BY <2>1, <2>3 DEF MembersKeyed, Indexed
<1>4. ASSUME NEW actor \in Actors, NEW e \in Enterprises, CreateEnterprise(actor, e) PROVE MembersKeyed'
  <2> PICK row : row = [enterprise |-> e, phone |-> accounts[actor.account].phone,
                        account |-> actor.account, status |-> "ACTIVE"]
    OBVIOUS
  <2>1. /\ members' = Append(members, row) /\ UNCHANGED adds /\ e \notin DOMAIN enterprises
        /\ DOMAIN enterprises' = DOMAIN enterprises \cup {e} /\ row.enterprise = e
    BY <1>4 DEF CreateEnterprise
  <2>2. /\ DOMAIN members' = 1 .. Len(members) + 1 /\ members'[Len(members) + 1] = row
        /\ \A i \in 1 .. Len(members) : members'[i] = members[i]
    BY <1>1, <2>1
  <2>3. \A i \in 1 .. Len(members) : members[i].enterprise \in DOMAIN enterprises
    BY <1>1 DEF MembersKeyed
  <2>4. ASSUME NEW i \in DOMAIN members', NEW j \in DOMAIN members', i # j, Live(members'[i]), Live(members'[j]),
               members'[i].enterprise = members'[j].enterprise
        PROVE  /\ members'[i].phone # members'[j].phone
               /\ members'[i].status = "ACTIVE" /\ members'[j].status = "ACTIVE" => members'[i].account # members'[j].account
    <3>1. i \in 1 .. Len(members) /\ j \in 1 .. Len(members)
      <4>1. CASE i = Len(members) + 1
        BY <1>1, <2>1, <2>2, <2>3, <2>4, <4>1
      <4>2. CASE j = Len(members) + 1
        BY <1>1, <2>1, <2>2, <2>3, <2>4, <4>2
      <4> QED BY <1>1, <2>2, <4>1, <4>2
    <3> QED BY <1>1, <2>2, <2>4, <3>1 DEF MembersKeyed, Indexed
  <2>5. Indexed(members')
    BY <2>4 DEF Indexed
  <2>6. \A i \in DOMAIN members' : members'[i].enterprise \in DOMAIN enterprises'
    BY <1>1, <2>1, <2>2, <2>3
  <2> QED BY <2>1, <2>5, <2>6 DEF MembersKeyed, Indexed
<1>5. ASSUME NEW actor, NEW e, NEW phone, AddMemberReads(actor, e, phone) PROVE MembersKeyed'
  <2> PICK t : t = [enterprise |-> e, phone |-> phone, row |-> Latest(e, phone), account |-> AccountOf(phone)]
    OBVIOUS
  <2>1. UNCHANGED <<enterprises, members>> /\ adds' = adds \cup {t} /\ t.enterprise \in DOMAIN enterprises
    BY <1>5 DEF AddMemberReads, RequireAccess
  <2> QED BY <2>1 DEF MembersKeyed, Indexed
<1>6. ASSUME NEW t \in adds, AddMemberCommits(t) PROVE MembersKeyed'
  <2>1. /\ UNCHANGED enterprises /\ adds' \subseteq adds /\ t.enterprise \in DOMAIN enterprises
        /\ t.row \in 0 .. Len(members)
    BY <1>6 DEF AddMemberCommits, MembersInv, MembersTyped, MembersKeyed
  <2>2. CASE members' = members
    BY <2>1, <2>2 DEF MembersKeyed, Indexed
  <2>3. CASE members' = Added(t) /\ Indexed(Added(t))
    <3>1. \A i \in DOMAIN members' : members'[i].enterprise \in DOMAIN enterprises
      <4> PICK status : status = IF t.account = None THEN "PENDING" ELSE "ACTIVE"
        OBVIOUS
      <4>1. CASE t.row = None
        <5> PICK row : row = [enterprise |-> t.enterprise, phone |-> t.phone, account |-> t.account, status |-> status]
          OBVIOUS
        <5>1. members' = Append(members, row) /\ row.enterprise = t.enterprise
          BY <2>3, <4>1 DEF Added
        <5>2. /\ DOMAIN members' = 1 .. Len(members) + 1 /\ members'[Len(members) + 1] = row
              /\ \A i \in 1 .. Len(members) : members'[i] = members[i]
          BY <1>1, <5>1
        <5> QED BY <1>1, <2>1, <5>1, <5>2 DEF MembersKeyed
      <4>2. CASE t.row # None
        <5> PICK row : row = [members[t.row] EXCEPT !.status = status, !.account = t.account]
          OBVIOUS
        <5>1. members' = [members EXCEPT ![t.row] = row]
          BY <2>3, <4>2 DEF Added
        <5>2. t.row \in DOMAIN members /\ row.enterprise = members[t.row].enterprise
          BY <1>1, <2>1, <4>2 DEF None, MemberRowsHere, MemberRows
        <5> QED BY <1>1, <5>1, <5>2 DEF MembersKeyed
      <4> QED BY <4>1, <4>2
    <3>2. Indexed(members')
      BY <2>3
    <3> QED BY <2>1, <3>1, <3>2 DEF MembersKeyed, Indexed
  <2> QED BY <1>6, <2>2, <2>3 DEF AddMemberCommits
<1>7. ASSUME NEW actor, NEW i, RemoveMemberCounts(actor, i) PROVE MembersKeyed'
  <2>1. UNCHANGED <<members, adds>> /\ DOMAIN enterprises' = DOMAIN enterprises
    BY <1>7 DEF RemoveMemberCounts
  <2> QED BY <1>2, <2>1
<1>8. ASSUME NEW t \in removals, RemoveMemberCommits(t) PROVE MembersKeyed'
  <2> PICK row : row = [members[t.row] EXCEPT !.status = "REVOKED"]
    OBVIOUS
  <2>1. /\ UNCHANGED <<adds, enterprises>> /\ members' = [members EXCEPT ![t.row] = row] /\ t.row \in DOMAIN members
    BY <1>1, <1>8 DEF RemoveMemberCommits, MembersInv, MembersTyped
  <2>2. row.status = "REVOKED" /\ row.enterprise = members[t.row].enterprise
    BY <1>1, <2>1 DEF MemberRowsHere, MemberRows
  <2>3. /\ DOMAIN members' = DOMAIN members
        /\ \A i \in DOMAIN members : Live(members'[i]) => members'[i] = members[i]
        /\ \A i \in DOMAIN members : members'[i].enterprise = members[i].enterprise
    BY <1>1, <2>1, <2>2 DEF Live
  <2>4. Indexed(members')
    BY <2>3 DEF MembersKeyed, Indexed
  <2> QED BY <2>1, <2>3, <2>4 DEF MembersKeyed, Indexed
<1>9. CASE EnterpriseSteps
  <2>1. ASSUME NEW actor \in Actors, NEW e \in Enterprises, UpdateProfile(actor, e) PROVE MembersKeyed'
    <3>1. UNCHANGED <<members, adds>> /\ DOMAIN enterprises' = DOMAIN enterprises
      BY <2>1 DEF UpdateProfile
    <3> QED BY <1>2, <3>1
  <2> QED BY <1>4, <1>5, <1>6, <1>7, <1>8, <1>9, <2>1 DEF EnterpriseSteps
<1>10. \/ UNCHANGED enterpriseVars \/ EnterpriseSteps
       \/ \E c \in DOMAIN otps : LoginInvited(c) \/ Register(c)
       \/ \E s \in DOMAIN sessions, old, new \in DOMAIN otps : ChangePhone(s, old, new)
  BY StepsOfMembers
<1>11. CASE UNCHANGED enterpriseVars
  BY <1>2, <1>11 DEF enterpriseVars
<1> QED BY <1>3, <1>9, <1>10, <1>11

LEMMA KeyedStart == Init => MembersKeyed
<1> SUFFICES ASSUME Init PROVE MembersKeyed
  OBVIOUS
<1>1. PICK s \in Scenarios : s = scenario
  BY DEF Init
<1>2. members = s.seed.members /\ enterprises = s.seed.enterprises /\ adds = {}
  BY <1>1 DEF Init, Seed
<1>3. /\ Indexed(s.seed.members)
      /\ \A i \in DOMAIN s.seed.members : s.seed.members[i].enterprise \in DOMAIN s.seed.enterprises
  BY SeedAssumption
<1> QED BY <1>2, <1>3 DEF MembersKeyed

(* Those a shop has let in, and the invitations it let them in on.          *)
Guests(shop) == {g \in grants : g[1] = shop}
Answered(shop) == {i \in DOMAIN invitations : invitations[i].shop = shop /\ invitations[i].status = "ACTIVE"}

(* An invitation that is answered stays so, and who is let in is let in on  *)
(* an invitation that was not.                                              *)
Admits(a) ==
  /\ \A shop : Answered(shop) \subseteq Answered(shop)'
  /\ \A g \in grants' : g \in grants \/ (g = <<g[1], a>> /\ \E i \in Answered(g[1])' : i \notin Answered(g[1]))

LEMMA AnsweredRows ==
  ASSUME CustomersTyped, scenario \in Scenarios, NEW shop
  PROVE  IsFiniteSet(Guests(shop)) /\ IsFiniteSet(Answered(shop))
<1>1. MaxAccounts \in Nat
  BY Bounds
<1>2. IsFiniteSet(AccountIds) /\ IsFiniteSet({shop})
  <2> PICK n \in Int : n = MaxAccounts
    BY <1>1
  <2>1. IsFiniteSet(0 .. n)
    BY FS_Interval
  <2> QED BY <2>1, FS_Singleton DEF AccountIds
<1>3. IsFiniteSet({shop} \X AccountIds)
  BY <1>2, FS_Product
<1>4. Guests(shop) \subseteq {shop} \X AccountIds
  BY DEF CustomersTyped, Guests
<1>5. IsFiniteSet(1 .. Len(invitations)) /\ Answered(shop) \subseteq 1 .. Len(invitations)
  BY InvitationFacts, FS_Interval DEF Answered
<1> QED BY <1>3, <1>4, <1>5, FS_Subset

LEMMA OneMore ==
  ASSUME NEW G, NEW H, NEW A, NEW B, NEW g, IsFiniteSet(G), IsFiniteSet(A), IsFiniteSet(B), A \subseteq B,
         H \subseteq G \cup {g}, H \subseteq G \/ \E i \in B : i \notin A, Cardinality(G) <= Cardinality(A)
  PROVE  Cardinality(H) <= Cardinality(B)
<1>1. Cardinality(A) \in Nat /\ Cardinality(B) \in Nat /\ Cardinality(G) \in Nat /\ Cardinality(A) <= Cardinality(B)
  BY FS_CardinalityType, FS_Subset
<1>2. CASE H \subseteq G
  <2>1. Cardinality(H) <= Cardinality(G) /\ Cardinality(H) \in Nat
    BY <1>2, FS_Subset, FS_CardinalityType
  <2> QED BY <1>1, <2>1
<1>3. ASSUME NEW i \in B, i \notin A PROVE Cardinality(H) <= Cardinality(B)
  <2>1. IsFiniteSet(G \cup {g}) /\ Cardinality(G \cup {g}) <= Cardinality(G) + 1 /\ Cardinality(G \cup {g}) \in Nat
    <3>1. IsFiniteSet(G \cup {g})
          /\ Cardinality(G \cup {g}) = IF g \in G THEN Cardinality(G) ELSE Cardinality(G) + 1
      BY FS_AddElement
    <3> QED BY <1>1, <3>1
  <2>2. Cardinality(H) <= Cardinality(G \cup {g}) /\ Cardinality(H) \in Nat
    BY <2>1, FS_Subset, FS_CardinalityType
  <2>3. IsFiniteSet(A \cup {i}) /\ Cardinality(A \cup {i}) = Cardinality(A) + 1
    BY <1>3, FS_AddElement
  <2>4. A \cup {i} \subseteq B
    BY <1>3
  <2>5. Cardinality(A \cup {i}) <= Cardinality(B)
    BY <2>4, FS_Subset
  <2> QED BY <1>1, <2>1, <2>2, <2>3, <2>5
<1> QED BY <1>2, <1>3

LEMMA AdmitsKeeps ==
  ASSUME CustomersTyped, CustomersTyped', scenario \in Scenarios, scenario' = scenario, InvitationAdmitsOne,
         NEW a, Admits(a)
  PROVE  InvitationAdmitsOne'
<1> SUFFICES ASSUME NEW shop \in Shops
             PROVE  Cardinality(Guests(shop)') <= Cardinality(Answered(shop)')
  <2>1. Shops' = Shops
    BY SameScenario
  <2> QED BY <2>1 DEF InvitationAdmitsOne, Guests, Answered
<1>1. IsFiniteSet(Guests(shop)) /\ IsFiniteSet(Answered(shop))
  BY AnsweredRows
<1>2. IsFiniteSet(Answered(shop)')
  <2>1. Len(invitations') \in Nat /\ DOMAIN invitations' = 1 .. Len(invitations')
    BY LenProperties DEF CustomersTyped
  <2>2. Answered(shop)' \subseteq 1 .. Len(invitations')
    BY <2>1 DEF Answered
  <2> PICK n \in Nat : n = Len(invitations')
    BY ONLY <2>1
  <2>3. IsFiniteSet(1 .. n)
    BY ONLY FS_Interval, n \in Nat
  <2> QED BY <2>2, <2>3, FS_Subset
<1>3. Cardinality(Guests(shop)) <= Cardinality(Answered(shop))
  BY DEF InvitationAdmitsOne, Guests, Answered
<1>4. Answered(shop) \subseteq Answered(shop)'
  BY DEF Admits
<1>5. ASSUME NEW g \in Guests(shop)'
      PROVE  g \in Guests(shop) \/ (g = <<shop, a>> /\ \E i \in Answered(shop)' : i \notin Answered(shop))
  <2>1. g \in grants' /\ g[1] = shop
    BY DEF Guests
  <2> QED BY <2>1 DEF Admits, Guests
<1>6. Guests(shop)' \subseteq Guests(shop) \cup {<<shop, a>>}
  BY <1>5
<1>7. Guests(shop)' \subseteq Guests(shop) \/ \E i \in Answered(shop)' : i \notin Answered(shop)
  BY <1>5
<1> QED BY <1>1, <1>2, <1>3, <1>4, <1>6, <1>7, OneMore

LEMMA ActivationAdmits ==
  ASSUME CustomersTyped, NEW rows, NEW phone, NEW a, ActivatePendingRelationships(rows, phone, a)
  PROVE  Admits(a)
<1>1. /\ Len(invitations) \in Nat /\ DOMAIN invitations = 1 .. Len(invitations)
      /\ \A i \in 1 .. Len(invitations) : invitations[i] \in InvitationRows
  BY InvitationFacts
<1>2. DOMAIN invitations' = DOMAIN invitations
  BY DEF ActivatePendingRelationships
<1>3. ASSUME NEW i \in DOMAIN invitations
      PROVE  /\ invitations'[i].shop = invitations[i].shop
             /\ invitations'[i].status = IF Outstanding(i, phone) THEN "ACTIVE" ELSE invitations[i].status
  <2>1. invitations'[i] = IF Outstanding(i, phone) THEN [invitations[i] EXCEPT !.status = "ACTIVE"] ELSE invitations[i]
    BY DEF ActivatePendingRelationships
  <2> QED BY <1>1, <2>1 DEF InvitationRows
<1>4. \A shop : Answered(shop) \subseteq Answered(shop)'
  BY <1>2, <1>3 DEF Answered
<1>5. ASSUME NEW g \in grants', g \notin grants
      PROVE  g = <<g[1], a>> /\ \E i \in Answered(g[1])' : i \notin Answered(g[1])
  <2>1. PICK i \in DOMAIN invitations : Outstanding(i, phone) /\ g = <<invitations[i].shop, a>>
    BY <1>5 DEF ActivatePendingRelationships
  <2>2. i \in Answered(g[1])'
    BY <1>2, <1>3, <2>1 DEF Answered
  <2>3. i \notin Answered(g[1])
    BY <2>1 DEF Answered, Outstanding
  <2> QED BY <2>1, <2>2, <2>3
<1> QED BY <1>4, <1>5 DEF Admits

(* One invitation changes.                                                  *)
LEMMA RowAdmits ==
  ASSUME CustomersTyped, NEW i \in DOMAIN invitations, NEW row, NEW a, invitations' = [invitations EXCEPT ![i] = row],
         row.shop = invitations[i].shop, invitations[i].status = "ACTIVE" => row.status = "ACTIVE",
         \/ grants' = grants
         \/ /\ grants' = grants \cup {<<row.shop, a>>}
            /\ invitations[i].status # "ACTIVE" /\ row.status = "ACTIVE"
  PROVE  Admits(a)
<1>1. /\ DOMAIN invitations' = DOMAIN invitations /\ invitations'[i] = row
      /\ \A j \in DOMAIN invitations : j # i => invitations'[j] = invitations[j]
  OBVIOUS
<1>2. \A shop : Answered(shop) \subseteq Answered(shop)'
  BY <1>1 DEF Answered
<1>3. ASSUME NEW g \in grants', g \notin grants
      PROVE  g = <<g[1], a>> /\ \E j \in Answered(g[1])' : j \notin Answered(g[1])
  <2>1. g = <<row.shop, a>> /\ invitations[i].status # "ACTIVE" /\ row.status = "ACTIVE"
    BY <1>3
  <2>2. i \in Answered(g[1])' /\ i \notin Answered(g[1])
    BY <1>1, <2>1 DEF Answered
  <2> QED BY <2>1, <2>2
<1> QED BY <1>2, <1>3 DEF Admits

LEMMA InviteAdmits ==
  ASSUME CustomersTyped, NEW t \in invites, InviteCommits(t)
  PROVE  Admits(t.account)
<1>1. /\ Len(invitations) \in Nat /\ DOMAIN invitations = 1 .. Len(invitations)
      /\ \A i \in 1 .. Len(invitations) : invitations[i] \in InvitationRows
  BY InvitationFacts
<1> PICK rows : rows = InvitationsExpired(t.shop, t.phone)
  OBVIOUS
<1> PICK row : row = [shop |-> t.shop, phone |-> t.phone, due |-> FALSE, status |-> Activation(t.account)]
  OBVIOUS
<1>2. rows \in Seq(InvitationRows) /\ DOMAIN rows = 1 .. Len(invitations) /\ Len(rows) = Len(invitations)
  <2>1. \A i \in 1 .. Len(invitations) : [invitations[i] EXCEPT !.status = "EXPIRED"] \in InvitationRows
    BY <1>1 DEF InvitationRows
  <2>2. rows \in [1 .. Len(invitations) -> InvitationRows]
    BY <1>1, <2>1 DEF InvitationsExpired
  <2> QED BY <1>1, <2>2
<1>3. \A i \in 1 .. Len(invitations) : invitations[i].status = "ACTIVE" => rows[i] = invitations[i]
  BY <1>1 DEF InvitationsExpired
<1>4. invitations' = Append(rows, row) /\ grants' = Admitted(t.shop, t.account)
  BY DEF InviteCommits
<1>5. /\ DOMAIN invitations' = 1 .. Len(invitations) + 1 /\ invitations'[Len(invitations) + 1] = row
      /\ \A i \in 1 .. Len(invitations) : invitations'[i] = rows[i]
  BY <1>1, <1>2, <1>4
<1>6. \A shop : Answered(shop) \subseteq Answered(shop)'
  BY <1>1, <1>3, <1>5 DEF Answered
<1>7. ASSUME NEW g \in grants', g \notin grants
      PROVE  g = <<g[1], t.account>> /\ \E i \in Answered(g[1])' : i \notin Answered(g[1])
  <2>1. g = <<t.shop, t.account>> /\ t.account # None
    BY <1>4, <1>7 DEF Admitted
  <2>2. row.shop = g[1] /\ row.status = "ACTIVE"
    BY <2>1 DEF Activation
  <2> PICK n \in Nat : n = Len(invitations) + 1
    BY <1>1
  <2>3. n \in Answered(g[1])'
    BY <1>1, <1>5, <2>2 DEF Answered
  <2>4. n \notin Answered(g[1])
    BY <1>1 DEF Answered
  <2> QED BY <2>1, <2>3, <2>4
<1> QED BY <1>6, <1>7 DEF Admits

LEMMA AdmitsNext ==
  ASSUME CustomersTyped, AccountsInv, scenario \in Scenarios, InvitationAdmitsOne, [Next]_vars
  PROVE  InvitationAdmitsOne'
<1>1. scenario' = scenario /\ CustomersTyped'
  BY CustomersNext DEF Next, vars
<1> SUFFICES \E a : Admits(a)
  BY <1>1, AdmitsKeeps
<1>2. \A i \in DOMAIN invitations : invitations[i] \in InvitationRows
  BY InvitationFacts
<1>3. CASE UNCHANGED <<invitations, grants>>
  BY <1>3 DEF Admits, Answered
<1>4. ASSUME NEW phone, NewAccount(phone) PROVE \E a : Admits(a)
  BY <1>4, ActivationAdmits DEF NewAccount
<1>5. ASSUME NEW s, NEW old, NEW new, ChangePhone(s, old, new) PROVE \E a : Admits(a)
  BY <1>5, ActivationAdmits DEF ChangePhone
<1>6. ASSUME NEW t \in invites, InviteCommits(t) PROVE \E a : Admits(a)
  BY <1>6, InviteAdmits
<1>7. ASSUME NEW i \in DOMAIN invitations, InviteAgain(i) PROVE \E a : Admits(a)
  <2> PICK a : a = AccountOf(invitations[i].phone)
    OBVIOUS
  <2> PICK row : row = [invitations[i] EXCEPT !.status = "ACTIVE"]
    OBVIOUS
  <2>1. /\ invitations[i].status = "PENDING" /\ invitations' = [invitations EXCEPT ![i] = row]
        /\ grants' = grants \cup {<<invitations[i].shop, a>>}
    BY <1>7 DEF InviteAgain, Outstanding, Activation, Admitted
  <2>2. row.shop = invitations[i].shop /\ row.status = "ACTIVE"
    BY <1>2 DEF InvitationRows
  <2>3. Admits(a)
    BY <2>1, <2>2, RowAdmits
  <2> QED BY <2>3
<1>8. ASSUME NEW actor, NEW i \in DOMAIN invitations, AcceptInvitation(actor, i) PROVE \E a : Admits(a)
  <2> PICK a : a = actor.account
    OBVIOUS
  <2>1. CASE invitations' = [invitations EXCEPT ![i].status = "EXPIRED"] /\ grants' = grants
    <3> PICK row : row = [invitations[i] EXCEPT !.status = "EXPIRED"]
      OBVIOUS
    <3>1. invitations' = [invitations EXCEPT ![i] = row] /\ invitations[i].status = "PENDING"
      BY <1>8, <2>1 DEF AcceptInvitation
    <3>2. row.shop = invitations[i].shop
      BY <1>2 DEF InvitationRows
    <3>3. Admits(a)
      BY <2>1, <3>1, <3>2, RowAdmits
    <3> QED BY <3>3
  <2>2. CASE /\ invitations' = [invitations EXCEPT ![i].status = "ACTIVE"]
             /\ grants' = grants \cup {<<invitations[i].shop, a>>}
    <3> PICK row : row = [invitations[i] EXCEPT !.status = "ACTIVE"]
      OBVIOUS
    <3>1. invitations' = [invitations EXCEPT ![i] = row] /\ invitations[i].status = "PENDING"
      BY <1>8, <2>2 DEF AcceptInvitation
    <3>2. row.shop = invitations[i].shop /\ row.status = "ACTIVE"
      BY <1>2 DEF InvitationRows
    <3>3. Admits(a)
      BY <2>2, <3>1, <3>2, RowAdmits
    <3> QED BY <3>3
  <2> QED BY <1>8, <2>1, <2>2 DEF AcceptInvitation
<1>9. ASSUME NEW i \in DOMAIN invitations, InvitationDue(i) PROVE \E a : Admits(a)
  <2> PICK row : row = [invitations[i] EXCEPT !.due = TRUE]
    OBVIOUS
  <2>1. invitations' = [invitations EXCEPT ![i] = row] /\ grants' = grants
    BY <1>9 DEF InvitationDue
  <2>2. row.shop = invitations[i].shop /\ row.status = invitations[i].status
    BY <1>2 DEF InvitationRows
  <2>3. Admits(0)
    BY <2>1, <2>2, RowAdmits
  <2> QED BY <2>3
<1>10. CASE CustomerSteps
  <2>1. ASSUME NEW shop, NEW phone, InviteReads(shop, phone) PROVE \E a : Admits(a)
    BY <1>3, <2>1 DEF InviteReads
  <2> QED BY <1>6, <1>7, <1>8, <1>10, <2>1 DEF CustomerSteps
<1>11. CASE Clock
  <2>1. CASE UNCHANGED customerVars
    BY <1>3, <2>1 DEF customerVars
  <2>2. UNCHANGED customerVars \/ \E i \in DOMAIN invitations : InvitationDue(i)
    BY <1>11 DEF Clock, OtpDue, SessionDue
  <2> QED BY <1>9, <2>1, <2>2
<1>12. CASE EnterpriseSteps
  BY <1>3, <1>12 DEF EnterpriseSteps, CreateEnterprise, UpdateProfile, AddMemberReads, AddMemberCommits,
                     RemoveMemberCounts, RemoveMemberCommits, customerVars
<1>13. CASE AccountAdministration
  BY <1>3, <1>13 DEF AccountAdministration, RequestAccountChange, PrepareAccountChange, CommitAccountChange,
                     BootstrapAdministrator, customerVars
<1>14. CASE SessionSteps
  BY <1>3, <1>5, <1>14 DEF SessionSteps, IssueSession, LoginLost, Logout, customerVars
<1>15. CASE Codes \/ Verifications
  BY <1>3, <1>4, <1>15 DEF Codes, RequestOtp, Verifications, WrongCode, VerifyChallenge, VerifyLogin, LoginUnknown,
                           RegisterAgain, LoginInvited, Register, customerVars
<1>16. CASE UNCHANGED vars \/ UNCHANGED identityVars
  BY <1>3, <1>16 DEF vars, identityVars, customerVars
<1> QED BY <1>10, <1>11, <1>12, <1>13, <1>14, <1>15, <1>16 DEF Next, IdentityStep

(* Phones move between accounts.  completePhoneChange merges the pending    *)
(* rows of the new phone before it takes it, so no statement of it breaks a *)
(* unique index but on a row an addMember left behind (postgres.ts:496),    *)
(* and every grant of a shop answers an invitation of its own.              *)
THEOREM PhonesMoveHolds == Spec => []PhonesMove
<1> DEFINE Inv == AccountsInv /\ MembersInv /\ MembersKeyed /\ CustomersTyped /\ InvitationAdmitsOne /\ scenario \in Scenarios
<1>1. Init => Inv
  <2> SUFFICES ASSUME Init PROVE Inv
    OBVIOUS
  <2>1. invitations = <<>> /\ invites = {} /\ grants = {}
    BY DEF Init
  <2>2. CustomersTyped
    BY <2>1 DEF CustomersTyped
  <2>3. InvitationAdmitsOne
    <3>1. \A shop : {g \in grants : g[1] = shop} = {}
          /\ {i \in DOMAIN invitations : invitations[i].shop = shop /\ invitations[i].status = "ACTIVE"} = {}
      BY <2>1
    <3> QED BY <3>1, FS_EmptySet DEF InvitationAdmitsOne
  <2> QED BY <2>2, <2>3, AccountsStart, MembersStart, KeyedStart DEF Init
<1>2. Inv /\ [Next]_vars => Inv'
  BY AccountsNext, MembersNext, KeyedNext, CustomersNext, AdmitsNext DEF Next, vars
<1>3. Inv => PhonesMove
  BY ChangesFit DEF MembersInv, MembersKeyed, PhonesMove
<1> QED
  <2> HIDE DEF Inv
  <2> QED BY <1>1, <1>2, <1>3, PTL DEF Spec

-----------------------------------------------------------------------------
LEMMA RowsFit == IdentityInv => TypeOK
<1> SUFFICES ASSUME IdentityInv PROVE TypeOK
  OBVIOUS
<1>1. AccountsTyped /\ AdminsTyped /\ MembersTyped /\ CustomersTyped /\ LimitsTypeOK /\ scenario \in Scenarios
  BY DEF IdentityInv, AccountsInv, MembersInv, LimitsInv
<1>2. /\ DOMAIN accounts = 1 .. Len(accounts) /\ DOMAIN changes = 1 .. Len(accounts)
      /\ Len(sessions) \in Nat /\ DOMAIN sessions = 1 .. Len(sessions)
      /\ \A s \in 1 .. Len(sessions) : sessions[s] \in SessionRows(Nat)
  BY <1>1, AccountFacts
<1>3. 1 .. Len(accounts) \subseteq AccountIds
  BY <1>1, Bounds, AccountFacts DEF AccountIds, AccountsTyped
<1>4. \A s \in 1 .. Len(sessions) : sessions[s].account \in AccountIds
  BY <1>1, <1>2, <1>3 DEF AccountsTyped
<1>5. \A s \in 1 .. Len(sessions) : sessions[s] \in SessionRows(AccountIds)
  BY <1>2, <1>4 DEF SessionRows
<1>6. sessions \in Seq(SessionRows(AccountIds))
  <2>1. sessions \in [1 .. Len(sessions) -> SessionRows(AccountIds)]
    BY <1>1, <1>2, <1>5, LenProperties DEF AccountsTyped
  <2> QED BY <1>2, <2>1
<1>7. /\ \A l \in logins : l.account \in DOMAIN accounts
      /\ \A t \in adminTxs : t.target \in DOMAIN accounts /\ t.change \in AccountChanges /\ t.prepared \in BOOLEAN
  BY <1>1, <1>2 DEF AccountsTyped, AdminsTyped, AdminTxRows
<1> QED BY <1>1, <1>2, <1>6, <1>7
        DEF TypeOK, AccountsTyped, AdminsTyped, MembersTyped, CustomersTyped, OtpRows, InvitationRows

LEMMA SpentOnce == AccountsInv /\ scenario \in Scenarios => CodesSpentOnce
<1> SUFFICES ASSUME AccountsInv, scenario \in Scenarios, NEW c \in DOMAIN otps,
                    NEW S, S = {s \in DOMAIN sessions : sessions[s].otp = c},
                    NEW L, L = {l \in logins : l.otp = c}
             PROVE  /\ Cardinality(S) + Cardinality(L) <= 1
                    /\ otps[c].failed >= MaxAttempts => S = {} /\ L = {}
  BY DEF CodesSpentOnce
<1>1. c \in 1 .. Len(otps) /\ otps[c].failed \in Int /\ c # 0 /\ MaxAttempts \in Int
  BY AccountFacts, Bounds DEF AccountsInv, OtpRows
<1>2. \A x, y \in S : x = y
  BY <1>1 DEF AccountsInv, CodesOnce
<1>3. \A x, y \in L : x = y
  BY DEF AccountsInv, CodesOnce
<1>4. S = {} \/ L = {}
  BY DEF AccountsInv, CodesOnce
<1>5. ASSUME NEW T, \A x, y \in T : x = y PROVE Cardinality(T) \in {0, 1}
  <2>1. CASE T = {}
    BY <2>1, FS_EmptySet
  <2>2. ASSUME NEW x \in T PROVE Cardinality(T) = 1
    <3>1. T = {x}
      BY <1>5
    <3> QED BY <3>1, FS_Singleton
  <2> QED BY <2>1, <2>2
<1>6. Cardinality(S) \in {0, 1} /\ Cardinality(L) \in {0, 1}
  BY <1>2, <1>3, <1>5
<1>7. Cardinality(S) = 0 \/ Cardinality(L) = 0
  BY <1>4, FS_EmptySet
<1>8. S # {} \/ L # {} => otps[c].failed < MaxAttempts
  BY <1>1 DEF AccountsInv, CodesOnce, Spent
<1>9. Cardinality(S) + Cardinality(L) <= 1
  BY <1>6, <1>7
<1> QED BY <1>1, <1>8, <1>9

(* The type invariant of the module, and with it: verifyOtp consumes a code *)
(* before a login goes on, and issueSession takes the next place in the     *)
(* sequence of the account's logins from the locked row.  No interleaving   *)
(* of logins spends a code twice or gives two sessions the same place.      *)
THEOREM LoginsOnceHolds == Spec => []LoginsOnce
<1>1. Init => IdentityInv
  <2> SUFFICES ASSUME Init PROVE IdentityInv
    OBVIOUS
  <2>1. CustomersTyped
    <3>1. invitations = <<>> /\ invites = {} /\ grants = {}
      BY DEF Init
    <3> QED BY <3>1 DEF CustomersTyped
  <2>2. LimitsInv /\ scenario \in Scenarios
    BY LimitsStart, ScenariosAssumption DEF Init
  <2> QED BY <2>1, <2>2, AccountsStart, MembersStart DEF IdentityInv
<1>2. IdentityInv /\ [Next]_vars => IdentityInv'
  <2> SUFFICES ASSUME IdentityInv, [Next]_vars PROVE IdentityInv'
    OBVIOUS
  <2>1. scenario' \in Scenarios
    BY DEF IdentityInv, Next, vars
  <2> QED BY <2>1, AccountsNext, MembersNext, CustomersNext, LimitsNext DEF IdentityInv
<1>3. IdentityInv => LoginsOnce
  BY RowsFit, SpentOnce DEF IdentityInv, AccountsInv, Counted, LoginsOnce
<1> QED BY <1>1, <1>2, <1>3, PTL DEF Spec

=============================================================================
