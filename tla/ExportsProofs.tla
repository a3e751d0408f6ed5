---------------------------- MODULE ExportsProofs ----------------------------
(***************************************************************************)
(* That live exports rest on their membership (LiveExportsEntitled) and     *)
(* that the object store holds what the rows refer to (FilesSound), for     *)
(* every number of accounts, exports, workers, retries and faults.          *)
(***************************************************************************)
EXTENDS Exports, TLAPS

-----------------------------------------------------------------------------
(* The inductive invariant: rows.                                           *)

JobRow == [event : [work : ExportIds], state : JobStates, retries : Nat,
           overtaken : BOOLEAN, marked : BOOLEAN]
ExportRow == [status : ExportStatus, by : Accounts, snapshot : Nat, version : Nat, key : Keys,
              params : Params, due : BOOLEAN, progress : 0..4]
GrantRow == [export : ExportIds, account : Accounts, version : Nat,
             state : {"ACTIVE", "EXPIRED", "CONSUMED", "REVOKED"}]
ActorRow == [account : Accounts, active : BOOLEAN, role : {"ADMIN", "ACCOUNTANT"},
             enterprises : SUBSET {Enterprise}]
RequestRow == {NoRequest} \cup [pc : {"ready"}, actor : ActorRow]
                \cup [pc : {"resolved", "creating"}, actor : ActorRow, snapshot : Nat, params : Params]

RowsOK ==
  /\ scenario \in Scenarios
  /\ shop \in ShopStates /\ staff \subseteq Accounts /\ current \in 0..MaxSnapshots
  /\ membership \in [Accounts -> MembershipRows]
  /\ export \in Seq(ExportRow) /\ Len(export) <= MaxExports
  /\ grants \in Seq(GrantRow) /\ \A g \in DOMAIN grants : grants[g].export \in DOMAIN export
  /\ request \in [Requests -> RequestRow]

JobFits(w, job) == job.event \in outbox /\ job.event.work = w /\ (job.marked => job.state = "failed")

QueueOK ==
  /\ outbox \subseteq {[work |-> i] : i \in DOMAIN export} /\ sent \subseteq outbox
  /\ jobs \in [ExportIds -> Seq(JobRow)]
  /\ \A w \in ExportIds : \A n \in DOMAIN jobs[w] : JobFits(w, jobs[w][n])

-----------------------------------------------------------------------------
(* What a callback has in hand.                                             *)

Before    == {"prepare", "build", "store", "commit"}   \* claimed, and not committed yet
Stages    == Before \cup {"work", "drop", "tidy", "clear", "project", "sweep"}
SlotFits(v) ==
  v = Idle \/
    (/\ "pc" \in DOMAIN v /\ v.pc \in Stages \cup {"fetched", "ack"}
     /\ v.work \in DOMAIN export /\ v.n \in DOMAIN jobs[v.work]
     /\ v.pc = "ack" => v.result \in {"completed", "deadletter", "failed"}
     /\ v.pc \in {"project", "sweep"} => v.result \in {"deadletter", "failed"}
     /\ v.pc = "tidy" => v.run \in {"completed", "permanent", "transient"}
     /\ v.pc = "clear" => v.run = "completed")
SlotsOK == DOMAIN slot = Slots /\ \A s \in Slots : SlotFits(slot[s])

RecOK ==
  rec # RecIdle => /\ rec = [pc |-> rec.pc, work |-> rec.work, n |-> rec.n]
                   /\ rec.pc \in {"project", "sweep", "record"}
                   /\ rec.work \in DOMAIN export /\ rec.n \in DOMAIN jobs[rec.work]
                   /\ Job(rec).state = "failed" /\ ~Job(rec).marked

(* The execution lock: one callback, or the reconciler, for an export.      *)
Exclusive ==
  /\ \A s, t \in Slots : Executing(s) /\ Executing(t) /\ slot[s].work = slot[t].work => s = t
  /\ \A s \in Slots : Executing(s) /\ rec # RecIdle => slot[s].work # rec.work

-----------------------------------------------------------------------------
(* Files.                                                                   *)

(* The ciphertext is there from the step before the commit on.              *)
FilesOK ==
  /\ work \cup cipher \cup objects \subseteq DOMAIN export /\ objects \subseteq cipher
  /\ \A i \in objects : export[i].status \in {"SUCCEEDED", "REVOKED"}
  /\ \A i \in DOMAIN export : export[i].status = "SUCCEEDED" => i \in objects
  /\ \A s \in Slots : slot[s].pc = "commit" => slot[s].work \in cipher
  /\ \A s \in Slots : slot[s].pc = "clear" => slot[s].work \in objects

(* Whoever is about to report success leaves a decided export, and no other *)
(* callback goes on generating it.                                          *)
Reporting(v, i) == v # Idle /\ v.pc = "ack" /\ v.result = "completed" /\ v.work = i
Done(i) == (\E n \in DOMAIN jobs[i] : jobs[i][n].state = "completed")
             \/ (\E s \in Slots : Reporting(slot[s], i))
Decided(i) == export[i].status \notin LiveStatus
Generating(s) == slot[s].pc \in Before \cup {"tidy", "clear"}
DoneDecided ==
  /\ \A i \in DOMAIN export : Done(i) => Decided(i) /\ \A s \in Slots : Generating(s) => slot[s].work # i
  /\ \A s \in Slots : slot[s].pc \in Before => export[slot[s].work].status # "QUEUED"
  /\ \A s \in Slots : slot[s].pc = "drop" \/ (slot[s].pc \in {"tidy", "clear"} /\ slot[s].run = "completed")
                        => Decided(slot[s].work)

(* No one marks the job of a callback that holds the lock, and while none   *)
(* dies, files that no row refers to are in the hands of a callback.        *)
HeldUnmarked == \A s \in Slots : Executing(s) => ~Job(slot[s]).marked
Leaving == {"store", "commit", "tidy", "clear"}
LeftoversHeld ==
  FaultKinds \cap {"crash", "refused"} = {} =>
    \A i \in (cipher \ objects) \cup work :
      \E s \in Slots : slot[s].pc \in Leaving /\ slot[s].work = i

ExportsInv ==
  /\ RowsOK /\ QueueOK /\ SlotsOK /\ RecOK /\ Exclusive /\ FilesOK
  /\ LiveExportsEntitled /\ DoneDecided /\ HeldUnmarked /\ LeftoversHeld

-----------------------------------------------------------------------------
(* Rows.                                                                    *)

LEMMA SameScenario ==
  ASSUME scenario' = scenario
  PROVE  /\ Accounts' = Accounts /\ MaxSnapshots' = MaxSnapshots /\ Admins' = Admins
         /\ ExportRow' = ExportRow /\ GrantRow' = GrantRow /\ RequestRow' = RequestRow
         /\ FaultKinds' = FaultKinds
<1>1. Accounts' = Accounts
  BY DEF Accounts
<1> QED BY <1>1 DEF MaxSnapshots, Admins, FaultKinds, ExportRow, GrantRow, RequestRow, ActorRow

LEMMA ExportFacts ==
  ASSUME RowsOK
  PROVE  /\ Len(export) \in Nat /\ DOMAIN export = 1..Len(export) /\ DOMAIN export \subseteq ExportIds
         /\ \A i \in DOMAIN export : export[i] \in ExportRow
<1>1. export \in Seq(ExportRow) /\ Len(export) <= MaxExports /\ MaxExports \in Nat
  BY ExportsAssumption DEF RowsOK
<1>2. Len(export) \in Nat /\ DOMAIN export = 1..Len(export)
  BY <1>1
<1>3. \A i \in DOMAIN export : export[i] \in ExportRow
  BY <1>1
<1> QED BY <1>1, <1>2, <1>3 DEF ExportIds

(* What edits of a row leave in it.                                         *)
LEMMA RowEdits ==
  ASSUME NEW row \in ExportRow, NEW status \in ExportStatus, NEW percent \in 0..4
  PROVE  /\ [row EXCEPT !.status = status] \in ExportRow
         /\ [row EXCEPT !.status = status].status = status
         /\ [row EXCEPT !.status = status].by = row.by
         /\ [row EXCEPT !.status = status].version = row.version
         /\ [row EXCEPT !.due = TRUE] \in ExportRow
         /\ [row EXCEPT !.due = TRUE].status = row.status
         /\ [row EXCEPT !.due = TRUE].by = row.by
         /\ [row EXCEPT !.due = TRUE].version = row.version
         /\ [row EXCEPT !.progress = percent] \in ExportRow
         /\ [row EXCEPT !.progress = percent].status = row.status
         /\ [row EXCEPT !.progress = percent].by = row.by
         /\ [row EXCEPT !.progress = percent].version = row.version
         /\ [row EXCEPT !.status = status, !.progress = percent] \in ExportRow
         /\ [row EXCEPT !.status = status, !.progress = percent].status = status
         /\ [row EXCEPT !.status = status, !.progress = percent].by = row.by
         /\ [row EXCEPT !.status = status, !.progress = percent].version = row.version
BY DEF ExportRow

LEMMA StatusEdit ==
  ASSUME NEW row \in ExportRow, NEW status \in ExportStatus
  PROVE  /\ [row EXCEPT !.status = status] \in ExportRow
         /\ [row EXCEPT !.status = status].status = status
         /\ [row EXCEPT !.status = status].by = row.by
         /\ [row EXCEPT !.status = status].version = row.version
<1>1. 0 \in 0..4
  OBVIOUS
<1> QED BY <1>1, RowEdits

(* An export keeps its owner and its version, and its status moves forward. *)
Moves(old, new, done) ==
  \/ new = old
  \/ old \in LiveStatus /\ new \in {"RUNNING", "FAILED", "CANCELLED", "REVOKED"}
  \/ old = "SUCCEEDED" /\ new = "REVOKED"
  \/ old = "RUNNING" /\ new = "SUCCEEDED" /\ done
Moved ==
  /\ DOMAIN export \subseteq DOMAIN export'
  /\ \A i \in DOMAIN export : /\ export'[i].by = export[i].by /\ export'[i].version = export[i].version
                              /\ Moves(export[i].status, export'[i].status, i \in objects')

LEMMA SameMoves ==
  ASSUME export' = export
  PROVE  Moved
BY DEF Moved, Moves

(* One row changes.                                                         *)
LEMMA RowEdited ==
  ASSUME RowsOK, NEW i \in DOMAIN export, NEW row \in ExportRow, export' = [export EXCEPT ![i] = row],
         row.by = export[i].by, row.version = export[i].version,
         Moves(export[i].status, row.status, i \in objects')
  PROVE  /\ export' \in Seq(ExportRow) /\ Len(export') = Len(export) /\ DOMAIN export' = DOMAIN export
         /\ \A k \in DOMAIN export : export'[k] = IF k = i THEN row ELSE export[k]
         /\ Moved
<1>1. export \in Seq(ExportRow) /\ i \in 1..Len(export) /\ DOMAIN export = 1..Len(export)
  BY ExportFacts DEF RowsOK
<1>2. export' \in Seq(ExportRow) /\ Len(export') = Len(export)
  BY <1>1
<1>3. DOMAIN export' = DOMAIN export
  OBVIOUS
<1>4. \A k \in DOMAIN export : export'[k] = IF k = i THEN row ELSE export[k]
  OBVIOUS
<1> QED BY <1>2, <1>3, <1>4 DEF Moved, Moves

(* What rests on a membership goes on resting on it.                        *)
NewEntitled ==
  \A i \in DOMAIN export' \ DOMAIN export :
    /\ export'[i].status = "QUEUED"
    /\ export'[i].version # Unbound => Entitled(export'[i].by, export'[i].version)
GrantsMoved ==
  \A g \in DOMAIN grants' :
    \/ /\ g \in DOMAIN grants /\ grants'[g].account = grants[g].account
       /\ grants'[g].version = grants[g].version
       /\ grants'[g].state = "ACTIVE" => grants[g].state = "ACTIVE"
    \/ grants'[g].version # Unbound => Entitled(grants'[g].account, grants'[g].version)

LEMMA EntitledKept ==
  ASSUME LiveExportsEntitled, membership' = membership, Moved, NewEntitled, GrantsMoved
  PROVE  LiveExportsEntitled'
<1>1. \A a, version : Entitled(a, version)' <=> Entitled(a, version)
  BY DEF Entitled
<1>2. ASSUME NEW i \in DOMAIN export', export'[i].version # Unbound,
             export'[i].status \in LiveStatus \cup {"SUCCEEDED"}
      PROVE  Entitled(export'[i].by, export'[i].version)
  <2>1. CASE i \in DOMAIN export
    BY <1>2, <2>1 DEF Moved, Moves, LiveExportsEntitled, LiveStatus
  <2>2. CASE i \notin DOMAIN export
    BY <1>2, <2>2 DEF NewEntitled
  <2> QED BY <2>1, <2>2
<1>3. ASSUME NEW g \in DOMAIN grants', grants'[g].version # Unbound, grants'[g].state = "ACTIVE"
      PROVE  Entitled(grants'[g].account, grants'[g].version)
  BY <1>3 DEF GrantsMoved, LiveExportsEntitled
<1> QED BY <1>1, <1>2, <1>3 DEF LiveExportsEntitled, Entitled

(* Who may export as a customer is entitled to what it asks for.            *)
LEMMA MayExportEntitles ==
  ASSUME NEW actor, MayExport(actor), Version(actor) # Unbound
  PROVE  Entitled(actor.account, Version(actor))
BY DEF MayExport, AuthorizeShop, CustomerMay, Version, UsesCustomerMembership, MembershipOf, Entitled

LEMMA VersionTyped ==
  ASSUME RowsOK, NEW actor \in ActorRow
  PROVE  Version(actor) \in Nat
<1>1. membership[actor.account] \in MembershipRows
  BY DEF RowsOK, ActorRow
<1> QED BY <1>1 DEF Version, MembershipOf, Unbound, MembershipRows

(* Nothing is done for an export that does not exist.                       *)
LEMMA NothingDone ==
  ASSUME QueueOK, SlotsOK, NEW i \in ExportIds, i \notin DOMAIN export
  PROVE  ~Done(i)
<1>1. ASSUME NEW n \in DOMAIN jobs[i] PROVE FALSE
  BY <1>1 DEF QueueOK, JobFits
<1>2. ASSUME NEW s \in Slots, Reporting(slot[s], i) PROVE FALSE
  BY <1>2 DEF SlotsOK, SlotFits, Reporting
<1> QED BY <1>1, <1>2 DEF Done

LEMMA DoneSame ==
  ASSUME jobs' = jobs, slot' = slot, NEW i
  PROVE  Done(i)' <=> Done(i)
BY DEF Done

-----------------------------------------------------------------------------
(* Steps of the API and of what others do: rows only.                       *)

LEMMA RowsFrame ==
  ASSUME ExportsInv, UNCHANGED <<sent, jobs, slot, rec, work, cipher, objects, scenario>>,
         outbox \subseteq outbox', outbox' \subseteq {[work |-> i] : i \in DOMAIN export'},
         RowsOK', Moved, \A i \in DOMAIN export' \ DOMAIN export : export'[i].status = "QUEUED",
         LiveExportsEntitled'
  PROVE  ExportsInv'
<1>0. DOMAIN export \subseteq DOMAIN export' /\ FaultKinds' = FaultKinds
  BY SameScenario DEF Moved
<1>1. QueueOK'
  BY DEF ExportsInv, QueueOK, JobFits
<1>2. SlotsOK'
  BY <1>0 DEF ExportsInv, SlotsOK, SlotFits
<1>3. RecOK'
  BY <1>0 DEF ExportsInv, RecOK, Job
<1>4. Exclusive' /\ HeldUnmarked'
  BY DEF ExportsInv, Exclusive, HeldUnmarked, Executing, Job
<1>5. FilesOK'
  <2>1. /\ work \cup cipher \cup objects \subseteq DOMAIN export' /\ objects \subseteq cipher
        /\ \A s \in Slots : slot[s].pc = "commit" => slot[s].work \in cipher
        /\ \A s \in Slots : slot[s].pc = "clear" => slot[s].work \in objects
    BY <1>0 DEF ExportsInv, FilesOK
  <2>2. \A i \in objects : export'[i].status \in {"SUCCEEDED", "REVOKED"}
    BY DEF ExportsInv, FilesOK, Moved, Moves, LiveStatus
  <2>3. \A i \in DOMAIN export' : export'[i].status = "SUCCEEDED" => i \in objects
    BY DEF ExportsInv, FilesOK, Moved, Moves, LiveStatus
  <2> QED BY <2>1, <2>2, <2>3 DEF FilesOK
<1>6. DoneDecided'
  <2>1. \A i \in DOMAIN export : Decided(i) => Decided(i)'
    BY DEF Decided, Moved, Moves, LiveStatus
  <2>2. \A s \in Slots : slot[s].pc \in Before \cup {"drop", "tidy", "clear"} => slot[s].work \in DOMAIN export
    BY DEF ExportsInv, SlotsOK, SlotFits, Before, Idle
  <2>3. ASSUME NEW i \in DOMAIN export', Done(i)
        PROVE  Decided(i)' /\ \A s \in Slots : Generating(s)' => slot'[s].work # i
    <3>1. i \in DOMAIN export
      <4>1. DOMAIN export' \subseteq ExportIds
        <5>1. export' \in Seq(ExportRow') /\ Len(export') <= MaxExports /\ MaxExports \in Nat
          BY ExportsAssumption DEF RowsOK
        <5> QED BY <5>1 DEF ExportIds
      <4> QED BY <2>3, <4>1, NothingDone DEF ExportsInv
    <3> QED BY <2>1, <2>3, <3>1 DEF ExportsInv, DoneDecided, Generating
  <2>4. \A s \in Slots : slot[s].pc \in Before => export'[slot[s].work].status # "QUEUED"
    BY <2>2 DEF ExportsInv, DoneDecided, Moved, Moves
  <2>5. \A s \in Slots : slot[s].pc = "drop" \/ (slot[s].pc \in {"tidy", "clear"} /\ slot[s].run = "completed")
                           => Decided(slot[s].work)'
    BY <2>1, <2>2 DEF ExportsInv, DoneDecided, Decided
  <2> QED BY <2>3, <2>4, <2>5, DoneSame DEF DoneDecided, Decided
<1>7. LeftoversHeld'
  BY <1>0 DEF ExportsInv, LeftoversHeld
<1> QED BY <1>1, <1>2, <1>3, <1>4, <1>5, <1>6, <1>7 DEF ExportsInv

(* Exports and memberships are left alone.                                  *)
LEMMA QuietFrame ==
  ASSUME ExportsInv, UNCHANGED <<queueVars, scenario, membership, export, work, cipher, objects>>,
         RowsOK', GrantsMoved
  PROVE  ExportsInv'
<1>1. Moved /\ NewEntitled
  BY SameMoves DEF NewEntitled
<1>2. LiveExportsEntitled'
  BY <1>1, EntitledKept DEF ExportsInv
<1>3. outbox' = outbox /\ outbox \subseteq {[work |-> i] : i \in DOMAIN export}
  BY DEF ExportsInv, QueueOK, queueVars
<1>4. UNCHANGED <<sent, jobs, slot, rec, work, cipher, objects, scenario>>
  BY DEF queueVars
<1> QED BY <1>1, <1>2, <1>3, <1>4, RowsFrame

LEMMA GrantsSame ==
  ASSUME grants' = grants
  PROVE  GrantsMoved
BY DEF GrantsMoved

(* What a request may hold in its place afterwards.                         *)
LEMMA RequestRows ==
  ASSUME RowsOK, NEW q \in Requests
  PROVE  /\ [request EXCEPT ![q] = NoRequest] \in [Requests -> RequestRow]
         /\ request[q].pc \in {"ready", "resolved", "creating"} => request[q].actor \in ActorRow
         /\ request[q].pc \in {"resolved", "creating"} =>
              /\ request[q] \in [pc : {"resolved", "creating"}, actor : ActorRow, snapshot : Nat, params : Params]
              /\ [request EXCEPT ![q] = [request[q] EXCEPT !.pc = "creating"]] \in [Requests -> RequestRow]
<1>1. request \in [Requests -> RequestRow] /\ request[q] \in RequestRow
  BY DEF RowsOK
<1>2. NoRequest \in RequestRow
  BY DEF RequestRow
<1>3. request[q].pc \in {"ready", "resolved", "creating"} => request[q].actor \in ActorRow
  BY <1>1 DEF RequestRow, NoRequest
<1>4. ASSUME request[q].pc \in {"resolved", "creating"}
      PROVE  /\ request[q] \in [pc : {"resolved", "creating"}, actor : ActorRow, snapshot : Nat, params : Params]
             /\ [request[q] EXCEPT !.pc = "creating"] \in RequestRow
  <2>1. request[q] \in [pc : {"resolved", "creating"}, actor : ActorRow, snapshot : Nat, params : Params]
    BY <1>1, <1>4 DEF RequestRow, NoRequest
  <2>2. [request[q] EXCEPT !.pc = "creating"]
          \in [pc : {"resolved", "creating"}, actor : ActorRow, snapshot : Nat, params : Params]
    BY <2>1
  <2> QED BY <2>1, <2>2 DEF RequestRow
<1> QED BY <1>1, <1>2, <1>3, <1>4

LEMMA AuthenticateStep ==
  ASSUME ExportsInv, NEW q \in Requests, NEW a \in Accounts, Authenticate(q, a), UNCHANGED faultVars
  PROVE  ExportsInv'
<1>1. Actor(a) \in ActorRow
  BY DEF Actor, ActorRow
<1>2. [pc |-> "ready", actor |-> Actor(a)] \in RequestRow
  BY <1>1 DEF RequestRow
<1>3. request' \in [Requests -> RequestRow]
  BY <1>2 DEF ExportsInv, RowsOK, Authenticate
<1>4. RowsOK'
  BY <1>3, SameScenario DEF ExportsInv, RowsOK, Authenticate, faultVars
<1> QED BY <1>4, QuietFrame, GrantsSame DEF Authenticate, faultVars

LEMMA ResolveCurrentStep ==
  ASSUME ExportsInv, NEW q \in Requests, NEW p \in Params, ResolveCurrent(q, p), UNCHANGED faultVars
  PROVE  ExportsInv'
<1>1. request[q].actor \in ActorRow
  BY RequestRows DEF ExportsInv, ResolveCurrent
<1>0. current \in Nat
  BY ExportsAssumption DEF ExportsInv, RowsOK, MaxSnapshots
<1>2. [pc |-> "resolved", actor |-> request[q].actor, snapshot |-> current, params |-> p] \in RequestRow
  BY <1>0, <1>1 DEF RequestRow
<1>3. request' \in [Requests -> RequestRow]
  BY <1>2 DEF ExportsInv, RowsOK, ResolveCurrent
<1>4. RowsOK'
  BY <1>3, SameScenario DEF ExportsInv, RowsOK, ResolveCurrent, faultVars
<1> QED BY <1>4, QuietFrame, GrantsSame DEF ResolveCurrent, faultVars

LEMMA ReuseCurrentStep ==
  ASSUME ExportsInv, NEW q \in Requests, ReuseCurrent(q), UNCHANGED faultVars
  PROVE  ExportsInv'
<1>1. \/ request' = [request EXCEPT ![q] = NoRequest]
      \/ request' = [request EXCEPT ![q] = [request[q] EXCEPT !.pc = "creating"]]
  BY DEF ReuseCurrent
<1>2. request' \in [Requests -> RequestRow]
  BY <1>1, RequestRows DEF ExportsInv, ReuseCurrent
<1>3. RowsOK'
  BY <1>2, SameScenario DEF ExportsInv, RowsOK, ReuseCurrent, faultVars
<1> QED BY <1>3, QuietFrame, GrantsSame DEF ReuseCurrent, faultVars

LEMMA CreateDownloadTokenStep ==
  ASSUME ExportsInv, NEW q \in Requests, NEW i \in DOMAIN export, CreateDownloadToken(q, i), UNCHANGED faultVars
  PROVE  ExportsInv'
<1> PICK actor : actor = request[q].actor
  OBVIOUS
<1> PICK grant : grant = [export |-> i, account |-> actor.account, version |-> Version(actor), state |-> "ACTIVE"]
  OBVIOUS
<1>1. actor \in ActorRow /\ request' \in [Requests -> RequestRow]
  BY RequestRows DEF ExportsInv, CreateDownloadToken, Answered
<1>2. grants \in Seq(GrantRow) /\ grants' = Append(grants, grant)
  BY DEF ExportsInv, RowsOK, CreateDownloadToken
<1>3. grant \in GrantRow /\ grant.export \in DOMAIN export
  BY <1>1, VersionTyped, ExportFacts DEF ExportsInv, GrantRow, ActorRow
<1>4. /\ grants' \in Seq(GrantRow) /\ Len(grants) \in Nat /\ DOMAIN grants = 1..Len(grants)
      /\ DOMAIN grants' = 1..(Len(grants) + 1) /\ grants'[Len(grants) + 1] = grant
      /\ \A g \in DOMAIN grants : grants'[g] = grants[g]
  BY <1>2, <1>3
<1>5. GrantsMoved
  <2>1. ASSUME NEW g \in DOMAIN grants', g \notin DOMAIN grants, grants'[g].version # Unbound
        PROVE  Entitled(grants'[g].account, grants'[g].version)
    <3>1. grants'[g] = grant
      BY <1>4, <2>1
    <3>2. grant.account = actor.account /\ grant.version = Version(actor)
      OBVIOUS
    <3> QED BY <2>1, <3>1, <3>2, MayExportEntitles DEF CreateDownloadToken
  <2> QED BY <1>4, <2>1 DEF GrantsMoved
<1>6. RowsOK'
  <2>1. \A g \in DOMAIN grants' : grants'[g].export \in DOMAIN export
    BY <1>3, <1>4 DEF ExportsInv, RowsOK
  <2> QED BY <1>1, <1>4, <2>1, SameScenario DEF ExportsInv, RowsOK, CreateDownloadToken, faultVars
<1> QED BY <1>5, <1>6, QuietFrame DEF CreateDownloadToken, faultVars

(* A grant changes its state and never becomes active again.                *)
LEMMA GrantEdited ==
  ASSUME RowsOK, NEW g \in DOMAIN grants, NEW state \in {"EXPIRED", "CONSUMED"},
         grants' = [grants EXCEPT ![g].state = state], export' = export
  PROVE  /\ grants' \in Seq(GrantRow) /\ \A k \in DOMAIN grants' : grants'[k].export \in DOMAIN export
         /\ GrantsMoved
<1>1. grants \in Seq(GrantRow) /\ grants[g] \in GrantRow
  BY DEF RowsOK
<1>2. PICK row : row = [grants[g] EXCEPT !.state = state]
  OBVIOUS
<1>3. /\ row \in GrantRow /\ row.export = grants[g].export /\ row.account = grants[g].account
      /\ row.version = grants[g].version /\ row.state = state
  BY <1>1, <1>2 DEF GrantRow
<1>4. grants' = [grants EXCEPT ![g] = row]
  BY <1>2
<1>5. grants' \in Seq(GrantRow) /\ DOMAIN grants' = DOMAIN grants
  BY <1>1, <1>3, <1>4
<1>6. \A k \in DOMAIN grants : grants'[k] = IF k = g THEN row ELSE grants[k]
  BY <1>4
<1> QED BY <1>3, <1>5, <1>6 DEF GrantsMoved, RowsOK

LEMMA DownloadStep ==
  ASSUME ExportsInv, NEW q \in Requests, NEW g \in DOMAIN grants, Download(q, g), UNCHANGED faultVars
  PROVE  ExportsInv'
<1>1. request' \in [Requests -> RequestRow]
  BY RequestRows DEF ExportsInv, Download, Answered
<1>2. /\ grants' \in Seq(GrantRow) /\ \A k \in DOMAIN grants' : grants'[k].export \in DOMAIN export
      /\ GrantsMoved
  BY GrantEdited DEF ExportsInv, Download
<1>3. RowsOK'
  BY <1>1, <1>2, SameScenario DEF ExportsInv, RowsOK, Download, faultVars
<1> QED BY <1>2, <1>3, QuietFrame DEF Download, faultVars

LEMMA CreateStep ==
  ASSUME ExportsInv, NEW q \in Requests, NEW actor \in ActorRow, NEW n \in Nat, NEW k \in Keys, NEW p \in Params,
         Create(q, actor, n, k, p), UNCHANGED faultVars
  PROVE  ExportsInv'
<1> PICK row : row = NewExport(actor, n, k, p)
  OBVIOUS
<1>1. request' \in [Requests -> RequestRow]
  BY RequestRows DEF ExportsInv, Create, Answered
<1>2. CASE export' = export /\ outbox' = outbox
  <2>1. RowsOK'
    BY <1>1, <1>2, SameScenario DEF ExportsInv, RowsOK, Create, faultVars
  <2> QED BY <1>2, <2>1, QuietFrame, GrantsSame DEF Create, faultVars, queueVars
<1>3. CASE /\ MayExport(actor) /\ Len(export) < MaxExports /\ export' = Append(export, row)
           /\ outbox' = outbox \cup {[work |-> Len(export) + 1]}
  <2>1. /\ row \in ExportRow /\ row.status = "QUEUED" /\ row.by = actor.account /\ row.version = Version(actor)
    <3>1. Version(actor) \in Nat
      BY VersionTyped DEF ExportsInv
    <3> QED BY <3>1 DEF NewExport, ExportRow, ActorRow, ExportStatus, LiveStatus
  <2>2. /\ Len(export) \in Nat /\ DOMAIN export = 1..Len(export) /\ export \in Seq(ExportRow)
    BY ExportFacts DEF ExportsInv, RowsOK
  <2>3. /\ export' \in Seq(ExportRow) /\ Len(export') = Len(export) + 1 /\ DOMAIN export' = 1..(Len(export) + 1)
        /\ export'[Len(export) + 1] = row /\ \A i \in DOMAIN export : export'[i] = export[i]
    BY <1>3, <2>1, <2>2
  <2>4. Moved
    BY <2>2, <2>3 DEF Moved, Moves
  <2>5. \A i \in DOMAIN export' \ DOMAIN export : export'[i] = row
    BY <2>2, <2>3
  <2>6. NewEntitled
    BY <1>3, <2>1, <2>5, MayExportEntitles DEF NewEntitled
  <2>7. /\ membership' = membership /\ grants' = grants
        /\ UNCHANGED <<sent, jobs, slot, rec, work, cipher, objects, scenario>>
    BY DEF Create, faultVars
  <2>8. LiveExportsEntitled'
    BY <2>4, <2>6, <2>7, EntitledKept, GrantsSame DEF ExportsInv
  <2>9. RowsOK'
    <3>1. Len(export') <= MaxExports
      BY <1>3, <2>2, <2>3, ExportsAssumption
    <3>2. \A g \in DOMAIN grants' : grants'[g].export \in DOMAIN export'
      BY <2>4, <2>7 DEF ExportsInv, RowsOK, Moved
    <3> QED BY <1>1, <2>3, <2>7, <3>1, <3>2, SameScenario DEF ExportsInv, RowsOK, Create
  <2>10. outbox \subseteq outbox' /\ outbox' \subseteq {[work |-> i] : i \in DOMAIN export'}
    BY <1>3, <2>2, <2>3 DEF ExportsInv, QueueOK
  <2>11. \A i \in DOMAIN export' \ DOMAIN export : export'[i].status = "QUEUED"
    BY <2>1, <2>5
  <2> QED BY <2>4, <2>7, <2>8, <2>9, <2>10, <2>11, RowsFrame
<1> QED BY <1>2, <1>3 DEF Create

LEMMA CreateExportStep ==
  ASSUME ExportsInv, NEW q \in Requests, NEW n \in 1..current, NEW k \in Keys, NEW p \in Params,
         CreateExport(q, n, k, p), UNCHANGED faultVars
  PROVE  ExportsInv'
<1>1. request[q].actor \in ActorRow
  BY RequestRows DEF ExportsInv, CreateExport
<1>2. n \in Nat
  BY ExportsAssumption DEF ExportsInv, RowsOK, MaxSnapshots
<1> QED BY <1>1, <1>2, CreateStep DEF CreateExport

LEMMA CreateCurrentStep ==
  ASSUME ExportsInv, NEW q \in Requests, NEW k \in Keys, CreateCurrent(q, k), UNCHANGED faultVars
  PROVE  ExportsInv'
<1>1. request[q].actor \in ActorRow /\ request[q].snapshot \in Nat /\ request[q].params \in Params
  BY RequestRows DEF ExportsInv, CreateCurrent
<1> QED BY <1>1, CreateStep DEF CreateCurrent

(* A step that changes one row of export_request, and no grant.             *)
LEMMA EditFrame ==
  ASSUME ExportsInv, NEW i \in DOMAIN export, NEW row \in ExportRow, export' = [export EXCEPT ![i] = row],
         row.by = export[i].by, row.version = export[i].version,
         Moves(export[i].status, row.status, i \in objects'),
         UNCHANGED <<scenario, shop, staff, membership, current, grants>>, request' \in [Requests -> RequestRow]
  PROVE  RowsOK' /\ Moved /\ LiveExportsEntitled' /\ DOMAIN export' = DOMAIN export
<1>1. /\ export' \in Seq(ExportRow) /\ Len(export') = Len(export) /\ DOMAIN export' = DOMAIN export /\ Moved
  BY RowEdited DEF ExportsInv
<1>2. LiveExportsEntitled'
  BY <1>1, EntitledKept, GrantsSame DEF ExportsInv, NewEntitled
<1>3. RowsOK'
  BY <1>1, SameScenario DEF ExportsInv, RowsOK
<1> QED BY <1>1, <1>2, <1>3

LEMMA CancelStep ==
  ASSUME ExportsInv, NEW q \in Requests, NEW i \in DOMAIN export, Cancel(q, i), UNCHANGED faultVars
  PROVE  ExportsInv'
<1>1. request' \in [Requests -> RequestRow]
  BY RequestRows DEF ExportsInv, Cancel, Answered
<1>2. CASE export' = export
  <2>1. RowsOK'
    BY <1>1, <1>2, SameScenario DEF ExportsInv, RowsOK, Cancel, faultVars
  <2> QED BY <1>2, <2>1, QuietFrame, GrantsSame DEF Cancel, faultVars
<1>3. CASE Cancellable(export[i]) /\ export' = [export EXCEPT ![i].status = "CANCELLED"]
  <2>1. PICK row : row = [export[i] EXCEPT !.status = "CANCELLED"]
    OBVIOUS
  <2>2. export[i] \in ExportRow /\ "CANCELLED" \in ExportStatus
    BY ExportFacts DEF ExportsInv, ExportStatus
  <2>3. row \in ExportRow /\ row.status = "CANCELLED" /\ row.by = export[i].by /\ row.version = export[i].version
    BY <2>1, <2>2, StatusEdit
  <2>4. export' = [export EXCEPT ![i] = row]
    BY <1>3, <2>1
  <2>5. Moves(export[i].status, row.status, i \in objects')
    BY <1>3, <2>3 DEF Moves, Cancellable
  <2>6. UNCHANGED <<queueVars, scenario, shop, staff, membership, current, grants, work, cipher, objects>>
    BY DEF Cancel, faultVars
  <2>7. RowsOK' /\ Moved /\ LiveExportsEntitled' /\ DOMAIN export' = DOMAIN export
    BY <1>1, <2>3, <2>4, <2>5, <2>6, EditFrame
  <2>8. outbox \subseteq outbox' /\ outbox' \subseteq {[work |-> k] : k \in DOMAIN export'}
    BY <2>6, <2>7 DEF ExportsInv, QueueOK, queueVars
  <2>9. UNCHANGED <<sent, jobs, slot, rec, work, cipher, objects, scenario>>
    BY <2>6 DEF queueVars
  <2> QED BY <2>7, <2>8, <2>9, RowsFrame
<1> QED BY <1>2, <1>3 DEF Cancel

LEMMA ApiStep ==
  ASSUME ExportsInv, Api, UNCHANGED faultVars
  PROVE  ExportsInv'
BY AuthenticateStep, CreateExportStep, ResolveCurrentStep, ReuseCurrentStep, CreateCurrentStep,
   CancelStep, CreateDownloadTokenStep, DownloadStep DEF Api

-----------------------------------------------------------------------------
(* Others.                                                                  *)

(* The invalidation ends what does not rest on the new epoch.               *)
LEMMA InvalidationEnds ==
  ASSUME ExportsInv, NEW a \in Accounts, NEW row \in MembershipRows, InvalidateForMembership(a, row.epoch),
         membership' = [membership EXCEPT ![a] = row], row.epoch = membership[a].epoch + 1,
         UNCHANGED <<scenario, shop, staff, current, request>>
  PROVE  RowsOK' /\ Moved /\ LiveExportsEntitled' /\ DOMAIN export' = DOMAIN export
<1>1. /\ export \in Seq(ExportRow) /\ Len(export) <= MaxExports /\ grants \in Seq(GrantRow)
      /\ Len(export) \in Nat /\ DOMAIN export = 1..Len(export) /\ Len(grants) \in Nat /\ DOMAIN grants = 1..Len(grants)
  BY ExportFacts DEF ExportsInv, RowsOK
<1>2. /\ DOMAIN export' = DOMAIN export /\ DOMAIN grants' = DOMAIN grants
      /\ \A i \in DOMAIN export : export'[i] =
           IF Invalidated(export[i], a, row.epoch) THEN [export[i] EXCEPT !.status = "REVOKED"] ELSE export[i]
  BY DEF InvalidateForMembership
<1>3. ASSUME NEW i \in DOMAIN export
      PROVE  /\ export'[i] \in ExportRow /\ export'[i].by = export[i].by /\ export'[i].version = export[i].version
             /\ export'[i].status = IF Invalidated(export[i], a, row.epoch) THEN "REVOKED" ELSE export[i].status
  <2>1. export[i] \in ExportRow /\ "REVOKED" \in ExportStatus
    BY <1>1 DEF ExportStatus
  <2>2. /\ [export[i] EXCEPT !.status = "REVOKED"] \in ExportRow
        /\ [export[i] EXCEPT !.status = "REVOKED"].status = "REVOKED"
        /\ [export[i] EXCEPT !.status = "REVOKED"].by = export[i].by
        /\ [export[i] EXCEPT !.status = "REVOKED"].version = export[i].version
    BY <2>1, StatusEdit
  <2>3. CASE Invalidated(export[i], a, row.epoch)
    BY <1>2, <2>2, <2>3
  <2>4. CASE ~Invalidated(export[i], a, row.epoch)
    BY <1>2, <2>1, <2>4
  <2> QED BY <2>3, <2>4
<1>4. ASSUME NEW g \in DOMAIN grants
      PROVE  /\ grants'[g] \in GrantRow /\ grants'[g].account = grants[g].account
             /\ grants'[g].version = grants[g].version /\ grants'[g].export = grants[g].export
             /\ grants'[g].state = "ACTIVE" =>
                  /\ grants[g].state = "ACTIVE"
                  /\ ~(grants[g].account = a /\ grants[g].version \notin {Unbound, row.epoch})
  <2>1. grants[g] \in GrantRow
    BY <1>1
  <2>2. PICK old : old = grants[g]
    OBVIOUS
  <2>3. [old EXCEPT !.state = "REVOKED"] \in GrantRow /\ [old EXCEPT !.state = "REVOKED"].state = "REVOKED"
        /\ [old EXCEPT !.state = "REVOKED"].account = old.account
        /\ [old EXCEPT !.state = "REVOKED"].version = old.version
        /\ [old EXCEPT !.state = "REVOKED"].export = old.export
    BY <2>1, <2>2 DEF GrantRow
  <2>4. grants'[g] = IF /\ old.account = a /\ old.version \notin {Unbound, row.epoch}
                        /\ old.state \in {"ACTIVE", "EXPIRED"}
                     THEN [old EXCEPT !.state = "REVOKED"] ELSE old
    BY <2>2 DEF InvalidateForMembership
  <2> QED BY <2>1, <2>2, <2>3, <2>4
<1>5. export' \in Seq(ExportRow) /\ Len(export') = Len(export)
  BY <1>1, <1>2, <1>3 DEF InvalidateForMembership
<1>6. grants' \in Seq(GrantRow)
  BY <1>1, <1>2, <1>4 DEF InvalidateForMembership
<1>7. Moved
  BY <1>2, <1>3 DEF Moved, Moves, Invalidated
<1>8. membership' \in [Accounts -> MembershipRows]
  BY DEF ExportsInv, RowsOK
<1>9. RowsOK'
  <2>1. \A g \in DOMAIN grants' : grants'[g].export \in DOMAIN export'
    BY <1>2, <1>4 DEF ExportsInv, RowsOK
  <2> QED BY <1>1, <1>5, <1>6, <1>8, <2>1, SameScenario DEF ExportsInv, RowsOK
<1>10. \A b, version : b # a /\ Entitled(b, version) => Entitled(b, version)'
  BY DEF Entitled
<1>11. \A version : Entitled(a, version) => version = membership[a].epoch
  BY DEF Entitled
<1>12. membership[a].epoch \in Nat
  BY DEF ExportsInv, RowsOK, MembershipRows
<1>13. ASSUME NEW i \in DOMAIN export, export'[i].version # Unbound,
              export'[i].status \in LiveStatus \cup {"SUCCEEDED"}
       PROVE  \A b, version : b = export[i].by /\ version = export[i].version => Entitled(b, version)'
  <2>1. ~Invalidated(export[i], a, row.epoch) /\ export[i].status \in LiveStatus \cup {"SUCCEEDED"}
    BY <1>3, <1>13 DEF LiveStatus
  <2>2. Entitled(export[i].by, export[i].version) /\ export[i].version # Unbound
    BY <1>3, <1>13, <2>1 DEF ExportsInv, LiveExportsEntitled
  <2>3. export[i].by # a
    BY <1>11, <1>12, <2>1, <2>2 DEF Invalidated
  <2> QED BY <1>10, <2>2, <2>3
<1>14. ASSUME NEW g \in DOMAIN grants, grants'[g].version # Unbound, grants'[g].state = "ACTIVE"
       PROVE  \A b, version : b = grants[g].account /\ version = grants[g].version => Entitled(b, version)'
  <2>1. Entitled(grants[g].account, grants[g].version) /\ grants[g].version # Unbound
    BY <1>4, <1>14 DEF ExportsInv, LiveExportsEntitled
  <2>2. grants[g].account # a
    BY <1>4, <1>11, <1>12, <1>14, <2>1
  <2> QED BY <1>10, <2>1, <2>2
<1>15. LiveExportsEntitled'
  BY <1>2, <1>3, <1>4, <1>13, <1>14 DEF LiveExportsEntitled, Entitled
<1> QED BY <1>2, <1>7, <1>9, <1>15

(* A membership changes, with the invalidation or where nothing rests on it.*)
LEMMA SetMembershipStep ==
  ASSUME ExportsInv, NEW a \in Accounts, NEW row \in MembershipRows, NEW invalidates,
         SetMembership(a, row, invalidates), row.epoch = membership[a].epoch + 1,
         ~invalidates => \A version : version # Unbound => ~Entitled(a, version), UNCHANGED faultVars
  PROVE  ExportsInv'
<1>1. /\ membership' = [membership EXCEPT ![a] = row]
      /\ UNCHANGED <<queueVars, scenario, shop, staff, current, request, work, cipher, objects>>
  BY DEF SetMembership, faultVars
<1>2. CASE invalidates
  <2>1. RowsOK' /\ Moved /\ LiveExportsEntitled' /\ DOMAIN export' = DOMAIN export
    BY <1>1, <1>2, InvalidationEnds DEF SetMembership
  <2>2. outbox \subseteq outbox' /\ outbox' \subseteq {[work |-> k] : k \in DOMAIN export'}
    BY <1>1, <2>1 DEF ExportsInv, QueueOK, queueVars
  <2>3. UNCHANGED <<sent, jobs, slot, rec, work, cipher, objects, scenario>>
    BY <1>1 DEF queueVars
  <2> QED BY <2>1, <2>2, <2>3, RowsFrame
<1>3. CASE ~invalidates
  <2>1. export' = export /\ grants' = grants
    BY <1>3 DEF SetMembership
  <2>2. RowsOK'
    BY <1>1, <2>1, SameScenario DEF ExportsInv, RowsOK
  <2>3. \A b, version : Entitled(b, version) /\ version # Unbound => Entitled(b, version)'
    BY <1>1, <1>3 DEF Entitled
  <2>4. LiveExportsEntitled'
    BY <2>1, <2>3 DEF ExportsInv, LiveExportsEntitled, Entitled
  <2>5. outbox \subseteq outbox' /\ outbox' \subseteq {[work |-> k] : k \in DOMAIN export'}
    BY <1>1, <2>1 DEF ExportsInv, QueueOK, queueVars
  <2>6. UNCHANGED <<sent, jobs, slot, rec, work, cipher, objects, scenario>>
    BY <1>1 DEF queueVars
  <2> QED BY <2>1, <2>2, <2>4, <2>5, <2>6, RowsFrame, SameMoves
<1> QED BY <1>2, <1>3

LEMMA MembershipStep ==
  ASSUME ExportsInv, NEW a \in Accounts, NEW allowed \in BOOLEAN, UNCHANGED faultVars,
         ActivateShopMembership(a, allowed) \/ SetExportAllowed(a, allowed) \/ Revoke(a)
  PROVE  ExportsInv'
<1> PICK m : m = membership[a]
  OBVIOUS
<1>1. m \in MembershipRows /\ m.epoch \in Nat
  BY DEF ExportsInv, RowsOK, MembershipRows
<1>2. CASE ActivateShopMembership(a, allowed)
  <2> PICK row : row = Activated(m, allowed)
    OBVIOUS
  <2> DEFINE again == row.epoch # 1
  <2>1. row \in MembershipRows /\ row.epoch = m.epoch + 1
    BY <1>1 DEF Activated, MembershipRows
  <2>2. SetMembership(a, row, again)
    BY <1>2 DEF ActivateShopMembership
  <2>3. ASSUME ~again, NEW version, version # Unbound PROVE ~Entitled(a, version)
    BY <1>1, <2>1, <2>3 DEF Entitled, Unbound
  <2> HIDE DEF again
  <2> QED BY <2>1, <2>2, <2>3, SetMembershipStep
<1>3. CASE SetExportAllowed(a, allowed)
  <2> PICK row : row = ExportChanged(m, allowed)
    OBVIOUS
  <2> DEFINE forbidden == ~allowed
  <2>1. row \in MembershipRows /\ row.epoch = m.epoch + 1
    <3>1. PICK next : next = m.epoch + 1
      OBVIOUS
    <3>2. row = [m EXCEPT !.export = allowed, !.epoch = next]
      BY <3>1 DEF ExportChanged
    <3>3. next \in Nat
      BY <1>1, <3>1
    <3>4. row \in MembershipRows
      BY <1>1, <3>2, <3>3 DEF MembershipRows
    <3>5. row.epoch = next
      BY <1>1, <3>2 DEF MembershipRows
    <3> QED BY <3>1, <3>4, <3>5
  <2>2. SetMembership(a, row, forbidden) /\ m.export # allowed
    BY <1>3 DEF SetExportAllowed
  <2>3. ASSUME ~forbidden, NEW version PROVE ~Entitled(a, version)
    BY <1>1, <2>2, <2>3 DEF Entitled, MembershipRows
  <2> HIDE DEF forbidden
  <2> QED BY <2>1, <2>2, <2>3, SetMembershipStep
<1>4. CASE Revoke(a)
  <2> PICK row : row = MembershipRevoked(m)
    OBVIOUS
  <2> DEFINE always == row = row
  <2>1. row \in MembershipRows /\ row.epoch = m.epoch + 1
    BY <1>1 DEF MembershipRevoked, MembershipRows
  <2>2. SetMembership(a, row, always) /\ always
    BY <1>4 DEF Revoke, SetMembership
  <2> HIDE DEF always
  <2> QED BY <2>1, <2>2, SetMembershipStep
<1> QED BY <1>2, <1>3, <1>4

LEMMA ShopStep ==
  ASSUME ExportsInv, UNCHANGED faultVars, ChangeLifecycle \/ Publish \/ \E a \in Accounts : ChangeStaff(a)
  PROVE  ExportsInv'
<1>1. shop' \in ShopStates /\ staff' \subseteq Accounts /\ current' \in 0..MaxSnapshots
  BY ExportsAssumption DEF ExportsInv, RowsOK, ChangeLifecycle, Publish, ChangeStaff, ShopStates, MaxSnapshots
<1>2. UNCHANGED <<queueVars, scenario, membership, export, grants, request, work, cipher, objects>>
  BY DEF ChangeLifecycle, Publish, ChangeStaff, faultVars
<1>3. RowsOK'
  BY <1>1, <1>2, SameScenario DEF ExportsInv, RowsOK
<1> QED BY <1>2, <1>3, QuietFrame, GrantsSame

LEMMA LapseStep ==
  ASSUME ExportsInv, UNCHANGED faultVars, Lapse
  PROVE  ExportsInv'
<1>1. UNCHANGED <<queueVars, scenario, shop, staff, membership, current, request, work, cipher, objects>>
  BY DEF Lapse, faultVars
<1>2. CASE \E g \in DOMAIN grants : grants' = [grants EXCEPT ![g].state = "EXPIRED"] /\ UNCHANGED export
  <2>1. PICK g \in DOMAIN grants : grants' = [grants EXCEPT ![g].state = "EXPIRED"] /\ export' = export
    BY <1>2
  <2>2. /\ grants' \in Seq(GrantRow) /\ \A k \in DOMAIN grants' : grants'[k].export \in DOMAIN export
        /\ GrantsMoved
    BY <2>1, GrantEdited DEF ExportsInv
  <2>3. RowsOK'
    BY <1>1, <2>1, <2>2, SameScenario DEF ExportsInv, RowsOK
  <2> QED BY <1>1, <2>1, <2>2, <2>3, QuietFrame
<1>3. CASE \E i \in DOMAIN export : export' = [export EXCEPT ![i].due = TRUE] /\ UNCHANGED grants
  <2>1. PICK i \in DOMAIN export : export' = [export EXCEPT ![i].due = TRUE] /\ grants' = grants
    BY <1>3
  <2>2. PICK row : row = [export[i] EXCEPT !.due = TRUE]
    OBVIOUS
  <2>3. export[i] \in ExportRow /\ "QUEUED" \in ExportStatus /\ 0 \in 0..4
    BY ExportFacts DEF ExportsInv, ExportStatus, LiveStatus
  <2>4. /\ row \in ExportRow /\ row.status = export[i].status /\ row.by = export[i].by
        /\ row.version = export[i].version
    BY <2>2, <2>3, RowEdits
  <2>5. export' = [export EXCEPT ![i] = row] /\ request' \in [Requests -> RequestRow]
    BY <1>1, <2>1, <2>2 DEF ExportsInv, RowsOK
  <2>6. Moves(export[i].status, row.status, i \in objects')
    BY <2>4 DEF Moves
  <2>7. RowsOK' /\ Moved /\ LiveExportsEntitled' /\ DOMAIN export' = DOMAIN export
    BY <1>1, <2>1, <2>4, <2>5, <2>6, EditFrame
  <2>8. outbox \subseteq outbox' /\ outbox' \subseteq {[work |-> k] : k \in DOMAIN export'}
    BY <1>1, <2>7 DEF ExportsInv, QueueOK, queueVars
  <2>9. UNCHANGED <<sent, jobs, slot, rec, work, cipher, objects, scenario>>
    BY <1>1 DEF queueVars
  <2> QED BY <2>7, <2>8, <2>9, RowsFrame
<1> QED BY <1>2, <1>3 DEF Lapse

LEMMA OthersStep ==
  ASSUME ExportsInv, UNCHANGED faultVars, Others
  PROVE  ExportsInv'
<1>1. Customers \subseteq Accounts
  BY ExportsAssumption DEF ExportsInv, RowsOK, Customers, Accounts
<1>2. ASSUME NEW a \in Customers, NEW allowed \in BOOLEAN,
             ActivateShopMembership(a, allowed) \/ SetExportAllowed(a, allowed) \/ Revoke(a)
      PROVE  ExportsInv'
  BY <1>1, <1>2, MembershipStep
<1>3. ASSUME NEW a \in Customers, Revoke(a) PROVE ExportsInv'
  BY <1>2, <1>3
<1> QED BY <1>2, <1>3, ShopStep, LapseStep DEF Others

-----------------------------------------------------------------------------
(* Steps of the queue.                                                      *)

(* A step of the queue leaves files and rows alone, finishes nothing that   *)
(* was not about to be reported, and takes no callback from its work.       *)
LEMMA QueueFrame ==
  ASSUME ExportsInv, UNCHANGED <<exportVars, outbox, scenario>>,
         QueueOK', SlotsOK', RecOK', Exclusive', HeldUnmarked',
         \A i \in DOMAIN export : Done(i)' => Done(i),
         \A s \in Slots : slot'[s] = slot[s] \/ slot'[s].pc \in {"idle", "fetched", "work"},
         FaultKinds \cap {"crash", "refused"} = {} =>
           \A s \in Slots : slot'[s] = slot[s] \/ slot[s].pc \notin Leaving
  PROVE  ExportsInv'
<1>0. /\ UNCHANGED <<shop, staff, membership, current, export, grants, request, work, cipher, objects>>
      /\ FaultKinds' = FaultKinds
  BY SameScenario DEF exportVars
<1>1. RowsOK' /\ LiveExportsEntitled'
  BY <1>0, SameScenario DEF ExportsInv, RowsOK, LiveExportsEntitled, Entitled
<1>2. FilesOK'
  <2>1. \A s \in Slots : /\ slot'[s].pc = "commit" => slot'[s].work \in cipher
                         /\ slot'[s].pc = "clear" => slot'[s].work \in objects
    BY DEF ExportsInv, FilesOK
  <2> QED BY <1>0, <2>1 DEF ExportsInv, FilesOK
<1>3. DoneDecided'
  <2>1. \A i \in DOMAIN export : Done(i)' => Decided(i) /\ \A s \in Slots : Generating(s) => slot[s].work # i
    BY DEF ExportsInv, DoneDecided
  <2>2. \A s \in Slots : Generating(s)' => slot'[s] = slot[s]
    BY DEF Generating, Before
  <2>3. ASSUME NEW i \in DOMAIN export, Done(i)'
        PROVE  Decided(i)' /\ \A s \in Slots : Generating(s)' => slot'[s].work # i
    BY <1>0, <2>1, <2>2, <2>3 DEF Decided, Generating
  <2>4. \A s \in Slots : slot'[s].pc \in Before => export'[slot'[s].work].status # "QUEUED"
    BY <1>0 DEF ExportsInv, DoneDecided, Before
  <2>5. \A s \in Slots : slot'[s].pc = "drop" \/ (slot'[s].pc \in {"tidy", "clear"} /\ slot'[s].run = "completed")
                        => export'[slot'[s].work].status \notin LiveStatus
    <3> SUFFICES ASSUME NEW s \in Slots,
                        slot'[s].pc = "drop" \/ (slot'[s].pc \in {"tidy", "clear"} /\ slot'[s].run = "completed")
                 PROVE  export'[slot'[s].work].status \notin LiveStatus
      OBVIOUS
    <3>1. slot'[s] = slot[s]
      OBVIOUS
    <3>2. Decided(slot[s].work)
      BY <3>1 DEF ExportsInv, DoneDecided
    <3> QED BY <1>0, <3>1, <3>2 DEF Decided
  <2> QED BY <1>0, <2>3, <2>4, <2>5 DEF DoneDecided, Decided
<1>4. LeftoversHeld'
  <2> SUFFICES ASSUME FaultKinds \cap {"crash", "refused"} = {}, NEW i \in (cipher \ objects) \cup work
               PROVE  \E s \in Slots : slot'[s].pc \in Leaving /\ slot'[s].work = i
    BY <1>0 DEF LeftoversHeld
  <2>1. PICK s \in Slots : slot[s].pc \in Leaving /\ slot[s].work = i
    BY DEF ExportsInv, LeftoversHeld
  <2>2. slot'[s] = slot[s]
    BY <2>1
  <2> QED BY <2>1, <2>2
<1> QED BY <1>1, <1>2, <1>3, <1>4 DEF ExportsInv

(* One job is rewritten.                                                    *)
LEMMA JobEdited ==
  ASSUME QueueOK, UNCHANGED <<outbox, sent, export>>, NEW w \in ExportIds, NEW n \in DOMAIN jobs[w],
         NEW job \in JobRow, JobFits(w, job), jobs' = [jobs EXCEPT ![w][n] = job]
  PROVE  /\ QueueOK' /\ \A v \in ExportIds : DOMAIN jobs'[v] = DOMAIN jobs[v]
         /\ \A v \in ExportIds : \A m \in DOMAIN jobs[v] :
              jobs'[v][m] = IF v = w /\ m = n THEN job ELSE jobs[v][m]
<1>1. jobs \in [ExportIds -> Seq(JobRow)] /\ jobs[w] \in Seq(JobRow)
  BY DEF QueueOK
<1> PICK row : row = [jobs[w] EXCEPT ![n] = job]
  OBVIOUS
<1>2. row \in Seq(JobRow) /\ DOMAIN row = DOMAIN jobs[w]
      /\ \A m \in DOMAIN jobs[w] : row[m] = IF m = n THEN job ELSE jobs[w][m]
  BY <1>1
<1>3. jobs' = [jobs EXCEPT ![w] = row]
  OBVIOUS
<1>4. jobs' \in [ExportIds -> Seq(JobRow)]
  BY <1>1, <1>2, <1>3
<1>5. \A v \in ExportIds : DOMAIN jobs'[v] = DOMAIN jobs[v]
  BY <1>1, <1>2, <1>3
<1>6. \A v \in ExportIds : \A m \in DOMAIN jobs[v] :
        jobs'[v][m] = IF v = w /\ m = n THEN job ELSE jobs[v][m]
  BY <1>1, <1>2, <1>3
<1>7. ASSUME NEW v \in ExportIds, NEW m \in DOMAIN jobs'[v]
      PROVE  JobFits(v, jobs'[v][m])
  BY <1>5, <1>6, <1>7 DEF QueueOK
<1>8. QueueOK'
  BY <1>4, <1>7 DEF QueueOK, JobFits
<1> QED BY <1>5, <1>6, <1>8

LEMMA JobFacts ==
  ASSUME QueueOK, NEW w \in ExportIds, NEW n \in DOMAIN jobs[w]
  PROVE  jobs[w][n] \in JobRow /\ JobFits(w, jobs[w][n]) /\ jobs[w] \in Seq(JobRow) /\ w \in DOMAIN export
<1>1. jobs[w] \in Seq(JobRow) /\ JobFits(w, jobs[w][n])
  BY DEF QueueOK
<1>2. jobs[w][n] \in JobRow
  BY <1>1
<1>3. w \in DOMAIN export
  BY <1>1 DEF QueueOK, JobFits
<1> QED BY <1>1, <1>2, <1>3

(* What becomes of an attempt.                                              *)
LEMMA AttemptEdits ==
  ASSUME NEW job \in JobRow
  PROVE  /\ FailAttempt(job) \in JobRow /\ FailAttempt(job).event = job.event
         /\ FailAttempt(job).marked = job.marked /\ FailAttempt(job).state \in {"retry", "failed"}
         /\ Reconciled(job) \in JobRow /\ Reconciled(job).event = job.event
         /\ Reconciled(job).state = job.state
<1>2. Reconciled(job) \in JobRow /\ Reconciled(job).event = job.event /\ Reconciled(job).state = job.state
  BY DEF Reconciled, JobRow
<1>3. /\ [job EXCEPT !.state = "retry"] \in JobRow /\ [job EXCEPT !.state = "retry"].event = job.event
      /\ [job EXCEPT !.state = "retry"].marked = job.marked /\ [job EXCEPT !.state = "retry"].state = "retry"
  BY DEF JobRow, JobStates
<1>4. /\ [job EXCEPT !.state = "failed", !.retries = 0] \in JobRow
      /\ [job EXCEPT !.state = "failed", !.retries = 0].event = job.event
      /\ [job EXCEPT !.state = "failed", !.retries = 0].marked = job.marked
      /\ [job EXCEPT !.state = "failed", !.retries = 0].state = "failed"
  BY DEF JobRow, JobStates
<1> QED BY <1>2, <1>3, <1>4 DEF FailAttempt

(* Jobs stay where they are, failed ones as they are, and no one is marked. *)
JobsKept == \A w \in ExportIds : \A n \in DOMAIN jobs[w] :
  /\ n \in DOMAIN jobs'[w] /\ jobs'[w][n].marked = jobs[w][n].marked
  /\ jobs[w][n].state = "failed" => jobs'[w][n] = jobs[w][n]

LEMMA RecKept ==
  ASSUME ExportsInv, JobsKept, rec' = rec, DOMAIN export \subseteq DOMAIN export'
  PROVE  RecOK'
<1>1. rec # RecIdle => rec.work \in ExportIds
  BY ExportFacts DEF ExportsInv, RecOK
<1> QED BY <1>1 DEF ExportsInv, RecOK, JobsKept, Job

LEMMA SlotFacts ==
  ASSUME ExportsInv, NEW s \in Slots, slot[s] # Idle
  PROVE  /\ slot[s].work \in ExportIds /\ slot[s].work \in DOMAIN export
         /\ slot[s].n \in DOMAIN jobs[slot[s].work] /\ SlotFits(slot[s])
BY ExportFacts DEF ExportsInv, SlotsOK, SlotFits

(* One callback comes, goes or begins.                                      *)
LEMMA QueueSlotStep ==
  ASSUME ExportsInv, UNCHANGED <<exportVars, outbox, scenario, rec>>, QueueOK', JobsKept,
         NEW s \in Slots, NEW v, slot' = [slot EXCEPT ![s] = v], SlotFits(v),
         \/ v.pc \in {"idle", "fetched"}
         \/ v.pc = "work" /\ v # Idle /\ LockFree(v.work) /\ ~jobs[v.work][v.n].marked,
         FaultKinds \cap {"crash", "refused"} = {} => slot[s].pc \notin Leaving,
         \A i \in DOMAIN export : Done(i)' => Done(i)
  PROVE  ExportsInv'
<1>1. /\ DOMAIN slot' = Slots /\ slot'[s] = v /\ \A t \in Slots \ {s} : slot'[t] = slot[t]
  BY DEF ExportsInv, SlotsOK
<1>2. \A t \in Slots : slot[t] # Idle => slot[t].work \in ExportIds /\ slot[t].n \in DOMAIN jobs[slot[t].work]
  BY SlotFacts
<1>3. v # Idle => v.work \in ExportIds /\ v.n \in DOMAIN jobs[v.work]
  BY ExportFacts DEF SlotFits, ExportsInv
<1>4. export' = export
  BY DEF exportVars
<1>5. SlotsOK'
  <2>1. \A t \in Slots : SlotFits(slot'[t])
    BY <1>1 DEF ExportsInv, SlotsOK
  <2>2. ASSUME NEW t \in Slots PROVE SlotFits(slot[t])'
    BY <1>1, <1>2, <1>3, <1>4, <2>1, <2>2 DEF SlotFits, JobsKept
  <2> QED BY <1>1, <2>2 DEF SlotsOK
<1>6. Exclusive'
  <2>1. \A t \in Slots \ {s} : Executing(t)' <=> Executing(t)
    BY <1>1 DEF Executing
  <2>2. Executing(s)' => v.pc = "work" /\ LockFree(v.work)
    BY <1>1 DEF Executing
  <2> QED BY <1>1, <2>1, <2>2 DEF ExportsInv, Exclusive, LockFree
<1>7. HeldUnmarked'
  <2> SUFFICES ASSUME NEW t \in Slots, Executing(t)' PROVE ~jobs'[slot'[t].work][slot'[t].n].marked
    BY DEF HeldUnmarked, Job
  <2>1. slot'[t] # Idle
    BY DEF Executing, Idle
  <2>2. CASE t = s
    <3>1. v.pc = "work" /\ v # Idle /\ ~jobs[v.work][v.n].marked
      BY <1>1, <2>1, <2>2 DEF Executing
    <3> QED BY <1>1, <1>3, <2>2, <3>1 DEF JobsKept
  <2>3. CASE t # s
    <3>1. slot'[t] = slot[t] /\ Executing(t)
      BY <1>1, <2>3 DEF Executing
    <3> QED BY <1>2, <2>1, <3>1 DEF JobsKept, ExportsInv, HeldUnmarked, Job
  <2> QED BY <2>2, <2>3
<1>8. RecOK'
  BY <1>4, RecKept
<1>9. \A t \in Slots : slot'[t] = slot[t] \/ slot'[t].pc \in {"idle", "fetched", "work"}
  BY <1>1
<1>10. FaultKinds \cap {"crash", "refused"} = {} =>
         \A t \in Slots : slot'[t] = slot[t] \/ slot[t].pc \notin Leaving
  BY <1>1
<1> QED BY <1>5, <1>6, <1>7, <1>8, <1>9, <1>10, QueueFrame

(* Only jobs change.                                                        *)
LEMMA QueueJobStep ==
  ASSUME ExportsInv, UNCHANGED <<exportVars, outbox, scenario, rec, slot>>, QueueOK', JobsKept,
         \A w \in ExportIds : \A n \in DOMAIN jobs'[w] :
           jobs'[w][n].state = "completed" => n \in DOMAIN jobs[w] /\ jobs[w][n].state = "completed"
  PROVE  ExportsInv'
<1>1. \A t \in Slots : slot[t] # Idle => slot[t].work \in ExportIds /\ slot[t].n \in DOMAIN jobs[slot[t].work]
  BY SlotFacts
<1>2. SlotsOK'
  BY <1>1 DEF ExportsInv, SlotsOK, SlotFits, JobsKept, exportVars
<1>3. Exclusive'
  BY DEF ExportsInv, Exclusive, Executing
<1>4. HeldUnmarked'
  BY <1>1 DEF ExportsInv, HeldUnmarked, Executing, Idle, Job, JobsKept
<1>5. RecOK'
  BY RecKept DEF exportVars
<1>6. \A i \in DOMAIN export : Done(i)' => Done(i)
  BY ExportFacts DEF Done, ExportsInv
<1> QED BY <1>2, <1>3, <1>4, <1>5, <1>6, QueueFrame

LEMMA DispatchStep ==
  ASSUME ExportsInv, NEW e \in outbox, Dispatch(e) \/ DispatchUnmarked(e), UNCHANGED <<scenario, exportVars>>
  PROVE  ExportsInv'
<1>1. /\ jobs' = [jobs EXCEPT ![e.work] = Append(@, NewJob(e))]
      /\ UNCHANGED <<outbox, slot, rec>> /\ sent' \subseteq outbox
  BY DEF ExportsInv, QueueOK, Dispatch, DispatchUnmarked, Send
<1> PICK w : w = e.work
  OBVIOUS
<1> PICK job : job = NewJob(e)
  OBVIOUS
<1>2. w \in DOMAIN export /\ w \in ExportIds /\ e = [work |-> w]
  BY ExportFacts DEF ExportsInv, QueueOK
<1>3. job \in JobRow /\ job.event = e /\ ~job.marked /\ job.state = "created"
  BY <1>2 DEF NewJob, JobRow, JobStates
<1>4. jobs \in [ExportIds -> Seq(JobRow)] /\ jobs[w] \in Seq(JobRow)
  BY <1>2 DEF ExportsInv, QueueOK
<1> PICK row : row = Append(jobs[w], job)
  OBVIOUS
<1>5. /\ row \in Seq(JobRow) /\ Len(jobs[w]) \in Nat
      /\ DOMAIN jobs[w] = 1..Len(jobs[w]) /\ DOMAIN row = 1..(Len(jobs[w]) + 1)
      /\ row[Len(jobs[w]) + 1] = job /\ \A n \in DOMAIN jobs[w] : row[n] = jobs[w][n]
  BY <1>3, <1>4
<1>6. DOMAIN jobs[w] \subseteq DOMAIN row /\ \A n \in DOMAIN row : n \in DOMAIN jobs[w] \/ row[n] = job
  BY <1>5
<1>7. jobs' = [jobs EXCEPT ![w] = row]
  BY <1>1
<1>8. jobs' \in [ExportIds -> Seq(JobRow)] /\ jobs'[w] = row /\ \A v \in ExportIds \ {w} : jobs'[v] = jobs[v]
  BY <1>2, <1>4, <1>5, <1>7
<1>9. \A v \in ExportIds : \A n \in DOMAIN jobs[v] : n \in DOMAIN jobs'[v] /\ jobs'[v][n] = jobs[v][n]
  BY <1>5, <1>6, <1>8
<1>10. \A v \in ExportIds : \A n \in DOMAIN jobs'[v] : n \in DOMAIN jobs[v] \/ (v = w /\ jobs'[v][n] = job)
  BY <1>6, <1>8
<1>11. JobsKept
  BY <1>9 DEF JobsKept
<1>12. QueueOK'
  <2>1. \A v \in ExportIds : \A n \in DOMAIN jobs'[v] : JobFits(v, jobs'[v][n])
    <3>1. job.event \in outbox /\ job.event.work = w /\ ~job.marked
      BY <1>3
    <3>2. JobFits(w, job)
      BY <3>1 DEF JobFits
    <3>3. \A v \in ExportIds : \A n \in DOMAIN jobs[v] : JobFits(v, jobs[v][n])
      BY DEF ExportsInv, QueueOK
    <3> QED BY <1>9, <1>10, <3>2, <3>3
  <2> QED BY <1>1, <1>8, <2>1 DEF ExportsInv, QueueOK, JobFits, exportVars
<1>13. \A v \in ExportIds : \A n \in DOMAIN jobs'[v] :
         jobs'[v][n].state = "completed" => n \in DOMAIN jobs[v] /\ jobs[v][n].state = "completed"
  BY <1>3, <1>9, <1>10
<1> QED BY <1>1, <1>11, <1>12, <1>13, QueueJobStep

LEMMA FetchStep ==
  ASSUME ExportsInv, NEW s \in Slots, NEW w \in ExportIds, NEW n \in DOMAIN jobs[w], Fetch(s, w, n),
         UNCHANGED <<scenario, exportVars>>
  PROVE  ExportsInv'
<1> PICK old : old = jobs[w][n]
  OBVIOUS
<1> PICK retries : retries = IF old.state = "retry" THEN old.retries + 1 ELSE old.retries
  OBVIOUS
<1> PICK last : last = (retries >= RetryLimit)
  OBVIOUS
<1> PICK job : job = [old EXCEPT !.state = "active", !.retries = retries]
  OBVIOUS
<1> PICK v : v = [pc |-> "fetched", work |-> w, n |-> n, last |-> last]
  OBVIOUS
<1>1. /\ old.state \in {"created", "retry"} /\ slot[s] = Idle
      /\ jobs' = [jobs EXCEPT ![w][n] = job] /\ slot' = [slot EXCEPT ![s] = v]
      /\ UNCHANGED <<outbox, sent, rec>>
  BY DEF Fetch
<1>2. old \in JobRow /\ JobFits(w, old) /\ w \in DOMAIN export
  BY JobFacts DEF ExportsInv
<1>3. retries \in Nat /\ "active" \in JobStates
  BY <1>2 DEF JobRow, JobStates
<1>4. job \in JobRow /\ job.event = old.event /\ job.marked = old.marked /\ job.state = "active"
  BY <1>2, <1>3 DEF JobRow
<1>5. JobFits(w, job) /\ ~old.marked
  BY <1>1, <1>2, <1>4 DEF JobFits
<1>6. /\ QueueOK' /\ \A u \in ExportIds : DOMAIN jobs'[u] = DOMAIN jobs[u]
      /\ \A u \in ExportIds : \A m \in DOMAIN jobs[u] : jobs'[u][m] = IF u = w /\ m = n THEN job ELSE jobs[u][m]
  <2>1. QueueOK /\ UNCHANGED <<outbox, sent, export>> /\ jobs' = [jobs EXCEPT ![w][n] = job]
    BY <1>1 DEF ExportsInv, exportVars
  <2> QED BY <1>4, <1>5, <2>1, JobEdited
<1>7. JobsKept
  BY <1>1, <1>4, <1>6 DEF JobsKept
<1>8. SlotFits(v) /\ v.pc = "fetched" /\ v # Idle
  BY <1>2 DEF SlotFits, Idle
<1>9. ASSUME NEW i \in DOMAIN export, Done(i)' PROVE Done(i)
  <2>1. \A t \in Slots : Reporting(slot'[t], i) => Reporting(slot[t], i)
    BY <1>1, <1>8 DEF Reporting, ExportsInv, SlotsOK
  <2>2. ASSUME NEW m \in DOMAIN jobs'[i], jobs'[i][m].state = "completed"
        PROVE  m \in DOMAIN jobs[i] /\ jobs[i][m].state = "completed"
    <3>1. i \in ExportIds
      BY ExportFacts DEF ExportsInv
    <3>2. m \in DOMAIN jobs[i] /\ jobs'[i][m] = IF i = w /\ m = n THEN job ELSE jobs[i][m]
      BY <1>6, <2>2, <3>1
    <3> QED BY <1>4, <2>2, <3>2
  <2> QED BY <1>9, <2>1, <2>2 DEF Done
<1>10. slot[s].pc \notin Leaving
  BY <1>1 DEF Idle, Leaving
<1> QED BY <1>1, <1>6, <1>7, <1>8, <1>9, <1>10, QueueSlotStep

LEMMA BeginStep ==
  ASSUME ExportsInv, NEW s \in Slots, Begin(s), UNCHANGED <<scenario, exportVars>>
  PROVE  ExportsInv'
<1> PICK old : old = slot[s]
  OBVIOUS
<1> PICK v : v = IF Job(old).state = "active" THEN [old EXCEPT !.pc = "work"] ELSE Idle
  OBVIOUS
<1>1. /\ old.pc = "fetched" /\ old # Idle /\ LockFree(old.work)
      /\ slot' = [slot EXCEPT ![s] = v] /\ UNCHANGED <<outbox, sent, jobs, rec>>
  BY DEF Begin, Idle
<1>2. /\ SlotFits(old) /\ old.work \in ExportIds /\ old.n \in DOMAIN jobs[old.work] /\ "pc" \in DOMAIN old
  BY <1>1, SlotFacts DEF SlotFits
<1>3. JobFits(old.work, jobs[old.work][old.n])
  BY <1>2, JobFacts DEF ExportsInv
<1>4. v # Idle => Job(old).state = "active" /\ v.pc = "work" /\ v.work = old.work /\ v.n = old.n /\ "pc" \in DOMAIN v
  BY <1>2
<1>5. SlotFits(v)
  BY <1>1, <1>2, <1>4 DEF SlotFits, Stages
<1>6. \/ v.pc \in {"idle", "fetched"}
      \/ v.pc = "work" /\ v # Idle /\ LockFree(v.work) /\ ~jobs[v.work][v.n].marked
  BY <1>1, <1>3, <1>4 DEF JobFits, Job, Idle
<1>7. JobsKept /\ QueueOK'
  BY <1>1 DEF JobsKept, ExportsInv, QueueOK, JobFits, exportVars
<1>8. ASSUME NEW i \in DOMAIN export, Done(i)' PROVE Done(i)
  <2>1. \A t \in Slots : Reporting(slot'[t], i) => Reporting(slot[t], i)
    BY <1>1, <1>4 DEF Reporting, ExportsInv, SlotsOK
  <2> QED BY <1>1, <1>8, <2>1 DEF Done
<1>9. slot[s].pc \notin Leaving
  BY <1>1 DEF Leaving
<1> QED BY <1>1, <1>5, <1>6, <1>7, <1>8, <1>9, QueueSlotStep

LEMMA ExpireStep ==
  ASSUME ExportsInv, NEW w \in ExportIds, NEW n \in DOMAIN jobs[w], Expire(w, n) \/ ExpireLate(w, n),
         UNCHANGED <<scenario, exportVars>>
  PROVE  ExportsInv'
<1> PICK old : old = jobs[w][n]
  OBVIOUS
<1> PICK job : job = FailAttempt(old)
  OBVIOUS
<1>1. /\ old.state = "active" /\ jobs' = [jobs EXCEPT ![w][n] = job] /\ UNCHANGED <<outbox, sent, slot, rec>>
  BY DEF Expire, ExpireLate
<1>2. old \in JobRow /\ JobFits(w, old)
  BY JobFacts DEF ExportsInv
<1>3. job \in JobRow /\ job.event = old.event /\ job.marked = old.marked /\ job.state \in {"retry", "failed"}
  BY <1>2, AttemptEdits
<1>4. JobFits(w, job)
  BY <1>1, <1>2, <1>3 DEF JobFits
<1>5. /\ QueueOK' /\ \A u \in ExportIds : DOMAIN jobs'[u] = DOMAIN jobs[u]
      /\ \A u \in ExportIds : \A m \in DOMAIN jobs[u] : jobs'[u][m] = IF u = w /\ m = n THEN job ELSE jobs[u][m]
  BY <1>1, <1>3, <1>4, JobEdited DEF ExportsInv, exportVars
<1>6. JobsKept
  BY <1>1, <1>3, <1>5 DEF JobsKept
<1>7. \A u \in ExportIds : \A m \in DOMAIN jobs'[u] :
        jobs'[u][m].state = "completed" => m \in DOMAIN jobs[u] /\ jobs[u][m].state = "completed"
  BY <1>3, <1>5
<1> QED BY <1>1, <1>5, <1>6, <1>7, QueueJobStep

LEMMA AckStep ==
  ASSUME ExportsInv, NEW s \in Slots, Ack(s), UNCHANGED <<scenario, exportVars>>
  PROVE  ExportsInv'
<1> PICK c : c = slot[s]
  OBVIOUS
<1> PICK w, n, result : w = c.work /\ n = c.n /\ result = c.result
  OBVIOUS
<1> PICK old : old = jobs[w][n]
  OBVIOUS
<1> PICK job : job = Acknowledged(old, result)
  OBVIOUS
<1>1. /\ c # Idle /\ c.pc = "ack" /\ jobs' = [jobs EXCEPT ![w][n] = job] /\ slot' = [slot EXCEPT ![s] = Idle]
      /\ UNCHANGED <<outbox, sent, rec>>
  BY DEF Ack, Idle
<1>2. w \in ExportIds /\ n \in DOMAIN jobs[w] /\ result \in {"completed", "deadletter", "failed"}
  BY <1>1, SlotFacts DEF SlotFits
<1>3. old \in JobRow /\ JobFits(w, old)
  BY <1>2, JobFacts DEF ExportsInv
<1>4. /\ job \in JobRow /\ job.event = old.event /\ job.marked = old.marked
      /\ job = old \/ old.state = "active"
      /\ job.state = "completed" => old.state = "completed" \/ result = "completed"
  <2>1. CASE old.state # "active"
    BY <1>3, <2>1 DEF Acknowledged
  <2>2. CASE old.state = "active"
    <3>1. CASE result = "failed"
      BY <1>3, <2>2, <3>1, AttemptEdits DEF Acknowledged
    <3>2. CASE result = "completed"
      <4>1. job = [old EXCEPT !.state = "completed", !.retries = 0]
        BY <2>2, <3>2 DEF Acknowledged
      <4>2. "completed" \in JobStates /\ 0 \in Nat
        BY DEF JobStates
      <4>3. job \in JobRow /\ job.event = old.event /\ job.marked = old.marked
        BY <1>3, <4>1, <4>2 DEF JobRow
      <4> QED BY <2>2, <3>2, <4>3
    <3>3. CASE result = "deadletter"
      <4>1. job = [old EXCEPT !.state = "failed", !.retries = 0]
        BY <2>2, <3>3 DEF Acknowledged
      <4>2. "failed" \in JobStates /\ 0 \in Nat
        BY DEF JobStates
      <4>3. job \in JobRow /\ job.event = old.event /\ job.marked = old.marked /\ job.state = "failed"
        BY <1>3, <4>1, <4>2 DEF JobRow
      <4> QED BY <2>2, <4>3
    <3> QED BY <1>2, <3>1, <3>2, <3>3
  <2> QED BY <2>1, <2>2
<1>5. JobFits(w, job)
  BY <1>3, <1>4 DEF JobFits
<1>6. /\ QueueOK' /\ \A u \in ExportIds : DOMAIN jobs'[u] = DOMAIN jobs[u]
      /\ \A u \in ExportIds : \A m \in DOMAIN jobs[u] : jobs'[u][m] = IF u = w /\ m = n THEN job ELSE jobs[u][m]
  <2>1. QueueOK /\ w \in ExportIds /\ n \in DOMAIN jobs[w]
    BY <1>2 DEF ExportsInv
  <2>2. jobs' = [jobs EXCEPT ![w][n] = job] /\ UNCHANGED <<outbox, sent, export>>
    BY <1>1, <1>4 DEF exportVars
  <2>3. job \in JobRow
    BY <1>4
  <2> HIDE DEF Idle
  <2>4. QueueOK' /\ \A u \in ExportIds : DOMAIN jobs'[u] = DOMAIN jobs[u]
    BY ONLY <1>5, <2>1, <2>2, <2>3, JobEdited
  <2>5. ASSUME NEW u \in ExportIds, NEW m \in DOMAIN jobs[u]
        PROVE  jobs'[u][m] = IF u = w /\ m = n THEN job ELSE jobs[u][m]
    <3>1. jobs \in [ExportIds -> Seq(JobRow)]
      BY <2>1 DEF QueueOK
    <3> QED BY ONLY <2>1, <2>2, <3>1, <2>5
  <2> QED BY <2>4, <2>5
<1>7. JobsKept
  BY <1>4, <1>6 DEF JobsKept
<1>8. ASSUME NEW i \in DOMAIN export, Done(i)' PROVE Done(i)
  <2>1. \A t \in Slots : Reporting(slot'[t], i) => Reporting(slot[t], i)
    BY <1>1 DEF Reporting, ExportsInv, SlotsOK
  <2>2. ASSUME NEW m \in DOMAIN jobs'[i], jobs'[i][m].state = "completed" PROVE Done(i)
    <3>1. i \in ExportIds /\ m \in DOMAIN jobs[i]
      BY <1>6, <2>2, ExportFacts DEF ExportsInv
    <3>2. CASE jobs[i][m].state = "completed"
      BY <3>1, <3>2 DEF Done
    <3>3. CASE jobs[i][m].state # "completed"
      <4>1. i = w /\ result = "completed"
        <5>1. jobs'[i][m] = IF i = w /\ m = n THEN job ELSE jobs[i][m]
          BY <1>6, <3>1
        <5>2. i = w /\ m = n
          BY <2>2, <3>3, <5>1
        <5>3. job.state = "completed"
          BY <2>2, <5>1, <5>2
        <5>4. old.state # "completed"
          BY <3>3, <5>2
        <5> QED BY <1>4, <5>2, <5>3, <5>4
      <4>2. Reporting(slot[s], i)
        BY <1>1, <4>1 DEF Reporting
      <4> QED BY <4>2 DEF Done
    <3> QED BY <3>2, <3>3
  <2> QED BY <1>8, <2>1, <2>2 DEF Done
<1>9. slot[s].pc \notin Leaving /\ SlotFits(Idle) /\ Idle.pc \in {"idle", "fetched"}
  BY <1>1 DEF Leaving, SlotFits, Idle
<1> HIDE DEF Idle
<1> QED BY <1>1, <1>6, <1>7, <1>8, <1>9, QueueSlotStep

LEMMA CrashStep ==
  ASSUME ExportsInv, NEW s \in Slots, Crash(s), UNCHANGED exportVars
  PROVE  ExportsInv'
<1>1. /\ UNCHANGED <<outbox, sent, jobs, rec, scenario>> /\ slot' = [slot EXCEPT ![s] = Idle]
      /\ "crash" \in FaultKinds
  BY DEF Crash, Fault
<1>2. JobsKept /\ QueueOK'
  BY <1>1 DEF JobsKept, ExportsInv, QueueOK, JobFits, exportVars
<1>3. SlotFits(Idle) /\ Idle.pc \in {"idle", "fetched"}
  BY DEF SlotFits, Idle
<1>4. ASSUME NEW i \in DOMAIN export, Done(i)' PROVE Done(i)
  <2>1. \A t \in Slots : Reporting(slot'[t], i) => Reporting(slot[t], i)
    BY <1>1 DEF Reporting, ExportsInv, SlotsOK
  <2> QED BY <1>1, <1>4, <2>1 DEF Done
<1> QED BY <1>1, <1>2, <1>3, <1>4, QueueSlotStep

LEMMA QueueSteps ==
  ASSUME ExportsInv, (QueueStep /\ UNCHANGED faultVars) \/ QueueFault, UNCHANGED exportVars
  PROVE  ExportsInv'
<1>1. DOMAIN jobs = ExportIds
  BY DEF ExportsInv, QueueOK
<1>2. scenario' = scenario
  BY DEF QueueFault, DispatchUnmarked, ExpireLate, Crash, Fault, faultVars
<1>3. CASE QueueStep
  BY <1>1, <1>2, <1>3, DispatchStep, FetchStep, BeginStep, AckStep, ExpireStep
     DEF QueueStep, DispatcherStep, Take, Expiry
<1>4. CASE QueueFault
  BY <1>1, <1>2, <1>4, DispatchStep, ExpireStep, CrashStep DEF QueueFault
<1> QED BY <1>3, <1>4

-----------------------------------------------------------------------------
(* Steps of a handler.                                                      *)

(* The callback in s goes on with v.                                        *)
Left(s, v, pc) ==
  /\ slot' = [slot EXCEPT ![s] = v]
  /\ v # Idle /\ v.pc = pc /\ v.work = slot[s].work /\ v.n = slot[s].n /\ SlotFits(v)
OnlyFilesOf(i) ==
  /\ work' \ {i} = work \ {i} /\ cipher' \ {i} = cipher \ {i} /\ objects' \ {i} = objects \ {i}
  /\ objects \subseteq objects'

LEMMA Reports ==
  ASSUME ExportsInv, NEW s \in Slots, slot[s] # Idle, NEW result \in {"completed", "deadletter", "failed"},
         Report(s, result)
  PROVE  \E v : Left(s, v, "ack") /\ v.result = result
<1> PICK v : v = [pc |-> "ack", work |-> slot[s].work, n |-> slot[s].n, result |-> result]
  OBVIOUS
<1>1. slot' = [slot EXCEPT ![s] = v]
  BY DEF Report
<1>2. v # Idle /\ v.pc = "ack" /\ v.work = slot[s].work /\ v.n = slot[s].n /\ v.result = result /\ "pc" \in DOMAIN v
  BY DEF Idle
<1>3. SlotFits(v)
  BY <1>2, SlotFacts DEF SlotFits
<1> QED BY <1>1, <1>2, <1>3 DEF Left

LEMMA Continues ==
  ASSUME ExportsInv, NEW s \in Slots, slot[s] # Idle, NEW pc \in Stages \ {"project", "sweep"}, NEW run,
         pc = "tidy" => run \in {"completed", "permanent", "transient"}, pc = "clear" => run = "completed",
         Continue(s, pc, run)
  PROVE  \E v : Left(s, v, pc) /\ v.run = run
<1> PICK v : v = [pc |-> pc, work |-> slot[s].work, n |-> slot[s].n, last |-> slot[s].last, run |-> run]
  OBVIOUS
<1>1. slot' = [slot EXCEPT ![s] = v]
  BY DEF Continue
<1>2. v.pc = pc /\ v.work = slot[s].work /\ v.n = slot[s].n /\ v.run = run /\ "pc" \in DOMAIN v
  OBVIOUS
<1>3. v # Idle
  BY <1>2 DEF Idle, Stages, Before
<1>4. SlotFits(v)
  BY <1>2, SlotFacts DEF SlotFits, Stages, Before
<1> QED BY <1>1, <1>2, <1>3, <1>4 DEF Left

LEMMA Projects ==
  ASSUME ExportsInv, NEW s \in Slots, slot[s] # Idle, NEW result \in {"deadletter", "failed"}, NEW code,
         ProjectThen(s, "project", result, code)
  PROVE  \E v : Left(s, v, "project")
<1> PICK v : v = [pc |-> "project", work |-> slot[s].work, n |-> slot[s].n, last |-> slot[s].last,
                  result |-> result, code |-> code]
  OBVIOUS
<1>1. slot' = [slot EXCEPT ![s] = v]
  BY DEF ProjectThen
<1>2. v # Idle /\ v.pc = "project" /\ v.work = slot[s].work /\ v.n = slot[s].n /\ v.result = result /\ "pc" \in DOMAIN v
  BY DEF Idle
<1>3. SlotFits(v)
  BY <1>2, SlotFacts DEF SlotFits, Stages
<1> QED BY <1>1, <1>2, <1>3 DEF Left

LEMMA FailsTransiently ==
  ASSUME ExportsInv, NEW s \in Slots, slot[s] # Idle, TransientFailure(s)
  PROVE  \E v : Left(s, v, "project") \/ (Left(s, v, "ack") /\ v.result = "failed")
BY Projects, Reports DEF TransientFailure

LEMMA Concludes ==
  ASSUME ExportsInv, NEW s \in Slots, slot[s] # Idle, NEW verdict \in {"completed", "permanent", "transient"},
         Conclude(s, verdict)
  PROVE  \E v : Left(s, v, "project") \/ (Left(s, v, "ack") /\ (v.result = "completed" => verdict = "completed"))
<1>1. CASE verdict = "completed"
  BY <1>1, Reports DEF Conclude
<1>2. CASE verdict = "permanent"
  BY <1>2, Projects DEF Conclude
<1>3. CASE verdict = "transient"
  <2>1. TransientFailure(s)
    BY <1>3 DEF Conclude
  <2> QED BY <2>1, FailsTransiently
<1> QED BY <1>1, <1>2, <1>3

(* A step of a callback that holds the lock of its export.                  *)
LEMMA HandlerFrame ==
  ASSUME ExportsInv, NEW s \in Slots, Executing(s), NEW i, i = slot[s].work, NEW v, NEW pc, Left(s, v, pc),
         pc \in Stages \cup {"ack"},
         UNCHANGED <<outbox, sent, jobs, rec, scenario>>,
         RowsOK', Moved, LiveExportsEntitled', DOMAIN export' = DOMAIN export,
         OnlyFilesOf(i), i \in objects' => i \in cipher' /\ export'[i].status \in {"SUCCEEDED", "REVOKED"},
         pc = "commit" => i \in cipher', pc = "clear" => i \in objects',
         pc = "ack" /\ v.result = "completed" => export'[i].status \notin LiveStatus,
         pc \in Before \cup {"tidy", "clear"} => Generating(s) \/ export[i].status \in LiveStatus,
         pc \in Before => export'[i].status # "QUEUED",
         pc = "drop" \/ (pc \in {"tidy", "clear"} /\ v.run = "completed") => export'[i].status \notin LiveStatus,
         /\ FaultKinds \cap {"crash", "refused"} = {}
         /\ i \in (cipher' \ objects') \cup work'
         => pc \in Leaving
  PROVE  ExportsInv'
<1>1. /\ DOMAIN slot' = Slots /\ slot'[s] = v /\ \A t \in Slots \ {s} : slot'[t] = slot[t]
      /\ v # Idle /\ v.pc = pc /\ v.work = i /\ v.n = slot[s].n /\ SlotFits(v)
  BY DEF ExportsInv, SlotsOK, Left
<1>2. slot[s] # Idle /\ i \in DOMAIN export /\ i \in ExportIds
  <2>1. slot[s] # Idle
    BY DEF Executing, Idle
  <2> QED BY <2>1, SlotFacts
<1>3. \A t \in Slots \ {s} : Executing(t) => slot[t].work # i
  BY DEF ExportsInv, Exclusive
<1>4. \A t \in Slots \ {s} : slot[t].pc \in Stages => slot[t].work # i
  BY <1>3 DEF Executing, Stages, Before
<1>5. \A t \in Slots : slot[t].pc \in Stages => slot[t].work \in DOMAIN export
  BY SlotFacts DEF Stages, Before, Idle
<1>6. QueueOK' /\ FaultKinds' = FaultKinds
  BY SameScenario DEF ExportsInv, QueueOK, JobFits
<1>7. SlotsOK'
  <2>1. \A t \in Slots : SlotFits(slot'[t])
    BY <1>1 DEF ExportsInv, SlotsOK
  <2> QED BY <1>1, <2>1 DEF SlotsOK, SlotFits
<1>8. RecOK'
  BY DEF ExportsInv, RecOK, Job
<1>9. Exclusive' /\ HeldUnmarked'
  <2>1. \A t \in Slots : Executing(t)' => Executing(t) /\ slot'[t].work = slot[t].work /\ slot'[t].n = slot[t].n
    BY <1>1 DEF Executing
  <2>2. Exclusive'
    BY <2>1 DEF ExportsInv, Exclusive
  <2>3. HeldUnmarked'
    BY <2>1 DEF ExportsInv, HeldUnmarked, Job
  <2> QED BY <2>2, <2>3
<1>10. FilesOK'
  <2>1. work' \cup cipher' \cup objects' \subseteq DOMAIN export' /\ objects' \subseteq cipher'
    BY <1>2 DEF ExportsInv, FilesOK, OnlyFilesOf
  <2>2. ASSUME NEW k \in objects' PROVE export'[k].status \in {"SUCCEEDED", "REVOKED"}
    <3>1. CASE k = i
      BY <2>2, <3>1
    <3>2. CASE k # i
      <4>1. k \in objects /\ k \in DOMAIN export
        BY <2>2, <3>2 DEF OnlyFilesOf, ExportsInv, FilesOK
      <4> QED BY <4>1 DEF ExportsInv, FilesOK, Moved, Moves, LiveStatus
    <3> QED BY <3>1, <3>2
  <2>3. ASSUME NEW k \in DOMAIN export', export'[k].status = "SUCCEEDED" PROVE k \in objects'
    <3>1. export[k].status = "SUCCEEDED" \/ k \in objects'
      BY <2>3 DEF Moved, Moves
    <3> QED BY <2>3, <3>1 DEF ExportsInv, FilesOK, OnlyFilesOf
  <2>4. ASSUME NEW t \in Slots
        PROVE  /\ slot'[t].pc = "commit" => slot'[t].work \in cipher'
               /\ slot'[t].pc = "clear" => slot'[t].work \in objects'
    <3>1. CASE t = s
      BY <1>1, <3>1
    <3>2. CASE t # s
      BY <1>1, <1>4, <3>2 DEF ExportsInv, FilesOK, OnlyFilesOf, Stages, Before
    <3> QED BY <3>1, <3>2
  <2> QED BY <2>1, <2>2, <2>3, <2>4 DEF FilesOK
<1>11. DoneDecided'
  <2>1. \A k \in DOMAIN export : Decided(k) => export'[k].status \notin LiveStatus
    BY DEF Decided, Moved, Moves, LiveStatus
  <2>2. \A k \in DOMAIN export : Done(k)' => Done(k) \/ (k = i /\ pc = "ack" /\ v.result = "completed")
    BY <1>1 DEF Done, Reporting
  <2>3. ASSUME NEW k \in DOMAIN export, Done(k)'
        PROVE  export'[k].status \notin LiveStatus /\ \A t \in Slots : Generating(t)' => slot'[t].work # k
    <3>1. CASE Done(k)
      <4>1. Decided(k) /\ \A t \in Slots : Generating(t) => slot[t].work # k
        BY <3>1 DEF ExportsInv, DoneDecided
      <4>2. \A t \in Slots \ {s} : Generating(t)' => slot'[t].work # k
        BY <1>1, <4>1 DEF Generating
      <4>3. Generating(s)' => slot'[s].work # k
        BY <1>1, <4>1 DEF Generating, Decided
      <4> QED BY <2>1, <4>1, <4>2, <4>3
    <3>2. CASE k = i /\ pc = "ack" /\ v.result = "completed"
      <4>1. \A t \in Slots \ {s} : Generating(t)' => slot'[t].work # k
        BY <1>1, <1>4, <3>2 DEF Generating, Stages
      <4>2. ~Generating(s)'
        BY <1>1, <3>2 DEF Generating, Before
      <4> QED BY <3>2, <4>1, <4>2
    <3> QED BY <2>2, <2>3, <3>1, <3>2
  <2>4. ASSUME NEW t \in Slots, slot'[t].pc \in Before PROVE export'[slot'[t].work].status # "QUEUED"
    <3>1. CASE t = s
      BY <1>1, <2>4, <3>1
    <3>2. CASE t # s
      <4>1. slot'[t] = slot[t] /\ slot[t].work \in DOMAIN export /\ export[slot[t].work].status # "QUEUED"
        BY <1>1, <1>5, <2>4, <3>2 DEF ExportsInv, DoneDecided, Stages
      <4> QED BY <4>1 DEF Moved, Moves
    <3> QED BY <3>1, <3>2
  <2>5. ASSUME NEW t \in Slots,
               slot'[t].pc = "drop" \/ (slot'[t].pc \in {"tidy", "clear"} /\ slot'[t].run = "completed")
        PROVE  export'[slot'[t].work].status \notin LiveStatus
    <3>1. CASE t = s
      BY <1>1, <2>5, <3>1
    <3>2. CASE t # s
      <4>1. slot'[t] = slot[t] /\ slot[t].work \in DOMAIN export /\ Decided(slot[t].work)
        BY <1>1, <1>5, <2>5, <3>2 DEF ExportsInv, DoneDecided, Stages
      <4> QED BY <2>1, <4>1
    <3> QED BY <3>1, <3>2
  <2> QED BY <2>3, <2>4, <2>5 DEF DoneDecided, Decided
<1>12. LeftoversHeld'
  <2> SUFFICES ASSUME FaultKinds \cap {"crash", "refused"} = {}, NEW k \in (cipher' \ objects') \cup work'
               PROVE  \E t \in Slots : slot'[t].pc \in Leaving /\ slot'[t].work = k
    BY <1>6 DEF LeftoversHeld
  <2>1. CASE k = i
    BY <1>1, <2>1
  <2>2. CASE k # i
    <3>1. k \in (cipher \ objects) \cup work
      BY <2>2 DEF OnlyFilesOf
    <3>2. PICK t \in Slots : slot[t].pc \in Leaving /\ slot[t].work = k
      BY <3>1 DEF ExportsInv, LeftoversHeld
    <3> QED BY <1>1, <2>2, <3>2
  <2> QED BY <2>1, <2>2
<1> QED BY <1>6, <1>7, <1>8, <1>9, <1>10, <1>11, <1>12 DEF ExportsInv

LEMMA SameRows ==
  ASSUME ExportsInv, UNCHANGED <<scenario, apiVars, export>>
  PROVE  RowsOK' /\ Moved /\ LiveExportsEntitled' /\ DOMAIN export' = DOMAIN export
<1>1. UNCHANGED <<shop, staff, membership, current, grants, request>>
  BY DEF apiVars
<1>2. RowsOK' /\ LiveExportsEntitled'
  BY <1>1, SameScenario DEF ExportsInv, RowsOK, LiveExportsEntitled, Entitled
<1> QED BY <1>2, SameMoves

(* One row is rewritten by a worker.                                        *)
LEMMA WorkerEdit ==
  ASSUME ExportsInv, UNCHANGED <<scenario, apiVars>>, NEW i \in DOMAIN export, NEW row \in ExportRow,
         export' = [export EXCEPT ![i] = row], row.by = export[i].by, row.version = export[i].version,
         Moves(export[i].status, row.status, i \in objects')
  PROVE  /\ RowsOK' /\ Moved /\ LiveExportsEntitled' /\ DOMAIN export' = DOMAIN export
         /\ export'[i] = row
<1>1. UNCHANGED <<shop, staff, membership, current, grants, request>> /\ request' \in [Requests -> RequestRow]
  BY DEF apiVars, ExportsInv, RowsOK
<1> QED BY <1>1, EditFrame

LEMMA RowFacts ==
  ASSUME ExportsInv, NEW i \in DOMAIN export
  PROVE  /\ export[i] \in ExportRow
         /\ i \in objects => i \in cipher /\ export[i].status \in {"SUCCEEDED", "REVOKED"}
BY ExportFacts DEF ExportsInv, FilesOK

(* A callback that has left nothing has left nothing.                       *)
LEMMA NoLeftovers ==
  ASSUME ExportsInv, NEW s \in Slots, Executing(s), slot[s].pc \notin Leaving,
         FaultKinds \cap {"crash", "refused"} = {}
  PROVE  slot[s].work \notin (cipher \ objects) \cup work
<1> SUFFICES ASSUME slot[s].work \in (cipher \ objects) \cup work PROVE FALSE
  OBVIOUS
<1>1. PICK t \in Slots : slot[t].pc \in Leaving /\ slot[t].work = slot[s].work
  BY DEF ExportsInv, LeftoversHeld
<1>2. Executing(t)
  BY <1>1 DEF Executing, Leaving
<1> QED BY <1>1, <1>2 DEF ExportsInv, Exclusive

LEMMA Cleaned ==
  ASSUME ExportsInv, NEW i \in DOMAIN export, CleanupUncommitted(i), UNCHANGED objects
  PROVE  /\ OnlyFilesOf(i)
         /\ i \in objects' => i \in cipher'
         /\ i \notin (cipher' \ objects') \cup work'
BY RowFacts DEF CleanupUncommitted, Removable, OnlyFilesOf

LEMMA ExecutingFacts ==
  ASSUME ExportsInv, NEW s \in Slots, slot[s].pc \in Stages
  PROVE  /\ Executing(s) /\ slot[s] # Idle /\ slot[s].work \in DOMAIN export /\ SlotFits(slot[s])
         /\ export[slot[s].work] \in ExportRow
<1>1. Executing(s) /\ slot[s] # Idle
  BY DEF Executing, Stages, Before, Idle
<1> QED BY <1>1, SlotFacts, RowFacts

(* The worker's edits of a row.                                             *)
LEMMA WorkerRows ==
  ASSUME NEW row \in ExportRow
  PROVE  /\ Claimed(row) \in ExportRow /\ Claimed(row).status = "RUNNING"
         /\ Claimed(row).by = row.by /\ Claimed(row).version = row.version
         /\ \A percent \in 0..4 : /\ Progressed(row, percent) \in ExportRow
                                  /\ Progressed(row, percent).status = row.status
                                  /\ Progressed(row, percent).by = row.by
                                  /\ Progressed(row, percent).version = row.version
<1>1. Claimed(row) \in ExportRow /\ Claimed(row).status = "RUNNING"
      /\ Claimed(row).by = row.by /\ Claimed(row).version = row.version
  <2> PICK status, percent : status = "RUNNING" /\ percent = 1
    OBVIOUS
  <2>1. status \in ExportStatus /\ percent \in 0..4
    BY DEF ExportStatus, LiveStatus
  <2> PICK half : half = [row EXCEPT !.status = status]
    OBVIOUS
  <2>2. half \in ExportRow /\ half.status = status /\ half.by = row.by /\ half.version = row.version
    BY <2>1, StatusEdit
  <2> PICK new : new = [half EXCEPT !.progress = percent]
    OBVIOUS
  <2>3. Claimed(row) = new
    BY DEF Claimed
  <2>4. new \in ExportRow /\ new.status = half.status /\ new.by = half.by /\ new.version = half.version
    BY <2>1, <2>2 DEF ExportRow
  <2> QED BY <2>1, <2>2, <2>3, <2>4
<1>2. ASSUME NEW percent \in 0..4
      PROVE  /\ Progressed(row, percent) \in ExportRow /\ Progressed(row, percent).status = row.status
             /\ Progressed(row, percent).by = row.by /\ Progressed(row, percent).version = row.version
  BY DEF Progressed, ExportRow
<1> QED BY <1>1, <1>2

LEMMA ClaimStep ==
  ASSUME ExportsInv, NEW s \in Slots, Claim(s), UNCHANGED faultVars
  PROVE  ExportsInv'
<1> PICK i : i = slot[s].work
  OBVIOUS
<1>1. /\ slot[s].pc = "work" /\ UNCHANGED <<outbox, sent, jobs, rec, apiVars, work, cipher, objects, scenario>>
      /\ slot[s].pc \notin Leaving
  BY DEF Claim, At, faultVars, Leaving
<1>2. /\ Executing(s) /\ slot[s] # Idle /\ i \in DOMAIN export /\ export[i] \in ExportRow
  BY <1>1, ExecutingFacts DEF Stages
<1>3. FaultKinds \cap {"crash", "refused"} = {} => i \notin (cipher' \ objects') \cup work'
  BY <1>1, <1>2, NoLeftovers
<1>4. OnlyFilesOf(i) /\ (i \in objects' => i \in cipher')
  BY <1>1, <1>2, RowFacts DEF OnlyFilesOf
<1>5. CASE export[i].status \in LiveStatus
  <2>1. export' = [export EXCEPT ![i] = Claimed(export[i])] /\ Continue(s, "prepare", "none")
    BY <1>5 DEF Claim
  <2> PICK row : row = Claimed(export[i])
    OBVIOUS
  <2>2. row \in ExportRow /\ row.status = "RUNNING" /\ row.by = export[i].by /\ row.version = export[i].version
    BY <1>2, WorkerRows
  <2>3. Moves(export[i].status, row.status, i \in objects')
    BY <1>5, <2>2 DEF Moves
  <2>4. RowsOK' /\ Moved /\ LiveExportsEntitled' /\ DOMAIN export' = DOMAIN export /\ export'[i] = row
    BY <1>1, <1>2, <2>1, <2>2, <2>3, WorkerEdit
  <2>5. PICK v : Left(s, v, "prepare") /\ v.run = "none"
    BY <1>2, <2>1, Continues DEF Stages, Before
  <2>6. i \notin objects
    BY <1>2, <1>5, RowFacts DEF LiveStatus
  <2> QED BY <1>1, <1>2, <1>3, <1>4, <1>5, <2>2, <2>4, <2>5, <2>6, HandlerFrame DEF Stages, Before
<1>6. CASE export[i].status \notin LiveStatus
  <2>1. export' = export
    BY <1>6 DEF Claim
  <2>2. RowsOK' /\ Moved /\ LiveExportsEntitled' /\ DOMAIN export' = DOMAIN export
    BY <1>1, <2>1, SameRows
  <2>3. i \in objects' => i \in cipher' /\ export'[i].status \in {"SUCCEEDED", "REVOKED"}
    BY <1>1, <1>2, <2>1, RowFacts
  <2>4. CASE export[i].status = "SUCCEEDED"
    <3>1. PICK v : Left(s, v, "ack") /\ v.result = "completed"
      BY <1>2, <1>6, <2>4, Reports DEF Claim
    <3> QED BY <1>1, <1>2, <1>3, <1>4, <1>6, <2>1, <2>2, <2>3, <3>1, HandlerFrame DEF Before
  <2>5. CASE export[i].status # "SUCCEEDED"
    <3>1. PICK v : Left(s, v, "drop") /\ v.run = "none"
      BY <1>2, <1>6, <2>5, Continues DEF Claim, Stages
    <3> QED BY <1>1, <1>2, <1>3, <1>4, <1>6, <2>1, <2>2, <2>3, <3>1, HandlerFrame DEF Before, Stages
  <2> QED BY <2>4, <2>5
<1> QED BY <1>5, <1>6

LEMMA PrepareStep ==
  ASSUME ExportsInv, NEW s \in Slots, Prepare(s), UNCHANGED faultVars
  PROVE  ExportsInv'
<1> PICK i : i = slot[s].work
  OBVIOUS
<1>1. /\ slot[s].pc \in {"prepare", "drop"}
      /\ UNCHANGED <<outbox, sent, jobs, rec, apiVars, export, objects, scenario>> /\ CleanupUncommitted(i)
  BY DEF Prepare, At, faultVars
<1>2. Executing(s) /\ slot[s] # Idle /\ i \in DOMAIN export
  BY <1>1, ExecutingFacts DEF Stages, Before
<1>3. /\ OnlyFilesOf(i) /\ (i \in objects' => i \in cipher' /\ export'[i].status \in {"SUCCEEDED", "REVOKED"})
      /\ i \notin (cipher' \ objects') \cup work'
  <2>0. CleanupUncommitted(i) /\ objects' = objects
    BY <1>1
  <2>1. OnlyFilesOf(i) /\ (i \in objects' => i \in cipher') /\ i \notin (cipher' \ objects') \cup work'
    BY <1>2, <2>0, Cleaned
  <2>2. i \in objects' => export'[i].status \in {"SUCCEEDED", "REVOKED"}
    BY <1>1, <1>2, RowFacts
  <2> QED BY <2>1, <2>2
<1>4. RowsOK' /\ Moved /\ LiveExportsEntitled' /\ DOMAIN export' = DOMAIN export
  BY <1>1, SameRows
<1>5. CASE slot[s].pc = "prepare"
  <2>1. PICK v : Left(s, v, "build") /\ v.run = "none"
    BY <1>2, <1>5, Continues DEF Prepare, At, Stages, Before
  <2>2. Generating(s) /\ export'[i].status # "QUEUED"
    BY <1>1, <1>5 DEF Generating, Before, ExportsInv, DoneDecided
  <2> QED BY <1>1, <1>2, <1>3, <1>4, <2>1, <2>2, HandlerFrame DEF Stages, Before
<1>6. CASE slot[s].pc = "drop"
  <2>1. PICK v : Left(s, v, "ack") /\ v.result = "completed"
    BY <1>2, <1>6, Reports DEF Prepare, At
  <2>2. export'[i].status \notin LiveStatus
    BY <1>1, <1>6 DEF ExportsInv, DoneDecided, Decided
  <2> QED BY <1>1, <1>2, <1>3, <1>4, <2>1, <2>2, HandlerFrame DEF Before
<1> QED BY <1>1, <1>5, <1>6

(* Build and store: the row's progress, and files in the callback's hands.  *)
LEMMA BuildStep ==
  ASSUME ExportsInv, NEW s \in Slots, Build(s), UNCHANGED faultVars
  PROVE  ExportsInv'
<1> PICK i : i = slot[s].work
  OBVIOUS
<1>1. /\ slot[s].pc = "build" /\ UNCHANGED <<outbox, sent, jobs, rec, apiVars, cipher, objects, scenario>>
      /\ work' = work \cup {i}
  BY DEF Build, At, faultVars
<1>2. Executing(s) /\ slot[s] # Idle /\ i \in DOMAIN export /\ export[i] \in ExportRow
  BY <1>1, ExecutingFacts DEF Stages, Before
<1> PICK row : row = Progressed(export[i], 2)
  OBVIOUS
<1>3. row \in ExportRow /\ row.status = export[i].status /\ row.by = export[i].by /\ row.version = export[i].version
  <2>1. 2 \in 0..4
    OBVIOUS
  <2> QED BY <1>2, <2>1, WorkerRows
<1>4. RowsOK' /\ Moved /\ LiveExportsEntitled' /\ DOMAIN export' = DOMAIN export /\ export'[i] = row
  <2>1. export' = [export EXCEPT ![i] = row] /\ Moves(export[i].status, row.status, i \in objects')
    BY <1>3 DEF Build, Moves
  <2> QED BY <1>1, <1>2, <1>3, <2>1, WorkerEdit
<1>5. /\ OnlyFilesOf(i) /\ (i \in objects' => i \in cipher' /\ export'[i].status \in {"SUCCEEDED", "REVOKED"})
  BY <1>1, <1>2, <1>3, <1>4, RowFacts DEF OnlyFilesOf
<1>6. Generating(s) /\ export'[i].status # "QUEUED"
  BY <1>1, <1>3, <1>4 DEF Generating, Before, ExportsInv, DoneDecided
<1>7. CASE Continue(s, "tidy", "permanent")
  <2>1. PICK v : Left(s, v, "tidy") /\ v.run = "permanent"
    BY <1>2, <1>7, Continues DEF Stages
  <2> QED BY <1>1, <1>2, <1>4, <1>5, <1>6, <2>1, HandlerFrame DEF Stages, Before, Leaving
<1>8. CASE Continue(s, "store", "none")
  <2>1. PICK v : Left(s, v, "store") /\ v.run = "none"
    BY <1>2, <1>8, Continues DEF Stages, Before
  <2> QED BY <1>1, <1>2, <1>4, <1>5, <1>6, <2>1, HandlerFrame DEF Stages, Before, Leaving
<1> QED BY <1>7, <1>8 DEF Build

LEMMA StoreStep ==
  ASSUME ExportsInv, NEW s \in Slots, Store(s), UNCHANGED faultVars
  PROVE  ExportsInv'
<1> PICK i : i = slot[s].work
  OBVIOUS
<1>1. /\ slot[s].pc = "store" /\ UNCHANGED <<outbox, sent, jobs, rec, apiVars, work, objects, scenario>>
      /\ cipher' = cipher \cup {i} /\ Continue(s, "commit", "none")
  BY DEF Store, At, faultVars
<1>2. Executing(s) /\ slot[s] # Idle /\ i \in DOMAIN export /\ export[i] \in ExportRow
  BY <1>1, ExecutingFacts DEF Stages, Before
<1> PICK row : row = Progressed(export[i], 3)
  OBVIOUS
<1>3. row \in ExportRow /\ row.status = export[i].status /\ row.by = export[i].by /\ row.version = export[i].version
  <2>1. 3 \in 0..4
    OBVIOUS
  <2> QED BY <1>2, <2>1, WorkerRows
<1>4. RowsOK' /\ Moved /\ LiveExportsEntitled' /\ DOMAIN export' = DOMAIN export /\ export'[i] = row
  <2>1. export' = [export EXCEPT ![i] = row] /\ Moves(export[i].status, row.status, i \in objects')
    BY <1>3 DEF Store, Moves
  <2> QED BY <1>1, <1>2, <1>3, <2>1, WorkerEdit
<1>5. /\ OnlyFilesOf(i) /\ (i \in objects' => i \in cipher' /\ export'[i].status \in {"SUCCEEDED", "REVOKED"})
  BY <1>1, <1>2, <1>3, <1>4, RowFacts DEF OnlyFilesOf
<1>6. Generating(s) /\ export'[i].status # "QUEUED" /\ i \in cipher'
  BY <1>1, <1>3, <1>4 DEF Generating, Before, ExportsInv, DoneDecided
<1>7. PICK v : Left(s, v, "commit") /\ v.run = "none"
  BY <1>1, <1>2, Continues DEF Stages, Before
<1> QED BY <1>1, <1>2, <1>4, <1>5, <1>6, <1>7, HandlerFrame DEF Stages, Before, Leaving

(* The commit, answered or not.                                             *)
LEMMA CommittedFacts ==
  ASSUME ExportsInv, NEW s \in Slots, slot[s].pc = "commit", Committed(slot[s].work),
         UNCHANGED <<scenario, apiVars, work, cipher>>
  PROVE  LET i == slot[s].work
         IN  /\ RowsOK' /\ Moved /\ LiveExportsEntitled' /\ DOMAIN export' = DOMAIN export
             /\ OnlyFilesOf(i) /\ (i \in objects' => i \in cipher' /\ export'[i].status \in {"SUCCEEDED", "REVOKED"})
             /\ export'[i].status \notin LiveStatus
             /\ Commits(export[i]) => i \in objects'
<1> PICK i : i = slot[s].work
  OBVIOUS
<1>1. /\ i \in DOMAIN export /\ export[i] \in ExportRow /\ i \in cipher /\ export[i].status # "QUEUED"
  BY ExecutingFacts DEF Stages, Before, ExportsInv, FilesOK, DoneDecided
<1>2. CASE Commits(export[i])
  <2> PICK row : row = [export[i] EXCEPT !.status = "SUCCEEDED", !.progress = 4]
    OBVIOUS
  <2> PICK old : old = export[i]
    OBVIOUS
  <2>1. row \in ExportRow /\ row.status = "SUCCEEDED" /\ row.by = export[i].by /\ row.version = export[i].version
    <3> PICK status, percent : status = "SUCCEEDED" /\ percent = 4
      OBVIOUS
    <3>1. status \in ExportStatus /\ percent \in 0..4 /\ old \in ExportRow
      BY <1>1 DEF ExportStatus
    <3> PICK half : half = [old EXCEPT !.status = status]
      OBVIOUS
    <3>2. half \in ExportRow /\ half.status = status /\ half.by = old.by /\ half.version = old.version
      BY <3>1, StatusEdit
    <3> PICK new : new = [half EXCEPT !.progress = percent]
      OBVIOUS
    <3>3. row = new
      OBVIOUS
    <3>4. new \in ExportRow /\ new.status = half.status /\ new.by = half.by /\ new.version = half.version
      BY <3>1, <3>2 DEF ExportRow
    <3> QED BY <3>1, <3>2, <3>3, <3>4
  <2>2. export' = [export EXCEPT ![i] = row] /\ objects' = objects \cup {i}
    BY <1>2 DEF Committed
  <2>3. Moves(export[i].status, row.status, i \in objects')
    BY <1>2, <2>1, <2>2 DEF Moves, Commits
  <2>4. RowsOK' /\ Moved /\ LiveExportsEntitled' /\ DOMAIN export' = DOMAIN export /\ export'[i] = row
    BY <1>1, <2>1, <2>2, <2>3, WorkerEdit
  <2>5. OnlyFilesOf(i) /\ i \in cipher'
    BY <1>1, <2>2 DEF OnlyFilesOf
  <2> QED BY <2>1, <2>2, <2>4, <2>5 DEF LiveStatus
<1>3. CASE ~Commits(export[i])
  <2>1. export' = export /\ objects' = objects
    BY <1>3 DEF Committed
  <2>2. RowsOK' /\ Moved /\ LiveExportsEntitled' /\ DOMAIN export' = DOMAIN export
    BY <2>1, SameRows
  <2>3. OnlyFilesOf(i) /\ (i \in objects' => i \in cipher' /\ export'[i].status \in {"SUCCEEDED", "REVOKED"})
    BY <1>1, <2>1, RowFacts DEF OnlyFilesOf
  <2> QED BY <1>1, <1>3, <2>1, <2>2, <2>3 DEF Commits, LiveStatus
<1> QED BY <1>2, <1>3

LEMMA CommitStep ==
  ASSUME ExportsInv, NEW s \in Slots, (Commit(s) /\ UNCHANGED faultVars) \/ CommitUnanswered(s)
  PROVE  ExportsInv'
<1> PICK i : i = slot[s].work
  OBVIOUS
<1>1. /\ slot[s].pc = "commit" /\ UNCHANGED <<outbox, sent, jobs, rec, apiVars, work, cipher, scenario>>
      /\ Committed(i)
  BY DEF Commit, CommitUnanswered, At, faultVars, Fault
<1>2. Executing(s) /\ slot[s] # Idle /\ Generating(s)
  BY <1>1, ExecutingFacts DEF Stages, Before, Generating
<1>3. /\ RowsOK' /\ Moved /\ LiveExportsEntitled' /\ DOMAIN export' = DOMAIN export
      /\ OnlyFilesOf(i) /\ (i \in objects' => i \in cipher' /\ export'[i].status \in {"SUCCEEDED", "REVOKED"})
      /\ export'[i].status \notin LiveStatus
      /\ Commits(export[i]) => i \in objects'
  BY <1>1, CommittedFacts
<1>4. CASE Commits(export[i]) /\ Continue(s, "clear", "completed")
  <2>1. PICK v : Left(s, v, "clear") /\ v.run = "completed"
    BY <1>2, <1>4, Continues DEF Stages
  <2> QED BY <1>1, <1>2, <1>3, <1>4, <2>1, HandlerFrame DEF Stages, Before, Leaving
<1>5. CASE Continue(s, "tidy", "completed")
  <2>1. PICK v : Left(s, v, "tidy") /\ v.run = "completed"
    BY <1>2, <1>5, Continues DEF Stages
  <2> QED BY <1>1, <1>2, <1>3, <2>1, HandlerFrame DEF Stages, Before, Leaving
<1>6. CASE Continue(s, "tidy", "transient")
  <2>1. PICK v : Left(s, v, "tidy") /\ v.run = "transient"
    BY <1>2, <1>6, Continues DEF Stages
  <2> QED BY <1>1, <1>2, <1>3, <2>1, HandlerFrame DEF Stages, Before, Leaving
<1> QED BY <1>4, <1>5, <1>6 DEF Commit, CommitUnanswered

(* What a callback that has concluded leaves.                               *)
LEMMA Concluded ==
  ASSUME ExportsInv, NEW s \in Slots, slot[s].pc \in Stages, NEW i, i = slot[s].work,
         NEW v, Left(s, v, "project") \/ Left(s, v, "ack"),
         UNCHANGED <<outbox, sent, jobs, rec, scenario, apiVars, export, objects>>,
         OnlyFilesOf(i), i \in objects' => i \in cipher',
         v.pc = "ack" /\ v.result = "completed" => export[i].status \notin LiveStatus,
         FaultKinds \cap {"crash", "refused"} = {} => i \notin (cipher' \ objects') \cup work'
  PROVE  ExportsInv'
<1>1. Executing(s) /\ slot[s] # Idle /\ i \in DOMAIN export
  BY ExecutingFacts
<1>2. RowsOK' /\ Moved /\ LiveExportsEntitled' /\ DOMAIN export' = DOMAIN export
  BY SameRows
<1>3. i \in objects' => i \in cipher' /\ export'[i].status \in {"SUCCEEDED", "REVOKED"}
  BY <1>1, RowFacts
<1>4. CASE Left(s, v, "project")
  BY <1>1, <1>2, <1>3, <1>4, HandlerFrame DEF Stages, Before
<1>5. CASE Left(s, v, "ack")
  <2>1. v.pc = "ack"
    BY <1>5 DEF Left
  <2> QED BY <1>1, <1>2, <1>3, <1>5, <2>1, HandlerFrame DEF Before
<1> QED BY <1>4, <1>5

LEMMA TidyStep ==
  ASSUME ExportsInv, NEW s \in Slots, Tidy(s), UNCHANGED faultVars
  PROVE  ExportsInv'
<1> PICK i : i = slot[s].work
  OBVIOUS
<1>1. /\ slot[s].pc \in {"tidy", "clear"} /\ Conclude(s, slot[s].run)
      /\ UNCHANGED <<outbox, sent, jobs, rec, apiVars, export, objects, scenario>>
  BY DEF Tidy, At, faultVars
<1>2. slot[s].pc \in Stages /\ slot[s] # Idle /\ i \in DOMAIN export /\ SlotFits(slot[s])
  BY <1>1, ExecutingFacts DEF Stages
<1>3. slot[s].run \in {"completed", "permanent", "transient"}
  BY <1>1, <1>2 DEF SlotFits, Idle
<1>4. /\ OnlyFilesOf(i)
      /\ i \in objects' => i \in cipher'
      /\ i \notin (cipher' \ objects') \cup work'
  <2>1. CASE slot[s].pc = "tidy"
    BY <1>1, <1>2, <2>1, Cleaned DEF Tidy, At
  <2>2. CASE slot[s].pc = "clear"
    <3>1. i \in objects
      BY <2>2 DEF ExportsInv, FilesOK
    <3>2. work' = work \ {i} /\ cipher' = cipher /\ objects' = objects
      BY <1>1, <2>2 DEF Tidy, At, CleanupWorkFiles
    <3> QED BY <1>2, <3>1, <3>2, RowFacts DEF OnlyFilesOf
  <2> QED BY <1>1, <2>1, <2>2
<1>5. slot[s].run = "completed" => export[i].status \notin LiveStatus
  BY <1>1 DEF ExportsInv, DoneDecided, Decided
<1>6. PICK v : Left(s, v, "project") \/ (Left(s, v, "ack") /\ (v.result = "completed" => slot[s].run = "completed"))
  BY <1>1, <1>2, <1>3, Concludes
<1>7. v.pc = "ack" /\ v.result = "completed" => export[i].status \notin LiveStatus
  BY <1>5, <1>6 DEF Left
<1> QED BY <1>1, <1>2, <1>4, <1>6, <1>7, Concluded

LEMMA ProjectStep ==
  ASSUME ExportsInv, NEW s \in Slots, Project(s), UNCHANGED faultVars
  PROVE  ExportsInv'
<1> PICK i : i = slot[s].work
  OBVIOUS
<1> PICK old : old = slot[s]
  OBVIOUS
<1> PICK v : v = [old EXCEPT !.pc = "sweep"]
  OBVIOUS
<1>1. /\ old.pc = "project" /\ UNCHANGED <<outbox, sent, jobs, rec, apiVars, work, cipher, objects, scenario>>
      /\ slot' = [slot EXCEPT ![s] = v] /\ Fail(i)
  BY DEF Project, At, faultVars
<1>2. /\ Executing(s) /\ old # Idle /\ i \in DOMAIN export /\ SlotFits(old) /\ export[i] \in ExportRow
      /\ slot[s].pc \notin Leaving
  BY <1>1, ExecutingFacts DEF Stages, Leaving
<1>3. Left(s, v, "sweep")
  <2>1. "pc" \in DOMAIN old /\ old.result \in {"deadletter", "failed"} /\ old.work \in DOMAIN export
        /\ old.n \in DOMAIN jobs[old.work]
    BY <1>1, <1>2 DEF SlotFits
  <2>2. "pc" \in DOMAIN v /\ v.pc = "sweep" /\ v.work = old.work /\ v.n = old.n /\ v.result = old.result
    BY <2>1
  <2>3. v # Idle
    BY <2>2 DEF Idle
  <2>4. SlotFits(v)
    BY <2>1, <2>2 DEF SlotFits, Stages
  <2> QED BY <1>1, <2>2, <2>3, <2>4 DEF Left
<1>4. /\ OnlyFilesOf(i)
      /\ i \in objects' => i \in cipher'
      /\ FaultKinds \cap {"crash", "refused"} = {} => i \notin (cipher' \ objects') \cup work'
  BY <1>1, <1>2, RowFacts, NoLeftovers DEF OnlyFilesOf
<1>5. /\ RowsOK' /\ Moved /\ LiveExportsEntitled' /\ DOMAIN export' = DOMAIN export
      /\ i \in objects' => export'[i].status \in {"SUCCEEDED", "REVOKED"}
  <2>1. CASE export' = export
    BY <1>1, <1>2, <2>1, SameRows, RowFacts
  <2>2. CASE export[i].status \in LiveStatus /\ export' = [export EXCEPT ![i].status = "FAILED"]
    <3> PICK row : row = [export[i] EXCEPT !.status = "FAILED"]
      OBVIOUS
    <3>1. "FAILED" \in ExportStatus
      BY DEF ExportStatus
    <3>2. row \in ExportRow /\ row.status = "FAILED" /\ row.by = export[i].by /\ row.version = export[i].version
      BY <1>2, <3>1, StatusEdit
    <3>3. export' = [export EXCEPT ![i] = row] /\ Moves(export[i].status, row.status, i \in objects')
      BY <2>2, <3>2 DEF Moves
    <3>4. i \notin objects'
      BY <1>1, <1>2, <2>2, RowFacts DEF LiveStatus
    <3> QED BY <1>1, <1>2, <3>2, <3>3, <3>4, WorkerEdit
  <2> QED BY <1>1, <2>1, <2>2 DEF Fail
<1> QED BY <1>1, <1>2, <1>3, <1>4, <1>5, HandlerFrame DEF Stages, Before

LEMMA SweepStep ==
  ASSUME ExportsInv, NEW s \in Slots, Sweep(s), UNCHANGED faultVars
  PROVE  ExportsInv'
<1> PICK i : i = slot[s].work
  OBVIOUS
<1>1. /\ slot[s].pc = "sweep" /\ CleanupUncommitted(i) /\ Report(s, slot[s].result)
      /\ UNCHANGED <<outbox, sent, jobs, rec, apiVars, export, objects, scenario>>
  BY DEF Sweep, At, faultVars
<1>2. slot[s].pc \in Stages /\ slot[s] # Idle /\ i \in DOMAIN export /\ SlotFits(slot[s])
  BY <1>1, ExecutingFacts DEF Stages
<1>3. slot[s].result \in {"deadletter", "failed"}
  BY <1>1, <1>2 DEF SlotFits
<1>4. PICK v : Left(s, v, "ack") /\ v.result = slot[s].result
  BY <1>1, <1>2, <1>3, Reports
<1>5. /\ OnlyFilesOf(i)
      /\ i \in objects' => i \in cipher'
      /\ i \notin (cipher' \ objects') \cup work'
  BY <1>1, <1>2, Cleaned
<1> QED BY <1>1, <1>2, <1>3, <1>4, <1>5, Concluded

LEMMA StepRefusedStep ==
  ASSUME ExportsInv, NEW s \in Slots, StepRefused(s)
  PROVE  ExportsInv'
<1> PICK i : i = slot[s].work
  OBVIOUS
<1>1. /\ UNCHANGED <<outbox, sent, jobs, rec, apiVars, export, cipher, objects, scenario>>
      /\ "refused" \in FaultKinds
      /\ slot[s].pc \in {"work", "prepare", "build", "store", "commit", "tidy", "project", "sweep"}
      /\ work' = work \/ work' = work \ {i}
  BY DEF StepRefused, Fault, At
<1>2. slot[s].pc \in Stages /\ Executing(s) /\ slot[s] # Idle /\ i \in DOMAIN export /\ SlotFits(slot[s])
  BY <1>1, ExecutingFacts DEF Stages, Before
<1>3. /\ OnlyFilesOf(i)
      /\ i \in objects' => i \in cipher'
      /\ ~(FaultKinds \cap {"crash", "refused"} = {})
  BY <1>1, <1>2, RowFacts DEF OnlyFilesOf
<1>4. CASE slot[s].pc \in {"build", "store", "commit"} /\ Continue(s, "tidy", "transient")
  <2>1. PICK v : Left(s, v, "tidy") /\ v.run = "transient"
    BY <1>2, <1>4, Continues DEF Stages
  <2>2. RowsOK' /\ Moved /\ LiveExportsEntitled' /\ DOMAIN export' = DOMAIN export
    BY <1>1, SameRows
  <2>3. Generating(s) /\ (i \in objects' => export'[i].status \in {"SUCCEEDED", "REVOKED"})
    BY <1>1, <1>2, <1>4, RowFacts DEF Generating, Before
  <2> QED BY <1>1, <1>2, <1>3, <2>1, <2>2, <2>3, HandlerFrame DEF Stages, Before, Leaving
<1>5. CASE \E v : /\ Left(s, v, "project") \/ Left(s, v, "ack")
                  /\ v.pc = "ack" /\ v.result = "completed" => export[i].status \notin LiveStatus
  BY <1>1, <1>2, <1>3, <1>5, Concluded
<1>6. CASE slot[s].pc \in {"work", "prepare"} /\ TransientFailure(s)
  <2>1. PICK v : Left(s, v, "project") \/ (Left(s, v, "ack") /\ v.result = "failed")
    BY <1>2, <1>6, FailsTransiently
  <2> QED BY <1>5, <2>1 DEF Left
<1>7. CASE slot[s].pc = "tidy" /\ Conclude(s, slot[s].run)
  <2>1. slot[s].run \in {"completed", "permanent", "transient"}
    BY <1>2, <1>7 DEF SlotFits
  <2>2. slot[s].run = "completed" => export[i].status \notin LiveStatus
    BY <1>7 DEF ExportsInv, DoneDecided, Decided
  <2>3. PICK v : Left(s, v, "project") \/ (Left(s, v, "ack") /\ (v.result = "completed" => slot[s].run = "completed"))
    BY <1>2, <1>7, <2>1, Concludes
  <2> QED BY <1>5, <2>2, <2>3 DEF Left
<1>8. CASE slot[s].pc = "project" /\ Report(s, "failed")
  <2>1. PICK v : Left(s, v, "ack") /\ v.result = "failed"
    BY <1>2, <1>8, Reports
  <2> QED BY <1>5, <2>1
<1>9. CASE slot[s].pc = "sweep" /\ Report(s, slot[s].result)
  <2>1. slot[s].result \in {"deadletter", "failed"}
    BY <1>2, <1>9 DEF SlotFits
  <2>2. PICK v : Left(s, v, "ack") /\ v.result = slot[s].result
    BY <1>2, <1>9, <2>1, Reports
  <2> QED BY <1>5, <2>1, <2>2
<1> QED BY <1>4, <1>6, <1>7, <1>8, <1>9 DEF StepRefused, At

LEMMA HandlerSteps ==
  ASSUME ExportsInv, NEW s \in Slots,
         (GenerateStep(s) /\ UNCHANGED faultVars) \/ CommitUnanswered(s) \/ StepRefused(s)
  PROVE  ExportsInv'
BY ClaimStep, PrepareStep, BuildStep, StoreStep, CommitStep, TidyStep, ProjectStep, SweepStep, StepRefusedStep
   DEF GenerateStep

-----------------------------------------------------------------------------
(* Steps of the reconciler.                                                 *)

(* A failed job of an export that no callback holds is marked.              *)
LEMMA JobMarked ==
  ASSUME ExportsInv, NEW w \in ExportIds, NEW n \in DOMAIN jobs[w], Reconcilable(jobs[w][n]),
         \A s \in Slots : Executing(s) => slot[s].work # w,
         NEW job, job = Reconciled(jobs[w][n]), jobs' = [jobs EXCEPT ![w][n] = job],
         UNCHANGED <<outbox, sent, slot, scenario, exportVars>>, rec' = RecIdle
  PROVE  ExportsInv'
<1> PICK old : old = jobs[w][n]
  OBVIOUS
<1>1. old \in JobRow /\ JobFits(w, old) /\ old.state = "failed"
  BY JobFacts DEF ExportsInv, Reconcilable
<1>2. job \in JobRow /\ job.event = old.event /\ job.state = "failed"
  BY <1>1, AttemptEdits
<1>3. JobFits(w, job)
  BY <1>1, <1>2 DEF JobFits
<1>4. /\ QueueOK' /\ \A u \in ExportIds : DOMAIN jobs'[u] = DOMAIN jobs[u]
      /\ \A u \in ExportIds : \A m \in DOMAIN jobs[u] : jobs'[u][m] = IF u = w /\ m = n THEN job ELSE jobs[u][m]
  <2>1. QueueOK /\ UNCHANGED <<outbox, sent, export>> /\ job \in JobRow
    BY <1>2 DEF ExportsInv, exportVars
  <2>2. QueueOK' /\ \A u \in ExportIds : DOMAIN jobs'[u] = DOMAIN jobs[u]
    BY <1>3, <2>1, JobEdited
  <2>3. ASSUME NEW u \in ExportIds, NEW m \in DOMAIN jobs[u]
        PROVE  jobs'[u][m] = IF u = w /\ m = n THEN job ELSE jobs[u][m]
    <3>1. jobs \in [ExportIds -> Seq(JobRow)] /\ jobs[w] \in Seq(JobRow)
      BY <2>1 DEF QueueOK
    <3>2. CASE u = w
      BY <3>1, <3>2
    <3>3. CASE u # w
      BY <3>1, <3>3
    <3> QED BY <3>2, <3>3
  <2> QED BY <2>2, <2>3
<1>5. \A s \in Slots : slot[s] # Idle => slot[s].work \in ExportIds /\ slot[s].n \in DOMAIN jobs[slot[s].work]
  BY SlotFacts
<1>6. SlotsOK'
  BY <1>4, <1>5 DEF ExportsInv, SlotsOK, SlotFits, exportVars
<1>7. RecOK' /\ Exclusive'
  BY DEF RecOK, ExportsInv, Exclusive, Executing
<1>8. HeldUnmarked'
  BY <1>4, <1>5 DEF ExportsInv, HeldUnmarked, Executing, Idle, Job
<1>9. ASSUME NEW i \in DOMAIN export, Done(i)' PROVE Done(i)
  <2>1. i \in ExportIds
    BY ExportFacts DEF ExportsInv
  <2>2. \A m \in DOMAIN jobs'[i] : jobs'[i][m].state = "completed" => m \in DOMAIN jobs[i] /\ jobs[i][m].state = "completed"
    BY <1>2, <1>4, <2>1
  <2> QED BY <1>9, <2>2 DEF Done, Reporting
<1> QED BY <1>4, <1>6, <1>7, <1>8, <1>9, QueueFrame

(* The reconciler takes or drops a job and touches nothing.                 *)
LEMMA RecOnly ==
  ASSUME ExportsInv, UNCHANGED <<outbox, sent, jobs, slot, scenario, exportVars>>,
         RecOK', \A s \in Slots : Executing(s) /\ rec' # RecIdle => slot[s].work # rec'.work
  PROVE  ExportsInv'
<1>1. QueueOK' /\ SlotsOK'
  BY DEF ExportsInv, QueueOK, JobFits, SlotsOK, SlotFits, exportVars
<1>2. Exclusive' /\ HeldUnmarked'
  BY DEF ExportsInv, Exclusive, HeldUnmarked, Executing, Job
<1>3. \A i \in DOMAIN export : Done(i)' => Done(i)
  BY DoneSame
<1> QED BY <1>1, <1>2, <1>3, QueueFrame

LEMMA BeginReconciliationStep ==
  ASSUME ExportsInv, NEW w \in ExportIds, NEW n \in DOMAIN jobs[w], BeginReconciliation(w, n),
         UNCHANGED <<scenario, exportVars>>
  PROVE  ExportsInv'
<1>1. /\ rec = RecIdle /\ Reconcilable(jobs[w][n]) /\ UNCHANGED <<outbox, sent, slot>>
      /\ \A s \in Slots : Executing(s) => slot[s].work # w
  BY DEF BeginReconciliation, LockFree
<1>2. CASE jobs' = [jobs EXCEPT ![w][n] = Reconciled(@)] /\ rec' = rec
  <2>1. PICK job : job = Reconciled(jobs[w][n])
    OBVIOUS
  <2>2. jobs' = [jobs EXCEPT ![w][n] = job]
    BY <1>2, <2>1
  <2> QED BY <1>1, <1>2, <2>1, <2>2, JobMarked
<1>3. CASE rec' = [pc |-> "project", work |-> w, n |-> n] /\ jobs' = jobs
  <2>1. w \in DOMAIN export
    BY JobFacts DEF ExportsInv
  <2>2. rec'.pc = "project" /\ rec'.work = w /\ rec'.n = n /\ rec' = [pc |-> rec'.pc, work |-> rec'.work, n |-> rec'.n]
    BY <1>3
  <2>3. RecOK'
    BY <1>1, <1>3, <2>1, <2>2 DEF RecOK, Job, Reconcilable, exportVars
  <2> QED BY <1>1, <1>3, <2>2, <2>3, RecOnly
<1> QED BY <1>2, <1>3 DEF BeginReconciliation

LEMMA RecFacts ==
  ASSUME ExportsInv, rec # RecIdle
  PROVE  /\ rec = [pc |-> rec.pc, work |-> rec.work, n |-> rec.n]
         /\ rec.work \in DOMAIN export /\ rec.work \in ExportIds /\ rec.n \in DOMAIN jobs[rec.work]
         /\ Reconcilable(jobs[rec.work][rec.n])
         /\ \A s \in Slots : Executing(s) => slot[s].work # rec.work
BY ExportFacts DEF ExportsInv, RecOK, Job, Reconcilable, Exclusive

LEMMA EndReconciliationStep ==
  ASSUME ExportsInv, EndReconciliation, UNCHANGED <<scenario, exportVars>>
  PROVE  ExportsInv'
<1> PICK w, n : w = rec.work /\ n = rec.n
  OBVIOUS
<1> PICK job : job = Reconciled(jobs[w][n])
  OBVIOUS
<1>1. /\ rec # RecIdle /\ rec' = RecIdle /\ jobs' = [jobs EXCEPT ![w][n] = job]
      /\ UNCHANGED <<outbox, sent, slot>>
  BY DEF EndReconciliation, RecIdle
<1>2. w \in ExportIds /\ n \in DOMAIN jobs[w] /\ Reconcilable(jobs[w][n])
      /\ \A s \in Slots : Executing(s) => slot[s].work # w
  BY <1>1, RecFacts
<1> QED BY <1>1, <1>2, JobMarked

LEMMA ReconciliationLostStep ==
  ASSUME ExportsInv, ReconciliationLost, UNCHANGED exportVars
  PROVE  ExportsInv'
<1>1. rec' = RecIdle /\ UNCHANGED <<outbox, sent, jobs, slot, scenario>>
  BY DEF ReconciliationLost, Fault
<1>2. RecOK'
  BY <1>1 DEF RecOK
<1> QED BY <1>1, <1>2, RecOnly

(* The reconciler works on an export under the same lock as the callbacks.  *)
LEMMA ReconcilerFrame ==
  ASSUME ExportsInv, NEW i, rec # RecIdle, i = rec.work, NEW pc \in {"sweep", "record"},
         rec' = [rec EXCEPT !.pc = pc], UNCHANGED <<outbox, sent, jobs, slot, scenario, objects>>,
         RowsOK', Moved, LiveExportsEntitled', DOMAIN export' = DOMAIN export,
         OnlyFilesOf(i), i \in objects' => i \in cipher',
         i \in (cipher' \ objects') \cup work' => i \in (cipher \ objects) \cup work
  PROVE  ExportsInv'
<1>1. /\ rec = [pc |-> rec.pc, work |-> rec.work, n |-> rec.n] /\ i \in DOMAIN export
      /\ \A s \in Slots : Executing(s) => slot[s].work # i
  BY RecFacts
<1>2. rec' = [pc |-> pc, work |-> rec.work, n |-> rec.n]
  BY <1>1
<1>3. rec' # RecIdle /\ rec'.pc = pc /\ rec'.work = rec.work /\ rec'.n = rec.n
      /\ rec' = [pc |-> rec'.pc, work |-> rec'.work, n |-> rec'.n]
  BY <1>2 DEF RecIdle
<1>4. RecOK'
  BY <1>1, <1>3 DEF ExportsInv, RecOK, Job
<1>5. FaultKinds' = FaultKinds /\ \A s \in Slots : slot[s].pc \in Stages => slot[s].work # i /\ slot[s].work \in DOMAIN export
  BY <1>1, SameScenario, ExecutingFacts DEF Executing, Stages, Before
<1>6. QueueOK' /\ SlotsOK'
  BY DEF ExportsInv, QueueOK, JobFits, SlotsOK, SlotFits
<1>7. Exclusive' /\ HeldUnmarked'
  BY <1>3 DEF ExportsInv, Exclusive, HeldUnmarked, Executing, Job
<1>8. FilesOK'
  <2>1. work' \cup cipher' \cup objects' \subseteq DOMAIN export' /\ objects' \subseteq cipher'
    BY <1>1 DEF ExportsInv, FilesOK, OnlyFilesOf
  <2>2. \A k \in objects' : export'[k].status \in {"SUCCEEDED", "REVOKED"}
    BY DEF ExportsInv, FilesOK, Moved, Moves, LiveStatus
  <2>3. \A k \in DOMAIN export' : export'[k].status = "SUCCEEDED" => k \in objects'
    BY DEF ExportsInv, FilesOK, Moved, Moves
  <2>4. ASSUME NEW s \in Slots
        PROVE  /\ slot'[s].pc = "commit" => slot'[s].work \in cipher'
               /\ slot'[s].pc = "clear" => slot'[s].work \in objects'
    BY <1>5 DEF ExportsInv, FilesOK, OnlyFilesOf, Stages, Before
  <2> QED BY <2>1, <2>2, <2>3, <2>4 DEF FilesOK
<1>9. DoneDecided'
  <2>1. \A k \in DOMAIN export : Decided(k) => export'[k].status \notin LiveStatus
    BY DEF Decided, Moved, Moves, LiveStatus
  <2>2. \A k \in DOMAIN export : Done(k)' =>
          export'[k].status \notin LiveStatus /\ \A s \in Slots : Generating(s)' => slot'[s].work # k
    BY <2>1, DoneSame DEF ExportsInv, DoneDecided, Generating
  <2>3. \A s \in Slots : slot[s].pc \in Before => export'[slot[s].work].status # "QUEUED"
    BY <1>5 DEF ExportsInv, DoneDecided, Moved, Moves, Stages
  <2>4. \A s \in Slots : slot[s].pc = "drop" \/ (slot[s].pc \in {"tidy", "clear"} /\ slot[s].run = "completed")
                           => export'[slot[s].work].status \notin LiveStatus
    BY <1>5, <2>1 DEF ExportsInv, DoneDecided, Stages
  <2> QED BY <2>2, <2>3, <2>4 DEF DoneDecided, Decided
<1>10. LeftoversHeld'
  <2>1. \A k : k \in (cipher' \ objects') \cup work' => k \in (cipher \ objects) \cup work
    BY DEF OnlyFilesOf
  <2> QED BY <1>5, <2>1 DEF ExportsInv, LeftoversHeld
<1> QED BY <1>4, <1>6, <1>7, <1>8, <1>9, <1>10 DEF ExportsInv

LEMMA ReconcileExportStep ==
  ASSUME ExportsInv, ReconcileExport, UNCHANGED faultVars
  PROVE  ExportsInv'
<1> PICK i : i = rec.work
  OBVIOUS
<1>1. /\ rec # RecIdle /\ UNCHANGED <<outbox, sent, jobs, slot, apiVars, work, cipher, objects, scenario>>
      /\ \E pc \in {"sweep", "record"} : rec' = [rec EXCEPT !.pc = pc]
  BY DEF ReconcileExport, RecIdle, faultVars
<1>2. i \in DOMAIN export /\ export[i] \in ExportRow
  BY <1>1, RecFacts, RowFacts
<1>3. /\ OnlyFilesOf(i)
      /\ i \in objects' => i \in cipher'
      /\ i \in (cipher' \ objects') \cup work' => i \in (cipher \ objects) \cup work
  BY <1>1, <1>2, RowFacts DEF OnlyFilesOf
<1>4. RowsOK' /\ Moved /\ LiveExportsEntitled' /\ DOMAIN export' = DOMAIN export
  <2>1. CASE export' = export
    BY <1>1, <2>1, SameRows
  <2>2. CASE export[i].status \in LiveStatus /\ export' = [export EXCEPT ![i].status = "FAILED"]
    <3> PICK row : row = [export[i] EXCEPT !.status = "FAILED"]
      OBVIOUS
    <3>1. "FAILED" \in ExportStatus
      BY DEF ExportStatus
    <3>2. row \in ExportRow /\ row.status = "FAILED" /\ row.by = export[i].by /\ row.version = export[i].version
      BY <1>2, <3>1, StatusEdit
    <3>3. export' = [export EXCEPT ![i] = row] /\ Moves(export[i].status, row.status, i \in objects')
      BY <2>2, <3>2 DEF Moves
    <3> QED BY <1>1, <1>2, <3>2, <3>3, WorkerEdit
  <2> QED BY <2>1, <2>2 DEF ReconcileExport, Fail
<1> QED BY <1>1, <1>3, <1>4, ReconcilerFrame

LEMMA ReconcileSweepStep ==
  ASSUME ExportsInv, ReconcileSweep, UNCHANGED faultVars
  PROVE  ExportsInv'
<1> PICK i : i = rec.work
  OBVIOUS
<1>1. /\ rec # RecIdle /\ UNCHANGED <<outbox, sent, jobs, slot, apiVars, export, objects, scenario>>
      /\ CleanupUncommitted(i) /\ rec' = [rec EXCEPT !.pc = "record"]
  BY DEF ReconcileSweep, RecIdle, faultVars
<1>2. i \in DOMAIN export
  BY <1>1, RecFacts
<1>3. /\ OnlyFilesOf(i)
      /\ i \in objects' => i \in cipher'
      /\ i \notin (cipher' \ objects') \cup work'
  BY <1>1, <1>2, Cleaned
<1>4. RowsOK' /\ Moved /\ LiveExportsEntitled' /\ DOMAIN export' = DOMAIN export
  BY <1>1, SameRows
<1> QED BY <1>1, <1>3, <1>4, ReconcilerFrame

-----------------------------------------------------------------------------
(* The invariant, and what follows from it.                                 *)

LEMMA ExportsInvInit == Init => ExportsInv
<1> SUFFICES ASSUME Init PROVE ExportsInv
  OBVIOUS
<1>1. /\ scenario \in Scenarios /\ outbox = {} /\ sent = {} /\ jobs = [w \in ExportIds |-> <<>>]
      /\ slot = [s \in Slots |-> Idle] /\ rec = RecIdle
      /\ shop = "ACTIVE" /\ staff \in SUBSET (Accounts \ Admins)
      /\ membership = [a \in Accounts |-> NoMembership]
      /\ current = 0 /\ export = <<>> /\ grants = <<>>
      /\ request = [q \in Requests |-> NoRequest]
      /\ work = {} /\ cipher = {} /\ objects = {}
  BY DEF Init, QueueInit
<1>2. DOMAIN export = {} /\ DOMAIN grants = {} /\ Len(export) = 0 /\ export \in Seq(ExportRow) /\ grants \in Seq(GrantRow)
  BY <1>1
<1>3. RowsOK
  <2>1. NoMembership \in MembershipRows /\ NoRequest \in RequestRow /\ "ACTIVE" \in ShopStates
    BY DEF NoMembership, MembershipRows, RequestRow, ShopStates
  <2>2. membership \in [Accounts -> MembershipRows] /\ request \in [Requests -> RequestRow]
    BY <1>1, <2>1
  <2>3. MaxSnapshots \in Nat /\ Len(export) <= MaxExports
    BY <1>1, <1>2, ExportsAssumption DEF MaxSnapshots
  <2>4. current \in 0..MaxSnapshots /\ shop \in ShopStates /\ staff \subseteq Accounts
    BY <1>1, <2>1, <2>3
  <2> QED BY <1>1, <1>2, <2>2, <2>3, <2>4 DEF RowsOK
<1>4. \A s \in Slots : slot[s] = Idle /\ slot[s].pc = "idle" /\ ~Executing(s)
  BY <1>1 DEF Idle, Executing
<1>5. QueueOK
  <2>1. \A w \in ExportIds : jobs[w] = <<>> /\ DOMAIN jobs[w] = {}
    BY <1>1
  <2>2. jobs \in [ExportIds -> Seq(JobRow)]
    BY <1>1
  <2> QED BY <1>1, <2>1, <2>2 DEF QueueOK
<1>6. SlotsOK /\ RecOK /\ Exclusive /\ HeldUnmarked
  BY <1>1, <1>4 DEF SlotsOK, SlotFits, RecOK, Exclusive, HeldUnmarked
<1>7. FilesOK /\ LeftoversHeld /\ LiveExportsEntitled
  BY <1>1, <1>2, <1>4 DEF FilesOK, LeftoversHeld, LiveExportsEntitled
<1>8. DoneDecided
  BY <1>2, <1>4 DEF DoneDecided, Before
<1> QED BY <1>3, <1>5, <1>6, <1>7, <1>8 DEF ExportsInv

LEMMA ExportsInvUnchanged ==
  ASSUME ExportsInv, UNCHANGED vars
  PROVE  ExportsInv'
<1>1. UNCHANGED <<outbox, sent, jobs, slot, rec, scenario, exportVars>>
  BY DEF vars, queueVars, faultVars
<1>2. RecOK' /\ \A s \in Slots : Executing(s) /\ rec' # RecIdle => slot[s].work # rec'.work
  BY <1>1 DEF ExportsInv, RecOK, Exclusive, Job, exportVars
<1> QED BY <1>1, <1>2, RecOnly

LEMMA ReconcilerSteps ==
  ASSUME ExportsInv, (ReconcilerStep /\ UNCHANGED faultVars) \/ (ReconciliationLost /\ UNCHANGED exportVars)
  PROVE  ExportsInv'
<1>1. DOMAIN jobs = ExportIds
  BY DEF ExportsInv, QueueOK
<1>2. CASE ReconcilerStep /\ UNCHANGED faultVars
  <2>1. scenario' = scenario
    BY <1>2 DEF faultVars
  <2> QED BY <1>1, <1>2, <2>1, BeginReconciliationStep, ReconcileExportStep, ReconcileSweepStep, EndReconciliationStep
        DEF ReconcilerStep
<1> QED BY <1>2, ReconciliationLostStep

LEMMA ExportsInvNext == ExportsInv /\ [Next]_vars => ExportsInv'
<1> SUFFICES ASSUME ExportsInv, Next PROVE ExportsInv'
  BY ExportsInvUnchanged
<1>1. CASE NoFault(Api) \/ NoFault(Others)
  BY <1>1, ApiStep, OthersStep DEF NoFault
<1>2. CASE QueueOnly(QueueStep) \/ (QueueFault /\ UNCHANGED exportVars)
  BY <1>2, QueueSteps DEF QueueOnly
<1>3. CASE NoFault(\E s \in Slots : GenerateStep(s)) \/ \E s \in Slots : CommitUnanswered(s) \/ StepRefused(s)
  BY <1>3, HandlerSteps DEF NoFault
<1>4. CASE NoFault(ReconcilerStep) \/ (ReconciliationLost /\ UNCHANGED exportVars)
  BY <1>4, ReconcilerSteps DEF NoFault
<1> QED BY <1>1, <1>2, <1>3, <1>4 DEF Next

(* Every step of requests, memberships, queue, worker and reconciler keeps  *)
(* the invariant: the locks, the rows and the files fit together.           *)
THEOREM ExportsInvHolds == Spec => []ExportsInv
BY ExportsInvInit, ExportsInvNext, PTL DEF Spec

(* A customer's export that is wanted or done, and a download token, rest   *)
(* on the membership as it is now: what memberships/service.ts changes in   *)
(* one transaction with invalidateForMembership, no request and no worker   *)
(* of exports/postgres.ts that read an older row can undo.                  *)
THEOREM LiveExportsEntitledHolds == Spec => []LiveExportsEntitled
<1>1. ExportsInv => LiveExportsEntitled
  BY DEF ExportsInv
<1> QED BY <1>1, ExportsInvHolds, PTL

(* Files that no row refers to are in the hands of a callback, and its job  *)
(* is still open.                                                           *)
LEMMA LeftoversUnfinished ==
  ASSUME ExportsInv
  PROVE  NoOrphanExport
<1> SUFFICES ASSUME FaultKinds \cap {"crash", "refused"} = {}, NEW i \in (cipher \ objects) \cup work
             PROVE  Unfinished(i)
  BY DEF NoOrphanExport
<1>1. PICK s \in Slots : slot[s].pc \in Leaving /\ slot[s].work = i
  BY DEF ExportsInv, LeftoversHeld
<1>2. /\ Executing(s) /\ slot[s] # Idle /\ i \in DOMAIN export /\ slot[s].n \in DOMAIN jobs[i]
  <2>1. slot[s].pc \in Stages
    BY <1>1 DEF Leaving, Stages, Before
  <2> QED BY <1>1, <2>1, ExecutingFacts, SlotFacts
<1>3. ~jobs[i][slot[s].n].marked
  BY <1>1, <1>2 DEF ExportsInv, HeldUnmarked, Job
<1>4. jobs[i][slot[s].n].state # "completed"
  <2>1. Generating(s)
    BY <1>1 DEF Generating, Leaving, Before
  <2>2. ~Done(i)
    BY <1>1, <1>2, <2>1 DEF ExportsInv, DoneDecided
  <2> QED BY <1>2, <2>2 DEF Done
<1> QED BY <1>2, <1>3, <1>4 DEF Unfinished, Open

LEMMA ExportsTyped ==
  ASSUME ExportsInv
  PROVE  TypeOK
<1>1. \A i \in DOMAIN export : export[i] \in ExportRow
  BY ExportFacts DEF ExportsInv
<1>2. \A i \in DOMAIN export : export[i].status \in ExportStatus /\ export[i].progress \in 0..4
  BY <1>1 DEF ExportRow
<1> QED BY <1>2 DEF ExportsInv, RowsOK, FilesOK, TypeOK

(* Objects that rows refer to can be read whatever the finally block, a     *)
(* projection or a retry after a lost COMMIT removed, and without a crash   *)
(* or a refused statement, files that no row refers to belong to work that  *)
(* is not over: exports/postgres.ts looks for the row under the job lock    *)
(* before it removes a file.                                                *)
THEOREM FilesSoundHolds == Spec => []FilesSound
<1>1. ExportsInv => FilesSound
  BY ExportsTyped, LeftoversUnfinished DEF FilesSound, SucceededReadable, ExportsInv, FilesOK
<1> QED BY <1>1, ExportsInvHolds, PTL

=============================================================================
