------------------------------ MODULE Exports -------------------------------
(***************************************************************************)
(* Report exports of one shop (exports/postgres.ts and the invalidator     *)
(* beside it) with the memberships that entitle customers to them          *)
(* (memberships/service.ts), and the worker that generates them.           *)
(*                                                                         *)
(* An export is numbered in the order of creation; its object has the same *)
(* id, as in the code.  A request holds the actor that authenticate() read *)
(* for it.                                                                 *)
(***************************************************************************)
EXTENDS JobQueue, Authorization

CONSTANTS Requests,
          Keys,           \* idempotency keys
          Params,         \* rates, prefixes and period of a report
          MaxExports      \* bound

Accounts     == scenario.accounts
Admins       == scenario.admins
Customers    == scenario.customers      \* accounts that are invited to the shop
BadSnapshots == scenario.badSnapshots   \* snapshots whose report fails a check for good
MaxSnapshots == scenario.maxSnapshots   \* bounds
MaxGrants    == scenario.maxGrants
MaxEpoch     == scenario.maxEpoch

ASSUME ExportsAssumption ==
  /\ MaxExports \in Nat
  /\ \A s \in Scenarios :
       /\ s.admins \subseteq s.accounts /\ s.customers \subseteq s.accounts
       /\ s.maxSnapshots \in Nat /\ s.maxGrants \in Nat /\ s.maxEpoch \in Nat
       /\ s.badSnapshots \subseteq 1..s.maxSnapshots

VARIABLES shop,        \* shop.status
          staff,       \* accounts with an ACTIVE enterprise_member row
          membership,  \* [Accounts -> shop_membership row]
          current,     \* shop_current_published_snapshot; snapshots are numbered
          export,      \* export_request rows
          grants,      \* export_download_grant rows
          request,     \* [Requests -> what the API process knows]
          work,        \* plaintext reports and work directories
          cipher,      \* ciphertexts in the object store
          objects      \* stored_object rows

exportVars == <<shop, staff, membership, current, export, grants, request, work, cipher, objects>>
vars == <<queueVars, faultVars, exportVars>>
apiVars == <<shop, staff, membership, current, grants, request>>

Enterprise   == "enterprise"
LiveStatus   == {"QUEUED", "RUNNING"}
ExportStatus == LiveStatus \cup {"SUCCEEDED", "FAILED", "CANCELLED", "REVOKED"}
ExportIds    == 1..MaxExports
Unbound      == 0      \* membership_authorization_version IS NULL
NoRequest    == [pc |-> "none"]

Actor(a) == [account |-> a, active |-> TRUE, role |-> IF a \in Admins THEN "ADMIN" ELSE "ACCOUNTANT",
             enterprises |-> IF a \in staff THEN {Enterprise} ELSE {}]

Init ==
  /\ QueueInit(ExportIds)
  /\ shop = "ACTIVE" /\ staff \in SUBSET (Accounts \ Admins)
  /\ membership = [a \in Accounts |-> NoMembership]
  /\ current = 0 /\ export = <<>> /\ grants = <<>>
  /\ request = [q \in Requests |-> NoRequest]
  /\ work = {} /\ cipher = {} /\ objects = {}

-----------------------------------------------------------------------------
(* Authorization of a request.                                             *)

Authenticate(q, a) ==
  /\ request[q] = NoRequest
  /\ request' = [request EXCEPT ![q] = [pc |-> "ready", actor |-> Actor(a)]]
  /\ UNCHANGED <<queueVars, shop, staff, membership, current, export, grants, work, cipher, objects>>

MembershipOf(actor) == membership[actor.account]

(* requireExportAccess; authorizeCreate holds the shop and the membership  *)
(* FOR SHARE until its transaction ends.                                   *)
MayExport(actor) == AuthorizeShop(actor, Enterprise, shop, MembershipOf(actor), "RESULT_EXPORT")

UsesCustomerMembership(actor) == ~IsStaff(actor, Enterprise)

Version(actor) == IF UsesCustomerMembership(actor) THEN MembershipOf(actor).epoch ELSE Unbound

RequireExportJobActor(actor, row) ==
  /\ row.status # "REVOKED"
  /\ row.by = actor.account \/ IsStaff(actor, Enterprise)
  /\ UsesCustomerMembership(actor) => row.version = MembershipOf(actor).epoch

Answered(q) == request' = [request EXCEPT ![q] = NoRequest]

-----------------------------------------------------------------------------
(* Requests.                                                               *)

NewExport(actor, snapshot, key, params) ==
  [status |-> "QUEUED", by |-> actor.account, snapshot |-> snapshot, version |-> Version(actor),
   key |-> key, params |-> params, due |-> FALSE, progress |-> 0]

(* create: the business key is that of an earlier export (replayed when    *)
(* the request is the same, refused otherwise), or a new one.              *)
Create(q, actor, snapshot, key, params) ==
  LET prior == {i \in DOMAIN export : export[i].by = actor.account /\ export[i].key = key}
  IN  /\ snapshot \in 1..current
      /\ IF MayExport(actor) /\ prior = {}
         THEN /\ Len(export) < MaxExports
              /\ export' = Append(export, NewExport(actor, snapshot, key, params))
              /\ outbox' = outbox \cup {[work |-> Len(export) + 1]}
         ELSE UNCHANGED <<export, outbox>>
      /\ Answered(q)
      /\ UNCHANGED <<sent, jobs, slot, rec, shop, staff, membership, current, grants, work, cipher, objects>>

CreateExport(q, snapshot, key, params) ==
  request[q].pc = "ready" /\ Create(q, request[q].actor, snapshot, key, params)

(* createCurrent reads the pointer, then looks for an export to reuse, and *)
(* then calls create: three transactions.                                  *)
ResolveCurrent(q, params) ==
  /\ request[q].pc = "ready"
  /\ MayExport(request[q].actor) /\ current > 0
  /\ request' = [request EXCEPT ![q] = [pc |-> "resolved", actor |-> @.actor,
                                        snapshot |-> current, params |-> params]]
  /\ UNCHANGED <<queueVars, shop, staff, membership, current, export, grants, work, cipher, objects>>

Reusable(r) ==
  {i \in DOMAIN export : /\ export[i].by = r.actor.account /\ export[i].snapshot = r.snapshot
                         /\ export[i].params = r.params /\ ~export[i].due
                         /\ export[i].status \in LiveStatus \cup {"SUCCEEDED"}}

ReuseCurrent(q) ==
  /\ request[q].pc = "resolved"
  /\ request' = [request EXCEPT ![q] = IF Reusable(@) # {} THEN NoRequest ELSE [@ EXCEPT !.pc = "creating"]]
  /\ UNCHANGED <<queueVars, shop, staff, membership, current, export, grants, work, cipher, objects>>

CreateCurrent(q, key) ==
  /\ request[q].pc = "creating"
  /\ Create(q, request[q].actor, request[q].snapshot, key, request[q].params)

Cancellable(row) == row.status \in LiveStatus

Cancel(q, i) ==
  LET actor == request[q].actor
  IN  /\ request[q].pc = "ready" /\ i \in DOMAIN export
      /\ export' = IF MayExport(actor) /\ RequireExportJobActor(actor, export[i]) /\ Cancellable(export[i])
                   THEN [export EXCEPT ![i].status = "CANCELLED"] ELSE export
      /\ Answered(q)
      /\ UNCHANGED <<queueVars, shop, staff, membership, current, grants, work, cipher, objects>>

CreateDownloadToken(q, i) ==
  LET actor == request[q].actor
  IN  /\ request[q].pc = "ready" /\ i \in DOMAIN export /\ Len(grants) < MaxGrants
      /\ MayExport(actor) /\ RequireExportJobActor(actor, export[i])
      /\ export[i].status = "SUCCEEDED"
      /\ grants' = Append(grants, [export |-> i, account |-> actor.account, version |-> Version(actor),
                                   state |-> "ACTIVE"])
      /\ Answered(q)
      /\ UNCHANGED <<queueVars, shop, staff, membership, current, export, work, cipher, objects>>

Download(q, g) ==
  LET actor == request[q].actor
      row   == export[grants[g].export]
  IN  /\ request[q].pc = "ready" /\ g \in DOMAIN grants
      /\ grants[g].account = actor.account
      /\ MayExport(actor) /\ RequireExportJobActor(actor, row)
      /\ row.status = "SUCCEEDED"
      /\ grants[g].state = "ACTIVE" /\ grants[g].version = Version(actor)
      /\ grants' = [grants EXCEPT ![g].state = "CONSUMED"]
      /\ Answered(q)
      /\ UNCHANGED <<queueVars, shop, staff, membership, current, export, work, cipher, objects>>

-----------------------------------------------------------------------------
(* What others do meanwhile.                                               *)

(* invalidateForMembership, in the transaction that changed the epoch.     *)
\* Mutated form: what is finished already is forgotten.
InvalidatedUnfinished(row, a, epoch) ==
  /\ row.by = a /\ row.version \notin {Unbound, epoch}
  /\ row.status \in LiveStatus
Invalidated(row, a, epoch) ==
  /\ row.by = a /\ row.version \notin {Unbound, epoch}
  /\ row.status \in LiveStatus \cup {"SUCCEEDED"}

InvalidateForMembership(a, epoch) ==
  /\ export' = [i \in DOMAIN export |->
                  IF Invalidated(export[i], a, epoch) THEN [export[i] EXCEPT !.status = "REVOKED"] ELSE export[i]]
  /\ grants' = [g \in DOMAIN grants |->
                  IF /\ grants[g].account = a /\ grants[g].version \notin {Unbound, epoch}
                     /\ grants[g].state \in {"ACTIVE", "EXPIRED"}
                  THEN [grants[g] EXCEPT !.state = "REVOKED"] ELSE grants[g]]

SetMembership(a, row, invalidates) ==
  /\ row.epoch <= MaxEpoch
  /\ membership' = [membership EXCEPT ![a] = row]
  /\ IF invalidates THEN InvalidateForMembership(a, row.epoch) ELSE UNCHANGED <<export, grants>>
  /\ UNCHANGED <<queueVars, shop, staff, current, request, work, cipher, objects>>

(* An invitation is accepted: no look at the shop.                         *)
ActivateShopMembership(a, allowed) ==
  LET row == Activated(membership[a], allowed) IN SetMembership(a, row, row.epoch # 1)

SetExportAllowed(a, allowed) ==
  /\ StaffMay(shop, "MEMBERSHIP_MANAGE")
  /\ membership[a].status = "ACTIVE" /\ membership[a].export # allowed
  /\ SetMembership(a, ExportChanged(membership[a], allowed), ~allowed)

Revoke(a) ==
  /\ StaffMay(shop, "MEMBERSHIP_MANAGE")
  /\ membership[a].status = "ACTIVE"
  /\ SetMembership(a, MembershipRevoked(membership[a]), TRUE)

ChangeLifecycle ==
  /\ shop' = IF shop = "ACTIVE" THEN "TRASHED" ELSE "ACTIVE"
  /\ UNCHANGED <<queueVars, staff, membership, current, export, grants, request, work, cipher, objects>>

ChangeStaff(a) ==
  /\ staff' = IF a \in staff THEN staff \ {a} ELSE staff \cup {a}
  /\ UNCHANGED <<queueVars, shop, membership, current, export, grants, request, work, cipher, objects>>

Publish ==
  /\ current < MaxSnapshots
  /\ current' = current + 1
  /\ UNCHANGED <<queueVars, shop, staff, membership, export, grants, request, work, cipher, objects>>

(* expires_at passes: of an export after seven days, of a grant after five *)
(* minutes.                                                                *)
Lapse ==
  /\ \/ \E i \in DOMAIN export : ~export[i].due /\ export' = [export EXCEPT ![i].due = TRUE] /\ UNCHANGED grants
     \/ \E g \in DOMAIN grants : /\ grants[g].state = "ACTIVE"
                                 /\ grants' = [grants EXCEPT ![g].state = "EXPIRED"]
                                 /\ UNCHANGED export
  /\ UNCHANGED <<queueVars, shop, staff, membership, current, request, work, cipher, objects>>

-----------------------------------------------------------------------------
(* The worker: generate, then fail when the error is a final one.          *)

At(s, pc) == slot[s].pc = pc

CleanupWorkFiles(i) == work' = work \ {i} /\ UNCHANGED cipher

(* The check that a row refers to the object comes before its removal.     *)
\* Mutated form: whatever was not recorded as committed is removed.
RemovableAlways(i) == TRUE
Removable(i) == i \notin objects

CleanupUncommitted(i) ==
  /\ work' = work \ {i}
  /\ cipher' = IF Removable(i) THEN cipher \ {i} ELSE cipher

Claimed(row) == [row EXCEPT !.status = "RUNNING", !.progress = 1]

(* persistProgress.                                                        *)
Progressed(row, percent) ==
  IF row.status = "RUNNING" /\ row.progress < percent THEN [row EXCEPT !.progress = percent] ELSE row

Claim(s) ==
  LET i == slot[s].work
  IN  /\ At(s, "work")
      /\ IF export[i].status \in LiveStatus
         THEN export' = [export EXCEPT ![i] = Claimed(@)] /\ Continue(s, "prepare", "none")
         ELSE /\ UNCHANGED export
              /\ IF export[i].status = "SUCCEEDED" THEN Report(s, "completed") ELSE Continue(s, "drop", "none")
      /\ UNCHANGED <<outbox, sent, jobs, rec, apiVars, work, cipher, objects>>

Prepare(s) ==
  /\ \/ At(s, "prepare") /\ Continue(s, "build", "none")
     \/ At(s, "drop") /\ Report(s, "completed")
  /\ CleanupUncommitted(slot[s].work)
  /\ UNCHANGED <<outbox, sent, jobs, rec, apiVars, export, objects>>

(* buildInput and exportReport: the checks of the report are permanent.    *)
Build(s) ==
  LET i == slot[s].work
  IN  /\ At(s, "build")
      /\ work' = work \cup {i}
      /\ export' = [export EXCEPT ![i] = Progressed(@, 2)]
      /\ IF export[i].snapshot \in BadSnapshots
         THEN Continue(s, "tidy", "permanent") ELSE Continue(s, "store", "none")
      /\ UNCHANGED <<outbox, sent, jobs, rec, apiVars, cipher, objects>>

Store(s) ==
  LET i == slot[s].work
  IN  /\ At(s, "store")
      /\ cipher' = cipher \cup {i}
      /\ export' = [export EXCEPT ![i] = Progressed(@, 3)]
      /\ Continue(s, "commit", "none")
      /\ UNCHANGED <<outbox, sent, jobs, rec, apiVars, work, objects>>

Commits(row) == row.status = "RUNNING"

Committed(i) ==
  IF Commits(export[i])
  THEN /\ export' = [export EXCEPT ![i] = [@ EXCEPT !.status = "SUCCEEDED", !.progress = 4]]
       /\ objects' = objects \cup {i}
  ELSE UNCHANGED <<export, objects>>

Commit(s) ==
  LET i == slot[s].work
  IN  /\ At(s, "commit")
      /\ Committed(i)
      /\ IF Commits(export[i]) THEN Continue(s, "clear", "completed") ELSE Continue(s, "tidy", "completed")
      /\ UNCHANGED <<outbox, sent, jobs, rec, apiVars, work, cipher>>

(* The transaction is committed and its answer is lost.                    *)
CommitUnanswered(s) ==
  /\ At(s, "commit")
  /\ Fault("ambiguous")
  /\ Committed(slot[s].work)
  /\ Continue(s, "tidy", "transient")
  /\ UNCHANGED <<outbox, sent, jobs, rec, apiVars, work, cipher>>

(* runExportJob, when generate has returned or thrown.                     *)
Conclude(s, verdict) ==
  CASE verdict = "completed" -> Report(s, "completed")
    [] verdict = "permanent" -> ProjectThen(s, "project", "deadletter", "permanent")
    [] verdict = "transient" -> TransientFailure(s)

(* The finally block.                                                      *)
Tidy(s) ==
  /\ \/ At(s, "tidy") /\ CleanupUncommitted(slot[s].work)
     \/ At(s, "clear") /\ CleanupWorkFiles(slot[s].work)
  /\ Conclude(s, slot[s].run)
  /\ UNCHANGED <<outbox, sent, jobs, rec, apiVars, export, objects>>

(* fail: the row, and then the files.                                      *)
Fail(i) ==
  export' = IF export[i].status \in LiveStatus THEN [export EXCEPT ![i].status = "FAILED"] ELSE export

Project(s) ==
  /\ At(s, "project")
  /\ Fail(slot[s].work)
  /\ slot' = [slot EXCEPT ![s].pc = "sweep"]
  /\ UNCHANGED <<outbox, sent, jobs, rec, apiVars, work, cipher, objects>>

Sweep(s) ==
  /\ At(s, "sweep")
  /\ CleanupUncommitted(slot[s].work)
  /\ Report(s, slot[s].result)
  /\ UNCHANGED <<outbox, sent, jobs, rec, apiVars, export, objects>>

GenerateStep(s) ==
  Claim(s) \/ Prepare(s) \/ Build(s) \/ Store(s) \/ Commit(s) \/ Tidy(s) \/ Project(s) \/ Sweep(s)

(* The database refuses: an error in the work; a cleanup that leaves what  *)
(* it could not ask about.                                                 *)
StepRefused(s) ==
  /\ \/ /\ slot[s].pc \in {"work", "prepare"} /\ TransientFailure(s) /\ UNCHANGED work
     \/ /\ slot[s].pc \in {"build", "store", "commit"} /\ Continue(s, "tidy", "transient") /\ UNCHANGED work
     \/ /\ At(s, "tidy") /\ Conclude(s, slot[s].run) /\ work' = work \ {slot[s].work}
     \/ /\ At(s, "project") /\ Report(s, "failed") /\ UNCHANGED work
     \/ /\ At(s, "sweep") /\ Report(s, slot[s].result) /\ work' = work \ {slot[s].work}
  /\ Fault("refused")
  /\ UNCHANGED <<outbox, sent, jobs, rec, apiVars, export, cipher, objects>>

(* The terminal reconciler: the same fail, for exports that still count as *)
(* live.                                                                   *)
\* Mutated form: only exports that were started are failed.
ReconcilesStarted(row) == row.status = "RUNNING"
Reconciles(row) == row.status \in LiveStatus

ReconcileExport ==
  /\ rec.pc = "project"
  /\ IF Reconciles(export[rec.work])
     THEN Fail(rec.work) /\ rec' = [rec EXCEPT !.pc = "sweep"]
     ELSE rec' = [rec EXCEPT !.pc = "record"] /\ UNCHANGED export
  /\ UNCHANGED <<outbox, sent, jobs, slot, apiVars, work, cipher, objects>>

ReconcileSweep ==
  /\ rec.pc = "sweep"
  /\ CleanupUncommitted(rec.work)
  /\ rec' = [rec EXCEPT !.pc = "record"]
  /\ UNCHANGED <<outbox, sent, jobs, slot, apiVars, export, objects>>

ReconcilerStep ==
  \/ /\ \E w \in DOMAIN jobs : \E n \in DOMAIN jobs[w] : BeginReconciliation(w, n)
     /\ UNCHANGED exportVars
  \/ ReconcileExport \/ ReconcileSweep
  \/ EndReconciliation /\ UNCHANGED exportVars

-----------------------------------------------------------------------------

Api ==
  \E q \in Requests :
    \/ \E a \in Accounts : Authenticate(q, a)
    \/ \E n \in 1..current, k \in Keys, p \in Params : CreateExport(q, n, k, p)
    \/ \E p \in Params : ResolveCurrent(q, p)
    \/ ReuseCurrent(q)
    \/ \E k \in Keys : CreateCurrent(q, k)
    \/ \E i \in DOMAIN export : Cancel(q, i) \/ CreateDownloadToken(q, i)
    \/ \E g \in DOMAIN grants : Download(q, g)

Others ==
  \/ \E a \in Customers : \/ \E allowed \in BOOLEAN : ActivateShopMembership(a, allowed) \/ SetExportAllowed(a, allowed)
                          \/ Revoke(a)
  \/ \E a \in Accounts \ Admins : ChangeStaff(a)
  \/ ChangeLifecycle \/ Publish \/ Lapse

QueueOnly(A) == A /\ UNCHANGED <<faultVars, exportVars>>
NoFault(A)   == A /\ UNCHANGED faultVars

Next ==
  \/ NoFault(Api) \/ NoFault(Others)
  \/ QueueOnly(QueueStep)
  \/ NoFault(\E s \in Slots : GenerateStep(s))
  \/ NoFault(ReconcilerStep)
  \/ QueueFault /\ UNCHANGED exportVars
  \/ \E s \in Slots : CommitUnanswered(s) \/ StepRefused(s)
  \/ ReconciliationLost /\ UNCHANGED exportVars

Spec == Init /\ [][Next]_vars

FairSpec ==
  /\ Spec
  /\ WF_vars(QueueOnly(DispatcherStep))
  /\ \A s \in Slots : /\ WF_vars(QueueOnly(Take(s)))
                      /\ SF_vars(QueueOnly(Begin(s)))
                      /\ WF_vars(QueueOnly(Ack(s)))
                      /\ WF_vars(NoFault(GenerateStep(s)))
  /\ WF_vars(QueueOnly(Expiry))
  /\ WF_vars(NoFault(ReconcilerStep))

-----------------------------------------------------------------------------
(* Properties.                                                             *)

(* Every row holds what the code puts there, and an export has succeeded   *)
(* or was revoked after it had when its object is recorded.                *)
TypeOK ==
  /\ shop \in ShopStates /\ staff \subseteq Accounts /\ current \in 0..MaxSnapshots
  /\ membership \in [Accounts -> MembershipRows]
  /\ \A i \in DOMAIN export : /\ export[i].status \in ExportStatus /\ export[i].progress \in 0..4
                              /\ export[i].status = "SUCCEEDED" => i \in objects
  /\ \A i \in objects : export[i].status \in {"SUCCEEDED", "REVOKED"}
  /\ \A g \in DOMAIN grants : grants[g].export \in DOMAIN export

(* A customer's export that is wanted or done, and a token for one, rest   *)
(* on the membership as it is now: active, with exports allowed, at the    *)
(* epoch they were made under.  Two transactions that take the shop's row  *)
(* in the same order, the epoch and the invalidation keep this through     *)
(* every revocation, renewal and worker commit.                            *)
Entitled(a, version) ==
  LET m == membership[a] IN m.status = "ACTIVE" /\ m.export /\ m.epoch = version
LiveExportsEntitled ==
  /\ \A i \in DOMAIN export :
       export[i].version # Unbound /\ export[i].status \in LiveStatus \cup {"SUCCEEDED"}
         => Entitled(export[i].by, export[i].version)
  /\ \A g \in DOMAIN grants :
       grants[g].version # Unbound /\ grants[g].state = "ACTIVE"
         => Entitled(grants[g].account, grants[g].version)

(* An object that a row refers to can be read, whatever attempt, finally   *)
(* block, projection or retry after a lost COMMIT removed as unreferenced. *)
SucceededReadable == objects \subseteq cipher

(* Without a crash and without a refused statement, files that no row      *)
(* refers to belong to work that is not over.                              *)
NoOrphanExport ==
  FaultKinds \cap {"crash", "refused"} = {} =>
    \A i \in (cipher \ objects) \cup work : Unfinished(i)

(* The object store holds what export_request refers to, and nothing else  *)
(* for good. The first part is the type invariant.                         *)
FilesSound == TypeOK /\ SucceededReadable /\ NoOrphanExport

(* Every export is decided in the end.                                     *)
ExportSettles == \A i \in ExportIds :
  (i \in DOMAIN export /\ export[i].status \in LiveStatus)
     ~> (i \in DOMAIN export /\ export[i].status \notin LiveStatus)

=============================================================================
