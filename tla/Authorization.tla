--------------------------- MODULE Authorization ----------------------------
(***************************************************************************)
(* Who may do what (authorization/index.ts, authorization/shop-access.ts)  *)
(* and what a change does to the row of a customer's membership            *)
(* (memberships/activation.ts, memberships/service.ts).                    *)
(*                                                                         *)
(* An actor is what authenticate() loads at the start of a request: the    *)
(* account, whether it is active, its role, its enterprises.  It is not    *)
(* loaded again while the request lasts.                                   *)
(***************************************************************************)
EXTENDS Naturals

ShopStates == {"ACTIVE", "EXPIRED_READONLY", "TRASHED", "PURGED"}

ShopCapabilities ==
  {"SHOP_READ", "PUBLISHED_RESULT_READ", "DRAFT_RESULT_READ", "SHOP_RENAME", "SHOP_RENEW",
   "SHOP_TRASH", "SHOP_RESTORE", "SHOP_PURGE", "MEMBERSHIP_MANAGE", "UPLOAD", "IMPORT_COMMIT",
   "QUALITY_ACKNOWLEDGE", "DATASET_ROLLBACK", "RESULT_PUBLISH", "RESULT_EXPORT", "ORIGINAL_DOWNLOAD"}

ExpiredBlocked ==
  {"DRAFT_RESULT_READ", "UPLOAD", "IMPORT_COMMIT", "QUALITY_ACKNOWLEDGE", "DATASET_ROLLBACK",
   "RESULT_PUBLISH"}

TrashedAllowed == {"SHOP_READ", "SHOP_RESTORE", "SHOP_PURGE"}

AuthorizePlatform(actor, capability) ==
  /\ actor.active
  /\ CASE capability = "FX_READ"           -> actor.role \in {"ACCOUNTANT", "ADMIN"}
       [] capability = "ACCOUNT_SETTINGS"  -> TRUE
       [] capability = "ENTERPRISE_CREATE" -> actor.role = "ACCOUNTANT"
       [] capability = "SHOP_CREATE"       -> actor.role \in {"ACCOUNTANT", "ADMIN"}
       [] OTHER                            -> actor.role = "ADMIN"

(* Administrators and the members of the enterprise.                       *)
StaffMay(state, capability) ==
  /\ state = "TRASHED" => capability \in TrashedAllowed
  /\ state = "EXPIRED_READONLY" => capability \notin ExpiredBlocked

CustomerMay(state, membership, capability) ==
  /\ membership.status = "ACTIVE" /\ state # "TRASHED"
  /\ \/ capability \in {"SHOP_READ", "PUBLISHED_RESULT_READ"}
     \/ capability = "RESULT_EXPORT" /\ membership.export

IsStaff(actor, enterprise) == actor.role = "ADMIN" \/ enterprise \in actor.enterprises

(* `membership` is the row of the actor in this shop.                      *)
AuthorizeShop(actor, enterprise, state, membership, capability) ==
  /\ actor.active /\ state # "PURGED"
  /\ IF IsStaff(actor, enterprise)
     THEN StaffMay(state, capability)
     ELSE CustomerMay(state, membership, capability)

(* A shop past its close date counts as expired before the row says so.    *)
EffectiveState(status, due) == IF status = "ACTIVE" /\ due THEN "EXPIRED_READONLY" ELSE status

-----------------------------------------------------------------------------
(* The row of a customer's membership.  Epoch 0 stands for no row.         *)

NoMembership == [status |-> "ABSENT", export |-> FALSE, epoch |-> 0]
MembershipRows == [status : {"ABSENT", "ACTIVE", "REVOKED"}, export : BOOLEAN, epoch : Nat]

(* INSERT ... ON CONFLICT (shop_id, account_id) DO UPDATE.                 *)
Activated(m, export) == [status |-> "ACTIVE", export |-> export, epoch |-> m.epoch + 1]

ExportChanged(m, allowed) == [m EXCEPT !.export = allowed, !.epoch = @ + 1]

MembershipRevoked(m) == [status |-> "REVOKED", export |-> FALSE, epoch |-> m.epoch + 1]

=============================================================================
