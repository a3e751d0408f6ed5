------------------------------- MODULE Shops --------------------------------
(***************************************************************************)
(* The shops of one enterprise (shops/service.ts, shops/dates.ts): who     *)
(* creates and renews them and what is charged for it, their one change of *)
(* name, the recycle bin, and the expiry by date.                          *)
(*                                                                         *)
(* A create transaction has two steps, because it takes the wallet FOR     *)
(* SHARE first and FOR UPDATE later: `creating` holds the transactions     *)
(* between the two.  A request that needs the shop (an upload, an export)  *)
(* is authorized before the transaction that starts its work: `granted`    *)
(* holds the requests between the two.                                     *)
(***************************************************************************)
EXTENDS Integers, Sequences, FiniteSets, FiniteSetsExt, Authorization

CONSTANTS
  Admins,                \* administrators
  Keys,                  \* idempotency keys
  Names,                 \* normalized names
  Reasons,               \* reasons an administrator gives for a free renewal
  Starts,                \* start dates that requests name
  Price,                 \* yearly price
  Scenarios              \* members, dates and bounds the shops are considered with

Dates == (Nat \ {0}) \X (1..12) \X (1..31)      \* <<year, month, day>>

ASSUME ShopsAssumption ==
  /\ Starts \subseteq Dates /\ Price \in Nat
  /\ \A s \in Scenarios :
       /\ s.closes \subseteq Dates /\ s.calendar \in Seq(Dates) /\ s.calendar # << >>
       /\ s.funds \in Nat /\ s.maxCreates \in Nat

VARIABLE scenario        \* the one at hand

Accountants == scenario.accountants   \* members of the enterprise
Closes      == scenario.closes        \* close dates that requests name
Calendar    == scenario.calendar      \* the days the clock passes through, in order
Funds       == scenario.funds         \* initial balance of the wallet
MaxCreates  == scenario.maxCreates    \* bounds on create requests,
MaxCharges  == scenario.maxCharges    \* on charges,
MaxBulks    == scenario.maxBulks      \* on bulk requests
MaxGranted  == scenario.maxGranted    \* and on requests under way

VARIABLES
  day,       \* index of today in Calendar
  shops,     \* rows of shop, numbered
  charges,   \* rows of shop_charge with their shop_term; ledger 0 is NULL
  requests,  \* create and renew requests that were answered with success
  balance,   \* of the wallet of the enterprise
  ledger,    \* its wallet_ledger rows, numbered
  attempts,  \* number of create requests so far
  creating,  \* create transactions that hold the wallet FOR SHARE
  bulks,     \* idempotency records of bulk-trash requests
  granted,   \* [actor, shop, kind] authorized and not yet started
  work       \* shops with a batch, a calculation or an export running

shopVars == <<day, shops, charges, requests, balance, ledger, attempts, creating, bulks, granted, work>>
vars == <<scenario, shopVars>>

-----------------------------------------------------------------------------
IsLeap(y) == y % 4 = 0 /\ (y % 100 # 0 \/ y % 400 = 0)

daysInMonth(y, m) ==
  CASE m \in {4, 6, 9, 11} -> 30
    [] m = 2               -> IF IsLeap(y) THEN 29 ELSE 28
    [] OTHER               -> 31

Before(a, b) ==
  \/ a[1] < b[1]
  \/ a[1] = b[1] /\ a[2] < b[2]
  \/ a[1] = b[1] /\ a[2] = b[2] /\ a[3] < b[3]

AtMost(a, b) == Before(a, b) \/ a = b

(* February 29 falls on the last day of February of a common year.         *)
anniversary(start, years) ==
  LET y == start[1] + years
      last == daysInMonth(y, start[2])
  IN <<y, start[2], IF start[3] < last THEN start[3] ELSE last>>

(* Defined for terms of at most 100 years that end after they start.       *)
TermOK(start, close) == Before(start, close) /\ AtMost(close, anniversary(start, 100))

billedYears(start, close) == Min({n \in 1..100 : AtMost(close, anniversary(start, n))})

(* Days since a fixed day, for the 30 days of the recycle bin.             *)
DaysBefore(y, m) ==
  <<0, 31, 59, 90, 120, 151, 181, 212, 243, 273, 304, 334>>[m] + IF IsLeap(y) /\ m > 2 THEN 1 ELSE 0

DayNumber(d) ==
  LET p == d[1] - 1
  IN 365 * p + (p \div 4) - (p \div 100) + (p \div 400) + DaysBefore(d[1], d[2]) + d[3]

Today == Calendar[day]

-----------------------------------------------------------------------------

Actors == Accountants \cup Admins
IsAdmin(a) == a \in Admins
ActorOf(a) ==
  [active |-> TRUE, role |-> IF IsAdmin(a) THEN "ADMIN" ELSE "ACCOUNTANT",
   enterprises |-> {"enterprise"}]

StoredState(s) == shops[s].status
StateNow(s) == EffectiveState(shops[s].status, AtMost(shops[s].close, Today))

(* The shop operations look at the stored status, requests for uploads and *)
(* exports at the effective one.                                           *)
MayOperate(a, s, capability) ==
  AuthorizeShop(ActorOf(a), "enterprise", StoredState(s), NoMembership, capability)
MayAccess(a, s, capability) ==
  AuthorizeShop(ActorOf(a), "enterprise", StateNow(s), NoMembership, capability)

NameTaken(name) == \E s \in DOMAIN shops : shops[s].status # "PURGED" /\ shops[s].name = name

StatusByDate(close) == IF AtMost(close, Today) THEN "EXPIRED_READONLY" ELSE "ACTIVE"

Waiver(a, reason) == [free |-> IsAdmin(a), reason |-> IF IsAdmin(a) THEN reason ELSE "none"]

(* An administrator, and everyone when the price is zero, goes without the *)
(* wallet.                                                                 *)
Pays(a) == ~IsAdmin(a) /\ Price > 0
Cost(a, years) == IF Pays(a) THEN Price * years ELSE 0

(* The entry that appendWalletEntry answers with: the one posted under the *)
(* business key, which has no actor in it, or else a new one.              *)
Posted(kind, key) == {i \in DOMAIN ledger : ledger[i].kind = kind /\ ledger[i].key = key}
EntryFor(kind, key) ==
  IF Posted(kind, key) = {} THEN Len(ledger) + 1 ELSE CHOOSE i \in Posted(kind, key) : TRUE

LedgerIdOf(a, kind, key) == IF Pays(a) THEN EntryFor(kind, key) ELSE 0

AppendWalletEntry(a, kind, key, years) ==
  IF Pays(a) /\ Posted(kind, key) = {}
  THEN /\ balance' = balance - Cost(a, years)
       /\ ledger' = Append(ledger, [kind |-> kind, key |-> key, cents |-> Cost(a, years), after |-> balance'])
  ELSE UNCHANGED <<balance, ledger>>

(* shop_charge.wallet_ledger_id is UNIQUE: a member who reuses the key of  *)
(* a colleague's charge is handed that charge's entry, and the insert of a *)
(* second charge with it rolls the transaction back.                       *)
\* Mutated form: without the UNIQUE constraint.
LedgerEntryShared(a, kind, key) == TRUE
LedgerEntryFree(a, kind, key) == Pays(a) => \A c \in charges : c.ledger # EntryFor(kind, key)

ChargeOf(a, key) == {c \in charges : c.actor = a /\ c.key = key}

(* The oldest name of the history, which has one entry at most.            *)
OriginalName(s) == IF shops[s].history = << >> THEN shops[s].name ELSE shops[s].history[1]

-----------------------------------------------------------------------------
(* What a repeated request is compared with.  A repetition that matches is *)
(* answered with the shop; one that does not is refused.                   *)

(* Mutated form: the current name is compared.                             *)
SameCreateCurrentName(c, r) ==
  /\ c.kind = "create"
  /\ shops[c.shop].name = r.name /\ c.start = r.start /\ c.close = r.close
  /\ IF IsAdmin(r.actor) THEN c.waiver.free ELSE c.waiver = Waiver(r.actor, "none")

SameCreate(c, r) ==
  /\ c.kind = "create"
  /\ OriginalName(c.shop) = r.name /\ c.start = r.start /\ c.close = r.close
  /\ IF IsAdmin(r.actor) THEN c.waiver.free ELSE c.waiver = Waiver(r.actor, "none")

SameRenew(c, r) ==
  /\ c.kind = "renew"
  /\ c.shop = r.shop /\ c.close = r.close
  /\ c.waiver = Waiver(r.actor, r.reason)

-----------------------------------------------------------------------------

Init ==
  /\ scenario \in Scenarios
  /\ day = 1 /\ shops = << >> /\ charges = {} /\ requests = {}
  /\ balance = Funds /\ ledger = << >> /\ attempts = 0
  /\ creating = {} /\ bulks = {} /\ granted = {} /\ work = {}

Tick ==
  /\ day < Len(Calendar)
  /\ day' = day + 1
  /\ UNCHANGED <<attempts, shops, charges, requests, balance, ledger, creating, bulks, granted, work>>

(* The key is locked, has no charge yet, and the wallet is taken FOR SHARE.*)
BeginCreate(a, key, name, start, close) ==
  /\ AuthorizePlatform(ActorOf(a), "SHOP_CREATE")
  /\ TermOK(start, close)
  /\ attempts < MaxCreates /\ Cardinality(charges) < MaxCharges
  /\ attempts' = attempts + 1
  /\ ChargeOf(a, key) = {}
  /\ \A t \in creating : <<t.actor, t.key>> # <<a, key>>
  /\ creating' = creating \cup
       {[actor |-> a, key |-> key, name |-> name, start |-> start, close |-> close]}
  /\ UNCHANGED <<day, shops, charges, requests, balance, ledger, bulks, granted, work>>

(* A transaction that pays needs the wallet FOR UPDATE, which every other  *)
(* transaction that holds it FOR SHARE keeps from it.                      *)
WalletGranted(t) == ~Pays(t.actor) \/ creating = {t}

NewShop(t) ==
  [name |-> t.name, history |-> << >>, start |-> t.start, close |-> t.close,
   status |-> StatusByDate(t.close), purgeAfter |-> 0]

Affordable(a, years) == Pays(a) => balance >= Cost(a, years)

FinishCreate(t) ==
  LET years == billedYears(t.start, t.close)
      s == Len(shops) + 1
  IN
  /\ t \in creating /\ WalletGranted(t)
  /\ Affordable(t.actor, years) /\ ~NameTaken(t.name) /\ LedgerEntryFree(t.actor, "create", t.key)
  /\ shops' = Append(shops, NewShop(t))
  /\ AppendWalletEntry(t.actor, "create", t.key, years)
  /\ charges' = charges \cup
       {[actor |-> t.actor, key |-> t.key, kind |-> "create", shop |-> s, start |-> t.start,
         close |-> t.close, years |-> years, waiver |-> Waiver(t.actor, "none"),
         ledger |-> LedgerIdOf(t.actor, "create", t.key)]}
  /\ requests' = requests \cup
       {[actor |-> t.actor, key |-> t.key, kind |-> "create", shop |-> s, name |-> t.name,
         start |-> t.start, close |-> t.close, reason |-> "none"]}
  /\ creating' = creating \ {t}
  /\ UNCHANGED <<day, attempts, bulks, granted, work>>

(* Mutated form: a name conflict leaves the transaction open.              *)
RefuseCreateFundsOnly(t) ==
  /\ t \in creating /\ WalletGranted(t)
  /\ ~Affordable(t.actor, billedYears(t.start, t.close))
  /\ creating' = creating \ {t}
  /\ UNCHANGED <<day, attempts, shops, charges, requests, balance, ledger, bulks, granted, work>>

(* Too little money, the name is in use, or a colleague paid under the key:*)
(* the transaction is rolled back.                                         *)
RefuseCreate(t) ==
  /\ t \in creating /\ WalletGranted(t)
  /\ \/ ~Affordable(t.actor, billedYears(t.start, t.close))
     \/ NameTaken(t.name)
     \/ ~LedgerEntryFree(t.actor, "create", t.key)
  /\ creating' = creating \ {t}
  /\ UNCHANGED <<day, attempts, shops, charges, requests, balance, ledger, bulks, granted, work>>

(* Two transactions that both hold the wallet FOR SHARE and both want it   *)
(* FOR UPDATE wait for each other; the database ends one of them.          *)
Waiting == {t \in creating : Pays(t.actor)}

AbortDeadlocked ==
  /\ Cardinality(Waiting) > 1
  /\ \E t \in Waiting : creating' = creating \ {t}
  /\ UNCHANGED <<day, attempts, shops, charges, requests, balance, ledger, bulks, granted, work>>

(* Mutated form: the added years are counted from the current close date.  *)
AddedYearsFromClose(s, close) == billedYears(shops[s].close, close)

AddedYears(s, close) ==
  billedYears(shops[s].start, close) - billedYears(shops[s].start, shops[s].close)

Extends(s, close) ==
  Before(shops[s].close, close) /\ TermOK(shops[s].start, close) /\ AddedYears(s, close) >= 1

Renew(a, key, s, close, reason) ==
  LET years == AddedYears(s, close) IN
  /\ ChargeOf(a, key) = {} /\ Cardinality(charges) < MaxCharges
  /\ \A t \in creating : <<t.actor, t.key>> # <<a, key>>
  /\ MayOperate(a, s, "SHOP_RENEW")
  /\ Extends(s, close)
  /\ Pays(a) => creating = {}
  /\ Affordable(a, years) /\ LedgerEntryFree(a, "renew", key)
  /\ AppendWalletEntry(a, "renew", key, years)
  /\ charges' = charges \cup
       {[actor |-> a, key |-> key, kind |-> "renew", shop |-> s, start |-> shops[s].start,
         close |-> close, years |-> years, waiver |-> Waiver(a, reason),
         ledger |-> LedgerIdOf(a, "renew", key)]}
  /\ requests' = requests \cup
       {[actor |-> a, key |-> key, kind |-> "renew", shop |-> s, name |-> "none",
         start |-> shops[s].start, close |-> close, reason |-> reason]}
  /\ shops' = [shops EXCEPT ![s].close = close, ![s].status = "ACTIVE"]
  /\ UNCHANGED <<day, attempts, creating, bulks, granted, work>>

(* The unique index refuses a name in use; the shop's own name is not.     *)
Rename(a, s, name) ==
  /\ MayOperate(a, s, "SHOP_RENAME")
  /\ shops[s].history = << >>
  /\ name = shops[s].name \/ ~NameTaken(name)
  /\ shops' = [shops EXCEPT ![s].name = name, ![s].history = <<shops[s].name>>]
  /\ UNCHANGED <<day, attempts, charges, requests, balance, ledger, creating, bulks, granted, work>>

Trashed(row) == [row EXCEPT !.status = "TRASHED", !.purgeAfter = DayNumber(Today) + 30]

Trash(a, s) ==
  /\ MayOperate(a, s, "SHOP_TRASH")
  /\ shops[s].status \in {"ACTIVE", "EXPIRED_READONLY"}
  /\ shops' = [shops EXCEPT ![s] = Trashed(@)]
  /\ UNCHANGED <<day, attempts, charges, requests, balance, ledger, creating, bulks, granted, work>>

Restore(a, s) ==
  /\ MayOperate(a, s, "SHOP_RESTORE")
  /\ shops[s].status = "TRASHED" /\ shops[s].purgeAfter > DayNumber(Today)
  /\ shops' = [shops EXCEPT ![s].status = StatusByDate(shops[s].close), ![s].purgeAfter = 0]
  /\ UNCHANGED <<day, attempts, charges, requests, balance, ledger, creating, bulks, granted, work>>

Purge(a, s) ==
  /\ MayOperate(a, s, "SHOP_PURGE")
  /\ shops[s].status = "TRASHED" /\ shops[s].purgeAfter <= DayNumber(Today)
  /\ shops' = [shops EXCEPT ![s].status = "PURGED"]
  /\ UNCHANGED <<day, attempts, charges, requests, balance, ledger, creating, bulks, granted, work>>

(* All selected shops or none; a key that was used answers without acting. *)
BulkTrash(a, key, selected) ==
  /\ Cardinality(bulks) < MaxBulks /\ \A b \in bulks : <<b.actor, b.key>> # <<a, key>>
  /\ \A s \in selected : /\ MayOperate(a, s, "SHOP_TRASH")
                         /\ shops[s].status \in {"ACTIVE", "EXPIRED_READONLY"}
                         /\ s \notin work
  /\ shops' = [s \in DOMAIN shops |-> IF s \in selected THEN Trashed(shops[s]) ELSE shops[s]]
  /\ bulks' = bulks \cup {[actor |-> a, key |-> key, selected |-> selected]}
  /\ UNCHANGED <<day, attempts, charges, requests, balance, ledger, creating, granted, work>>

(* Run by every listing of shops.                                          *)
RefreshExpired ==
  LET due == {s \in DOMAIN shops : shops[s].status = "ACTIVE" /\ AtMost(shops[s].close, Today)} IN
  /\ due # {}
  /\ shops' = [s \in DOMAIN shops |->
                 IF s \in due THEN [shops[s] EXCEPT !.status = "EXPIRED_READONLY"] ELSE shops[s]]
  /\ UNCHANGED <<day, attempts, charges, requests, balance, ledger, creating, bulks, granted, work>>

Authorize(a, s, capability) ==
  /\ Cardinality(granted) < MaxGranted /\ MayAccess(a, s, capability)
  /\ granted' = granted \cup {[actor |-> a, shop |-> s, capability |-> capability]}
  /\ UNCHANGED <<day, attempts, shops, charges, requests, balance, ledger, creating, bulks, work>>

(* An upload starts without another look at the shop; an export looks      *)
(* again, at the stored status.                                            *)
StartWork(g) ==
  /\ g \in granted
  /\ g.capability = "RESULT_EXPORT" => MayOperate(g.actor, g.shop, "RESULT_EXPORT")
  /\ work' = work \cup {g.shop}
  /\ granted' = granted \ {g}
  /\ UNCHANGED <<day, attempts, shops, charges, requests, balance, ledger, creating, bulks>>

EndWork(s) ==
  /\ s \in work
  /\ work' = work \ {s}
  /\ UNCHANGED <<day, attempts, shops, charges, requests, balance, ledger, creating, bulks, granted>>

Step ==
  \/ Tick
  \/ \E a \in Actors, k \in Keys :
       \/ \E n \in Names, start \in Starts, close \in Closes : BeginCreate(a, k, n, start, close)
       \/ \E s \in DOMAIN shops, close \in Closes, r \in Reasons : Renew(a, k, s, close, r)
       \/ \E selected \in (SUBSET DOMAIN shops) \ {{}} : BulkTrash(a, k, selected)
  \/ \E t \in creating : FinishCreate(t) \/ RefuseCreate(t)
  \/ AbortDeadlocked
  \/ \E a \in Actors, s \in DOMAIN shops :
       \/ \E n \in Names : Rename(a, s, n)
       \/ Trash(a, s) \/ Restore(a, s) \/ Purge(a, s)
       \/ \E c \in {"UPLOAD", "RESULT_EXPORT"} : Authorize(a, s, c)
  \/ RefreshExpired
  \/ \E g \in granted : StartWork(g)
  \/ \E s \in work : EndWork(s)

Next == Step /\ UNCHANGED scenario

Spec == Init /\ [][Next]_vars

Requests == [actor : Actors, key : Keys, name : Names, start : Starts, close : Closes]

(* Transactions that can take their next step take it, and the database    *)
(* ends a deadlock.                                                        *)
FairSpec ==
  /\ Spec
  /\ WF_vars((\E t \in creating : FinishCreate(t) \/ RefuseCreate(t)) /\ UNCHANGED scenario)
  /\ WF_vars(AbortDeadlocked /\ UNCHANGED scenario)

-----------------------------------------------------------------------------

Waivers == [free : BOOLEAN, reason : Reasons \cup {"none"}]

TypeOK ==
  /\ scenario \in Scenarios
  /\ day \in 1..Len(Calendar)
  /\ shops \in Seq([name : Names, history : Seq(Names), start : Starts, close : Closes,
                    status : ShopStates, purgeAfter : Nat])
  /\ charges \subseteq
       [actor : Actors, key : Keys, kind : {"create", "renew"}, shop : DOMAIN shops, start : Starts,
        close : Closes, years : 1..100, waiver : Waivers, ledger : 0..Len(ledger)]
  /\ ledger \in Seq([kind : {"create", "renew"}, key : Keys, cents : Nat, after : Int])
  /\ balance \in Int /\ attempts \in 0..MaxCreates
  /\ creating \subseteq Requests
  /\ bulks \subseteq [actor : Actors, key : Keys, selected : SUBSET DOMAIN shops]
  /\ granted \subseteq [actor : Actors, shop : DOMAIN shops, capability : ShopCapabilities]
  /\ work \subseteq DOMAIN shops

(* Every year from a shop's start to its close date, counted as one term,  *)
(* is charged by one creation or renewal, and no year by two               *)
(* (service.ts:789: only the added years are billed; dates.ts:36:          *)
(* anniversaries of February 29).                                          *)
YearsOf(c) == LET last == billedYears(c.start, c.close) IN (last - c.years + 1)..last
TermsPaid ==
  \A s \in DOMAIN shops :
    LET paid == {c \in charges : c.shop = s}
    IN  /\ UNION {YearsOf(c) : c \in paid} = 1..billedYears(shops[s].start, shops[s].close)
        /\ \A c, d \in paid : c # d => YearsOf(c) \cap YearsOf(d) = {}

(* A request that succeeded and is sent again with its key is accepted as  *)
(* a repetition, whatever happened to the shop since: a new name, another  *)
(* term, the recycle bin (service.ts:587, 768).                            *)
ReplaysAccepted ==
  \A r \in requests : \E c \in ChargeOf(r.actor, r.key) :
    IF r.kind = "create" THEN SameCreate(c, r) ELSE SameRenew(c, r)

(* Every charge of a member has a ledger entry of its own, for the yearly  *)
(* price of its years, and the entries are nothing but these charges, also *)
(* when colleagues send the same key (wallet/service.ts:58,                *)
(* shops/service.ts:677, 811, migration 0003: wallet_ledger_id UNIQUE).    *)
ChargesEntered ==
  /\ \A c \in charges :
       IF c.waiver.free \/ Price = 0
       THEN c.ledger = 0
       ELSE c.ledger \in DOMAIN ledger /\ ledger[c.ledger].cents = Price * c.years
  /\ \A c, d \in charges : c.ledger = d.ledger /\ c.ledger # 0 => c = d
  /\ \A i \in DOMAIN ledger : \E c \in charges : c.ledger = i

(* The wallet holds its funds less what was entered, and members who       *)
(* create and renew shops at the same time never spend more than it holds  *)
(* (service.ts:654, 805).                                                  *)
Left(i) == IF i = 0 THEN Funds ELSE ledger[i].after
NeverOverdrawn ==
  /\ \A i \in DOMAIN ledger : ledger[i].after = Left(i - 1) - ledger[i].cents /\ ledger[i].after >= 0
  /\ balance = Left(Len(ledger))

(* Every year of every shop was paid for once, out of money that was       *)
(* there. The first part is the type invariant.                            *)
YearsPaid == TypeOK /\ TermsPaid /\ ChargesEntered /\ NeverOverdrawn

(* Create transactions all end although each upgrades a lock that others   *)
(* share: the deadlock of two of them is broken and the rest finish or are *)
(* refused (service.ts:617, 655).                                          *)
CreatesEnd == []<>(creating = {})

=============================================================================
