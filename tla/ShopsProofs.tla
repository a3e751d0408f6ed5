---------------------------- MODULE ShopsProofs -----------------------------
(***************************************************************************)
(* That every year of every shop is charged once and paid with money that  *)
(* was there (YearsPaid, with the type invariant of Shops), and that a     *)
(* request that succeeded is accepted again with its key, whatever became  *)
(* of the shop (ReplaysAccepted), for every number of members,             *)
(* administrators, keys, names, dates, shops and requests under way.  Of   *)
(* the web client: that the steps shown for a shop are true (StepsTrue of  *)
(* Workflow), for every number of shops, moves of the server and requests  *)
(* for a view; and that the upload page never locks itself or stops        *)
(* following an import (PageGoesOn), and hands over only files of its list *)
(* (ArchivedWereListed), for every number of files, batches, tasks, lost   *)
(* answers and reloads.                                                    *)
(***************************************************************************)
EXTENDS Shops, Workflow, UploadPage, SequenceTheorems, WellFoundedInduction, TLAPS

-----------------------------------------------------------------------------
(* Terms and years.                                                         *)

LEMMA LeastExists ==
  ASSUME NEW S \in SUBSET Nat, S # {}
  PROVE  Min(S) \in S /\ \A n \in S : Min(S) <= n
<1> DEFINE R == {p \in Nat \X Nat : p[1] < p[2]}
<1>1. IsWellFoundedOn(R, Nat)
  BY NatLessThanWellFounded DEF OpToRel
<1>2. PICK m \in S : \A n \in S : <<n, m>> \notin R
  <2> HIDE DEF R
  <2> QED BY ONLY <1>1, WFMin, S \in SUBSET Nat, S # {}
<1>3. ASSUME NEW n \in S PROVE m <= n
  <2>1. m \in Nat /\ n \in Nat /\ <<n, m>> \notin R
    BY <1>2
  <2>2. ~(n < m)
    BY <2>1
  <2> QED BY ONLY <2>1, <2>2
<1> QED BY <1>3 DEF Min

(* A term of at most 100 years is billed as 1 to 100 years.                 *)
LEMMA YearsInRange ==
  ASSUME NEW start, NEW close, TermOK(start, close)
  PROVE  billedYears(start, close) \in 1..100
<1> DEFINE S == {n \in 1..100 : AtMost(close, anniversary(start, n))}
<1>1. 100 \in S
  BY DEF TermOK
<1>2. S \in SUBSET Nat /\ S # {}
  BY <1>1
<1>3. Min(S) \in S
  BY <1>2, LeastExists
<1> QED BY <1>3 DEF billedYears

(* The 30 days of the recycle bin end on a day of the calendar's count.     *)
LEMMA DayNumbers ==
  ASSUME NEW d \in Dates
  PROVE  DayNumber(d) \in Nat
<1> DEFINE p == d[1] - 1
<1>1. p \in Nat /\ d[2] \in 1..12 /\ d[3] \in Nat
  BY DEF Dates
<1>2. DaysBefore(d[1], d[2]) \in Nat
  BY <1>1 DEF DaysBefore
<1>3. 365 * p + (p \div 4) - (p \div 100) + (p \div 400) \in Nat
  <2> HIDE DEF p
  <2> QED BY <1>1
<1> QED BY <1>1, <1>2, <1>3 DEF DayNumber

-----------------------------------------------------------------------------
(* The inductive invariant.                                                 *)

ShopRow == [name : Names, history : Seq(Names), start : Starts, close : Closes,
            status : ShopStates, purgeAfter : Nat]
Charge  == [actor : Actors, key : Keys, kind : {"create", "renew"}, shop : Nat, start : Starts,
            close : Closes, years : 1..100, waiver : Waivers, ledger : Nat]
Entry   == [kind : {"create", "renew"}, key : Keys, cents : Nat, after : Int]

(* Stored terms, and those of transactions under way, can be billed; a      *)
(* charge names its shop and begins with the shop's term.                   *)
TermsFit ==
  /\ \A s \in DOMAIN shops : TermOK(shops[s].start, shops[s].close)
  /\ \A t \in creating : TermOK(t.start, t.close)
  /\ \A c \in charges : TermOK(c.start, c.close)

RowsOK == TypeOK /\ TermsFit
ShopsInv == RowsOK /\ TermsPaid /\ ReplaysAccepted /\ ChargesEntered /\ NeverOverdrawn

-----------------------------------------------------------------------------

LEMMA ShopsFixed ==
  ASSUME scenario' = scenario
  PROVE  /\ Accountants' = Accountants /\ Closes' = Closes /\ Calendar' = Calendar /\ Funds' = Funds
         /\ MaxCreates' = MaxCreates /\ Actors' = Actors /\ Requests' = Requests
         /\ ShopRow' = ShopRow /\ Charge' = Charge
<1>1. /\ Accountants' = Accountants /\ Closes' = Closes /\ Calendar' = Calendar /\ MaxCreates' = MaxCreates
      /\ Funds' = Funds
  BY DEF Accountants, Closes, Calendar, MaxCreates, Funds
<1>2. Actors' = Actors
  BY <1>1 DEF Actors
<1> QED BY <1>1, <1>2 DEF Requests, ShopRow, Charge

LEMMA ScenarioFacts ==
  ASSUME scenario \in Scenarios
  PROVE  /\ Starts \subseteq Dates /\ Closes \subseteq Dates /\ Calendar \in Seq(Dates) /\ Len(Calendar) \in Nat
         /\ Len(Calendar) > 0 /\ Price \in Nat /\ Funds \in Nat /\ MaxCreates \in Nat
<1>1. Calendar \in Seq(Dates) /\ Calendar # << >>
  BY ShopsAssumption DEF Calendar
<1>2. Len(Calendar) > 0 /\ Len(Calendar) \in Nat
  BY <1>1
<1> QED BY <1>1, <1>2, ShopsAssumption DEF Closes, Funds, MaxCreates

(* What the type invariant says, row by row.                                *)
LEMMA RowFacts ==
  ASSUME TypeOK
  PROVE  /\ shops \in Seq(ShopRow) /\ Len(shops) \in Nat /\ DOMAIN shops = 1..Len(shops)
         /\ \A s \in DOMAIN shops : shops[s] \in ShopRow
         /\ \A c \in charges : c \in Charge /\ c.shop \in DOMAIN shops /\ c.ledger \in 0..Len(ledger)
         /\ ledger \in Seq(Entry) /\ Len(ledger) \in Nat
         /\ Today \in Dates
<1>1. shops \in Seq(ShopRow)
  BY DEF TypeOK, ShopRow
<1>2. Len(shops) \in Nat /\ DOMAIN shops = 1..Len(shops)
  BY <1>1
<1>3. \A s \in DOMAIN shops : shops[s] \in ShopRow
  BY <1>1
<1>6. ledger \in Seq(Entry) /\ Len(ledger) \in Nat
  <2>1. ledger \in Seq(Entry)
    BY DEF TypeOK, Entry
  <2> QED BY <2>1
<1>4. \A c \in charges : c \in Charge /\ c.shop \in DOMAIN shops /\ c.ledger \in 0..Len(ledger)
  <2>1. charges \subseteq [actor : Actors, key : Keys, kind : {"create", "renew"}, shop : DOMAIN shops, start : Starts,
                           close : Closes, years : 1..100, waiver : Waivers, ledger : 0..Len(ledger)]
    BY DEF TypeOK
  <2> QED BY <1>2, <1>6, <2>1 DEF Charge
<1>5. Today \in Dates
  BY ScenarioFacts DEF TypeOK, Today
<1> QED BY <1>1, <1>2, <1>3, <1>4, <1>5, <1>6

-----------------------------------------------------------------------------
(* Steps that charge nothing: shops keep their terms and the name they were *)
(* created with.                                                            *)

Kept ==
  /\ DOMAIN shops' = DOMAIN shops /\ shops' \in Seq(ShopRow)
  /\ \A s \in DOMAIN shops : /\ shops'[s].start = shops[s].start /\ shops'[s].close = shops[s].close
                             /\ OriginalName(s)' = OriginalName(s)

LEMMA ShopsStay ==
  ASSUME TypeOK, shops' = shops
  PROVE  Kept
BY RowFacts DEF Kept, OriginalName

LEMMA QuietStep ==
  ASSUME ShopsInv, scenario' = scenario, UNCHANGED <<charges, requests, balance, ledger>>, Kept,
         day' \in 1..Len(Calendar), attempts' \in 0..MaxCreates, creating' \subseteq Requests,
         \A t \in creating' : TermOK(t.start, t.close),
         bulks' \subseteq [actor : Actors, key : Keys, selected : SUBSET DOMAIN shops],
         granted' \subseteq [actor : Actors, shop : DOMAIN shops, capability : ShopCapabilities],
         work' \subseteq DOMAIN shops
  PROVE  ShopsInv'
<1>1. TypeOK
  BY DEF ShopsInv, RowsOK
<1>2. charges \subseteq Charge /\ balance \in Int /\ ledger \in Seq(Entry) /\ scenario \in Scenarios
  BY <1>1, RowFacts DEF TypeOK
<1>3. TypeOK'
  <2>1. scenario' \in Scenarios /\ day' \in 1..Len(Calendar)' /\ shops' \in Seq(ShopRow)' /\ charges' \subseteq Charge'
        /\ balance' \in Int /\ attempts' \in 0..MaxCreates' /\ creating' \subseteq Requests'
        /\ ledger' \in Seq([kind : {"create", "renew"}, key : Keys, cents : Nat, after : Int])
    BY <1>2, ShopsFixed DEF Kept, Entry
  <2>2. \A c \in charges' : c.shop \in DOMAIN shops' /\ c.ledger \in 0..Len(ledger')
    BY <1>1, RowFacts DEF Kept
  <2>3. /\ bulks' \subseteq [actor : Actors', key : Keys, selected : SUBSET DOMAIN shops']
        /\ granted' \subseteq [actor : Actors', shop : DOMAIN shops', capability : ShopCapabilities]
        /\ work' \subseteq DOMAIN shops'
    BY ShopsFixed DEF Kept
  <2>4. /\ shops' \in Seq([name : Names, history : Seq(Names), start : Starts, close : Closes',
                           status : ShopStates, purgeAfter : Nat])
        /\ charges' \subseteq
             [actor : Actors', key : Keys, kind : {"create", "renew"}, shop : DOMAIN shops', start : Starts,
              close : Closes', years : 1..100, waiver : Waivers, ledger : 0..Len(ledger')]
    BY <2>1, <2>2 DEF ShopRow, Charge
  <2> QED BY <2>1, <2>3, <2>4 DEF TypeOK
<1>4. TermsFit'
  BY DEF ShopsInv, RowsOK, TermsFit, Kept
<1>5. TermsPaid'
  BY DEF ShopsInv, TermsPaid, Kept
<1>6. ReplaysAccepted'
  <2>1. ASSUME NEW r \in requests
        PROVE  \E c \in charges : /\ c.actor = r.actor /\ c.key = r.key
                                  /\ IF r.kind = "create" THEN SameCreate(c, r)' ELSE SameRenew(c, r)
    <3>1. PICK c \in charges : /\ c.actor = r.actor /\ c.key = r.key
                               /\ IF r.kind = "create" THEN SameCreate(c, r) ELSE SameRenew(c, r)
      BY DEF ShopsInv, ReplaysAccepted, ChargeOf
    <3>2. c.shop \in DOMAIN shops
      BY <1>1, RowFacts
    <3>3. OriginalName(c.shop)' = OriginalName(c.shop)
      BY <3>2 DEF Kept
    <3>4. SameCreate(c, r) => SameCreate(c, r)'
      BY <3>3 DEF SameCreate
    <3> QED BY <3>1, <3>4
  <2> QED BY <2>1 DEF ReplaysAccepted, ChargeOf, SameRenew
<1>7. ChargesEntered'
  BY DEF ShopsInv, ChargesEntered
<1>8. NeverOverdrawn'
  BY ShopsFixed DEF ShopsInv, NeverOverdrawn, Left
<1> QED BY <1>3, <1>4, <1>5, <1>6, <1>7, <1>8 DEF ShopsInv, RowsOK

(* What an operation on rows has to show.                                   *)
LEMMA RowsKept ==
  ASSUME TypeOK, NEW f, shops' = [s \in DOMAIN shops |-> f[s]],
         \A s \in DOMAIN shops : /\ f[s] \in ShopRow /\ f[s].start = shops[s].start /\ f[s].close = shops[s].close
                                 /\ \/ f[s].history = shops[s].history /\ f[s].name = shops[s].name
                                    \/ shops[s].history = << >> /\ f[s].history = <<shops[s].name>>
  PROVE  Kept
<1>1. Len(shops) \in Nat /\ DOMAIN shops = 1..Len(shops)
  BY RowFacts
<1>2. shops' \in Seq(ShopRow) /\ DOMAIN shops' = DOMAIN shops
  <2>1. shops' = [s \in 1..Len(shops) |-> f[s]] /\ \A s \in 1..Len(shops) : f[s] \in ShopRow
    BY <1>1
  <2> QED BY <1>1, <2>1
<1>3. \A s \in DOMAIN shops : shops'[s].start = shops[s].start /\ shops'[s].close = shops[s].close
  OBVIOUS
<1>4. ASSUME NEW s \in DOMAIN shops PROVE OriginalName(s)' = OriginalName(s)
  <2>1. CASE f[s].history = shops[s].history /\ f[s].name = shops[s].name
    BY <2>1 DEF OriginalName
  <2>2. CASE shops[s].history = << >> /\ f[s].history = <<shops[s].name>>
    BY <2>2 DEF OriginalName
  <2> QED BY <2>1, <2>2
<1> QED BY <1>2, <1>3, <1>4 DEF Kept

LEMMA TrashedRow ==
  ASSUME TypeOK, NEW s \in DOMAIN shops
  PROVE  LET row == Trashed(shops[s])
         IN  /\ row \in ShopRow /\ row.start = shops[s].start /\ row.close = shops[s].close
             /\ row.history = shops[s].history /\ row.name = shops[s].name
<1>1. shops[s] \in ShopRow /\ DayNumber(Today) \in Nat
  BY RowFacts, DayNumbers
<1>2. DayNumber(Today) + 30 \in Nat
  BY <1>1
<1> QED BY <1>1, <1>2 DEF Trashed, ShopRow, ShopStates

LEMMA RenameKeeps ==
  ASSUME TypeOK, NEW a, NEW s \in DOMAIN shops, NEW name \in Names, Rename(a, s, name)
  PROVE  Kept
<1> DEFINE f == [t \in DOMAIN shops |-> IF t = s THEN [shops[s] EXCEPT !.name = name, !.history = <<shops[s].name>>]
                                                 ELSE shops[t]]
<1>1. shops[s] \in ShopRow /\ shops[s].history = << >> /\ \A t \in DOMAIN shops : shops[t] \in ShopRow
  BY RowFacts DEF Rename
<1>2. [shops[s] EXCEPT !.name = name, !.history = <<shops[s].name>>] \in ShopRow
  <2>1. shops[s].name \in Names /\ <<shops[s].name>> \in Seq(Names)
    BY <1>1 DEF ShopRow
  <2> QED BY <1>1, <2>1 DEF ShopRow
<1>3. shops' = [t \in DOMAIN shops |-> f[t]]
  BY DEF Rename
<1>4. \A t \in DOMAIN shops : /\ f[t] \in ShopRow /\ f[t].start = shops[t].start /\ f[t].close = shops[t].close
                              /\ \/ f[t].history = shops[t].history /\ f[t].name = shops[t].name
                                 \/ shops[t].history = << >> /\ f[t].history = <<shops[t].name>>
  BY <1>1, <1>2 DEF ShopRow
<1> HIDE DEF f
<1> QED BY <1>3, <1>4, RowsKept

LEMMA BinKeeps ==
  ASSUME TypeOK, NEW a, NEW s \in DOMAIN shops, Trash(a, s) \/ Restore(a, s) \/ Purge(a, s)
  PROVE  Kept
<1>1. PICK row \in ShopRow : /\ shops' = [shops EXCEPT ![s] = row]
                             /\ row.start = shops[s].start /\ row.close = shops[s].close
                             /\ row.history = shops[s].history /\ row.name = shops[s].name
  <2>1. shops[s] \in ShopRow
    BY RowFacts
  <2>2. CASE Trash(a, s)
    BY <2>2, TrashedRow DEF Trash
  <2>3. CASE Restore(a, s)
    <3>1. PICK st \in ShopStates : st = StatusByDate(shops[s].close)
      BY DEF StatusByDate, ShopStates
    <3>2. shops' = [shops EXCEPT ![s] = [shops[s] EXCEPT !.status = st, !.purgeAfter = 0]]
      BY <2>3, <3>1 DEF Restore
    <3>3. [shops[s] EXCEPT !.status = st, !.purgeAfter = 0] \in ShopRow
      BY <2>1 DEF ShopRow
    <3> QED BY <2>1, <3>2, <3>3 DEF ShopRow
  <2>4. CASE Purge(a, s)
    <3>1. shops' = [shops EXCEPT ![s] = [shops[s] EXCEPT !.status = "PURGED"]]
      BY <2>4 DEF Purge
    <3>2. [shops[s] EXCEPT !.status = "PURGED"] \in ShopRow
      BY <2>1 DEF ShopRow, ShopStates
    <3> QED BY <2>1, <3>1, <3>2 DEF ShopRow
  <2> QED BY <2>2, <2>3, <2>4
<1> DEFINE f == [t \in DOMAIN shops |-> IF t = s THEN row ELSE shops[t]]
<1>2. shops' = [t \in DOMAIN shops |-> f[t]]
  BY <1>1
<1>3. \A t \in DOMAIN shops : /\ f[t] \in ShopRow /\ f[t].start = shops[t].start /\ f[t].close = shops[t].close
                              /\ f[t].history = shops[t].history /\ f[t].name = shops[t].name
  BY <1>1, RowFacts
<1> HIDE DEF f
<1> QED BY <1>2, <1>3, RowsKept

LEMMA BulkTrashKeeps ==
  ASSUME TypeOK, NEW a, NEW key, NEW selected, BulkTrash(a, key, selected)
  PROVE  Kept
<1> DEFINE f == [s \in DOMAIN shops |-> IF s \in selected THEN Trashed(shops[s]) ELSE shops[s]]
<1>1. shops' = [s \in DOMAIN shops |-> f[s]]
  BY DEF BulkTrash
<1>2. ASSUME NEW s \in DOMAIN shops
      PROVE  /\ f[s] \in ShopRow /\ f[s].start = shops[s].start /\ f[s].close = shops[s].close
             /\ f[s].history = shops[s].history /\ f[s].name = shops[s].name
  <2>1. shops[s] \in ShopRow /\ f[s] \in {Trashed(shops[s]), shops[s]}
    BY RowFacts
  <2> QED BY <2>1, TrashedRow
<1> HIDE DEF f
<1> QED BY <1>1, <1>2, RowsKept

LEMMA RefreshKeeps ==
  ASSUME TypeOK, RefreshExpired
  PROVE  Kept
<1> DEFINE due == {s \in DOMAIN shops : shops[s].status = "ACTIVE" /\ AtMost(shops[s].close, Today)}
           f == [s \in DOMAIN shops |-> IF s \in due THEN [shops[s] EXCEPT !.status = "EXPIRED_READONLY"] ELSE shops[s]]
<1>1. shops' = [s \in DOMAIN shops |-> f[s]]
  BY DEF RefreshExpired
<1>2. ASSUME NEW s \in DOMAIN shops
      PROVE  /\ f[s] \in ShopRow /\ f[s].start = shops[s].start /\ f[s].close = shops[s].close
             /\ f[s].history = shops[s].history /\ f[s].name = shops[s].name
  <2>1. shops[s] \in ShopRow /\ f[s] \in {[shops[s] EXCEPT !.status = "EXPIRED_READONLY"], shops[s]}
    BY RowFacts
  <2> QED BY <2>1 DEF ShopRow, ShopStates
<1> HIDE DEF f
<1> QED BY <1>1, <1>2, RowsKept

-----------------------------------------------------------------------------
(* The two steps that charge.                                               *)

(* The charge gets an entry nobody has, and the wallet holds what it costs. *)
LEMMA EntryKeeps ==
  ASSUME TypeOK, ChargesEntered, NeverOverdrawn, scenario' = scenario,
         NEW a \in Actors, NEW kind \in {"create", "renew"}, NEW key \in Keys, NEW years \in 1..100,
         Affordable(a, years), LedgerEntryFree(a, kind, key), AppendWalletEntry(a, kind, key, years),
         NEW c, charges' = charges \cup {c}, c.years = years, c.waiver.free <=> IsAdmin(a),
         c.ledger = LedgerIdOf(a, kind, key)
  PROVE  /\ balance' \in Int /\ ledger' \in Seq(Entry) /\ Len(ledger) <= Len(ledger') /\ Len(ledger') \in Nat
         /\ c.ledger \in 0..Len(ledger')
         /\ ChargesEntered' /\ NeverOverdrawn'
<1>1. /\ Price \in Nat /\ balance \in Int /\ ledger \in Seq(Entry) /\ Len(ledger) \in Nat /\ Funds' = Funds
      /\ \A d \in charges : d.ledger \in 0..Len(ledger)
  BY ScenarioFacts, RowFacts, ShopsFixed DEF TypeOK
<1>2. PICK n \in Nat : n = Len(ledger)
  BY <1>1
<1>3. CASE ~Pays(a)
  <2>1. balance' = balance /\ ledger' = ledger /\ c.ledger = 0
    BY <1>3 DEF AppendWalletEntry, LedgerIdOf
  <2>2. c.waiver.free \/ Price = 0
    BY <1>1, <1>3 DEF Pays
  <2>3. ChargesEntered'
    BY <2>1, <2>2 DEF ChargesEntered
  <2>4. NeverOverdrawn'
    BY <1>1, <2>1 DEF NeverOverdrawn, Left
  <2> QED BY <1>1, <2>1, <2>3, <2>4
<1>4. CASE Pays(a)
  <2>1. Posted(kind, key) = {}
    <3>1. SUFFICES ASSUME Posted(kind, key) # {} PROVE FALSE
      OBVIOUS
    <3>2. EntryFor(kind, key) \in Posted(kind, key)
      BY <3>1 DEF EntryFor
    <3>3. PICK d \in charges : d.ledger = EntryFor(kind, key)
      BY <3>2 DEF Posted, ChargesEntered
    <3> QED BY <1>4, <3>3 DEF LedgerEntryFree
  <2>2. PICK cost \in Nat : cost = Price * years /\ cost = Cost(a, years) /\ balance >= cost
    <3>1. Price * years \in Nat
      BY <1>1
    <3> QED BY <1>4, <3>1 DEF Cost, Affordable
  <2>3. PICK e : e = [kind |-> kind, key |-> key, cents |-> cost, after |-> balance - cost]
    OBVIOUS
  <2>4. /\ balance' = balance - cost /\ ledger' = Append(ledger, e) /\ c.ledger = n + 1
        /\ ~c.waiver.free /\ Price # 0
    BY <1>1, <1>2, <1>4, <2>1, <2>2, <2>3 DEF AppendWalletEntry, LedgerIdOf, EntryFor, Pays
  <2>5. balance' \in Int /\ balance' >= 0 /\ e \in Entry /\ e.cents = cost /\ e.after = balance'
    BY <1>1, <2>2, <2>3, <2>4 DEF Entry
  <2>6. /\ ledger' \in Seq(Entry) /\ Len(ledger') = n + 1 /\ DOMAIN ledger' = 1..(n + 1)
        /\ DOMAIN ledger = 1..n /\ ledger'[n + 1] = e /\ \A i \in 1..n : ledger'[i] = ledger[i]
    BY <1>1, <1>2, <2>4, <2>5, AppendProperties
  <2>7. ChargesEntered'
    <3>1. \A d \in charges : d.ledger \in 0..n
      BY <1>1, <1>2
    <3>2. ASSUME NEW d \in charges'
          PROVE  IF d.waiver.free \/ Price = 0 THEN d.ledger = 0
                 ELSE d.ledger \in DOMAIN ledger' /\ ledger'[d.ledger].cents = Price * d.years
      <4>1. CASE d \in charges
        BY <2>6, <4>1 DEF ChargesEntered
      <4>2. CASE d = c
        BY <2>2, <2>4, <2>5, <2>6, <4>2
      <4> QED BY <4>1, <4>2
    <3>3. \A d, f \in charges' : d.ledger = f.ledger /\ d.ledger # 0 => d = f
      <4>1. \A d \in charges : d.ledger # c.ledger
        BY <2>4, <3>1
      <4> QED BY <4>1 DEF ChargesEntered
    <3>4. \A i \in DOMAIN ledger' : \E d \in charges' : d.ledger = i
      BY <2>4, <2>6 DEF ChargesEntered
    <3> QED BY <3>2, <3>3, <3>4 DEF ChargesEntered
  <2>8. NeverOverdrawn'
    <3>1. balance = Left(n)
      BY <1>2 DEF NeverOverdrawn
    <3>2. ASSUME NEW i \in 0..n PROVE Left(i)' = Left(i)
      BY <1>1, <2>6 DEF Left
    <3>3. ASSUME NEW i \in 1..(n + 1)
          PROVE  ledger'[i].after = Left(i - 1)' - ledger'[i].cents /\ ledger'[i].after >= 0
      <4>1. CASE i = n + 1
        <5>1. i - 1 = n /\ n \in 0..n
          BY <4>1
        <5>2. Left(n)' = balance
          BY <3>1, <3>2, <5>1
        <5>3. Left(i - 1)' = balance
          BY <5>1, <5>2
        <5> QED BY <2>4, <2>5, <2>6, <4>1, <5>3
      <4>2. CASE i \in 1..n
        <5>1. i - 1 \in 0..n
          BY <4>2
        <5>2. Left(i - 1)' = Left(i - 1)
          BY <3>2, <5>1
        <5>3. ledger[i].after = Left(i - 1) - ledger[i].cents /\ ledger[i].after >= 0
          BY <2>6, <4>2 DEF NeverOverdrawn
        <5> QED BY <2>6, <4>2, <5>2, <5>3
      <4> QED BY <4>1, <4>2
    <3>4. balance' = Left(Len(ledger))'
      <4>1. n + 1 # 0
        BY <1>2
      <4> QED BY <2>5, <2>6, <4>1 DEF Left
    <3> QED BY <2>6, <3>3, <3>4 DEF NeverOverdrawn
  <2> QED BY <1>2, <2>4, <2>5, <2>6, <2>7, <2>8
<1> QED BY <1>3, <1>4

(* A request that was answered is accepted again after a step that adds     *)
(* charges and changes no name a shop was created with.                     *)
LEMMA ReplaysStay ==
  ASSUME TypeOK, ReplaysAccepted, charges \subseteq charges',
         \A s \in DOMAIN shops : OriginalName(s)' = OriginalName(s),
         NEW c, NEW r, c \in charges', requests' = requests \cup {r}, c.actor = r.actor, c.key = r.key,
         IF r.kind = "create" THEN SameCreate(c, r)' ELSE SameRenew(c, r)
  PROVE  ReplaysAccepted'
<1>1. ASSUME NEW q \in requests
      PROVE  \E d \in charges' : /\ d.actor = q.actor /\ d.key = q.key
                                 /\ IF q.kind = "create" THEN SameCreate(d, q)' ELSE SameRenew(d, q)
  <2>1. PICK d \in charges : /\ d.actor = q.actor /\ d.key = q.key
                             /\ IF q.kind = "create" THEN SameCreate(d, q) ELSE SameRenew(d, q)
    BY DEF ReplaysAccepted, ChargeOf
  <2>2. OriginalName(d.shop)' = OriginalName(d.shop)
    BY RowFacts
  <2>3. SameCreate(d, q) => SameCreate(d, q)'
    BY <2>2 DEF SameCreate
  <2> QED BY <2>1, <2>3
<1>2. \A q \in requests' : \E d \in charges' : /\ d.actor = q.actor /\ d.key = q.key
                                               /\ IF q.kind = "create" THEN SameCreate(d, q)' ELSE SameRenew(d, q)
  BY <1>1
<1> QED BY <1>2 DEF ReplaysAccepted, ChargeOf, SameRenew

LEMMA FinishCreateKeeps ==
  ASSUME ShopsInv, scenario' = scenario, NEW t \in creating, FinishCreate(t)
  PROVE  ShopsInv'
<1>1. TypeOK /\ TermsFit /\ TermsPaid /\ ReplaysAccepted /\ ChargesEntered /\ NeverOverdrawn
  BY DEF ShopsInv, RowsOK
<1>2. PICK years \in 1..100 : years = billedYears(t.start, t.close)
  <2>1. TermOK(t.start, t.close)
    BY <1>1 DEF TermsFit
  <2> QED BY <2>1, YearsInRange
<1>3. t \in Requests /\ TermOK(t.start, t.close)
  BY <1>1 DEF TypeOK, TermsFit
<1>4. t.actor \in Actors /\ t.key \in Keys /\ t.name \in Names /\ t.start \in Starts /\ t.close \in Closes
  BY <1>3 DEF Requests
<1>5. shops \in Seq(ShopRow) /\ Len(shops) \in Nat /\ DOMAIN shops = 1..Len(shops)
      /\ \A d \in charges : d \in Charge /\ d.shop \in DOMAIN shops /\ d.ledger \in 0..Len(ledger)
      /\ Len(ledger) \in Nat
  BY <1>1, RowFacts
<1>6. PICK s \in Nat : s = Len(shops) + 1
  BY <1>5
<1>7. PICK w \in Waivers : w = Waiver(t.actor, "none")
  <2>1. Waiver(t.actor, "none") \in Waivers
    BY DEF Waiver, Waivers, IsAdmin
  <2> QED BY <2>1
<1>8. PICK c : c = [actor |-> t.actor, key |-> t.key, kind |-> "create", shop |-> s, start |-> t.start,
                    close |-> t.close, years |-> years, waiver |-> w,
                    ledger |-> LedgerIdOf(t.actor, "create", t.key)]
  OBVIOUS
<1>9. PICK r : r = [actor |-> t.actor, key |-> t.key, kind |-> "create", shop |-> s, name |-> t.name,
                    start |-> t.start, close |-> t.close, reason |-> "none"]
  OBVIOUS
<1>10. PICK row : row = NewShop(t)
  OBVIOUS
<1>11. /\ shops' = Append(shops, row) /\ charges' = charges \cup {c} /\ requests' = requests \cup {r}
       /\ AppendWalletEntry(t.actor, "create", t.key, years) /\ LedgerEntryFree(t.actor, "create", t.key)
       /\ creating' = creating \ {t} /\ UNCHANGED <<day, attempts, bulks, granted, work>>
       /\ Affordable(t.actor, years)
  BY <1>2, <1>6, <1>7, <1>8, <1>9, <1>10 DEF FinishCreate
<1>12. row \in ShopRow /\ row.start = t.start /\ row.close = t.close /\ row.name = t.name /\ row.history = << >>
  BY <1>4, <1>10 DEF NewShop, ShopRow, StatusByDate, ShopStates
<1>13. /\ shops' \in Seq(ShopRow) /\ DOMAIN shops' = DOMAIN shops \cup {s} /\ s \notin DOMAIN shops
       /\ shops'[s] = row /\ \A u \in DOMAIN shops : shops'[u] = shops[u]
  <2>1. shops' \in Seq(ShopRow) /\ Len(shops') = Len(shops) + 1 /\ shops'[s] = row
        /\ \A u \in 1..Len(shops) : shops'[u] = shops[u]
    BY <1>5, <1>6, <1>11, <1>12, AppendProperties
  <2>2. DOMAIN shops' = 1..(Len(shops) + 1)
    BY <2>1
  <2> QED BY <1>5, <1>6, <2>1, <2>2
<1>15. /\ balance' \in Int /\ ledger' \in Seq(Entry) /\ Len(ledger) <= Len(ledger') /\ Len(ledger') \in Nat
       /\ c.ledger \in 0..Len(ledger') /\ ChargesEntered' /\ NeverOverdrawn'
  <2>1. c.years = years /\ (c.waiver.free <=> IsAdmin(t.actor)) /\ c.ledger = LedgerIdOf(t.actor, "create", t.key)
    BY <1>7, <1>8 DEF Waiver
  <2> QED BY <1>1, <1>4, <1>11, <2>1, EntryKeeps
<1>14. c \in Charge /\ c.shop = s /\ c.start = t.start /\ c.close = t.close /\ c.years = years
  BY <1>4, <1>8, <1>15 DEF Charge
<1>16. TypeOK'
  <2>1. /\ shops' \in Seq([name : Names, history : Seq(Names), start : Starts, close : Closes',
                           status : ShopStates, purgeAfter : Nat])
    BY <1>13, ShopsFixed DEF ShopRow
  <2>2. charges' \subseteq
             [actor : Actors', key : Keys, kind : {"create", "renew"}, shop : DOMAIN shops', start : Starts,
              close : Closes', years : 1..100, waiver : Waivers, ledger : 0..Len(ledger')]
    <3>1. \A d \in charges' : d \in Charge /\ d.shop \in DOMAIN shops' /\ d.ledger \in 0..Len(ledger')
      BY <1>5, <1>11, <1>13, <1>14, <1>15
    <3> QED BY <3>1, ShopsFixed DEF Charge
  <2>3. /\ scenario' \in Scenarios /\ day' \in 1..Len(Calendar)' /\ attempts' \in 0..MaxCreates'
        /\ creating' \subseteq Requests'
    BY <1>1, <1>11, ShopsFixed DEF TypeOK
  <2>4. /\ bulks' \subseteq [actor : Actors', key : Keys, selected : SUBSET DOMAIN shops']
        /\ granted' \subseteq [actor : Actors', shop : DOMAIN shops', capability : ShopCapabilities]
        /\ work' \subseteq DOMAIN shops'
    <3>1. /\ bulks \subseteq [actor : Actors, key : Keys, selected : SUBSET DOMAIN shops]
          /\ granted \subseteq [actor : Actors, shop : DOMAIN shops, capability : ShopCapabilities]
          /\ work \subseteq DOMAIN shops
      BY <1>1 DEF TypeOK
    <3>2. bulks' = bulks /\ granted' = granted /\ work' = work /\ Actors' = Actors /\ DOMAIN shops \subseteq DOMAIN shops'
      BY <1>11, <1>13, ShopsFixed
    <3>3. [actor : Actors, key : Keys, selected : SUBSET DOMAIN shops]
            \subseteq [actor : Actors, key : Keys, selected : SUBSET DOMAIN shops']
      BY <3>2
    <3>4. [actor : Actors, shop : DOMAIN shops, capability : ShopCapabilities]
            \subseteq [actor : Actors, shop : DOMAIN shops', capability : ShopCapabilities]
      BY <3>2
    <3> QED BY <3>1, <3>2, <3>3, <3>4
  <2> QED BY <1>15, <2>1, <2>2, <2>3, <2>4 DEF TypeOK, Entry
<1>17. TermsFit'
  BY <1>1, <1>3, <1>11, <1>12, <1>13, <1>14 DEF TermsFit
<1>18. TermsPaid'
  <2>1. YearsOf(c) = 1..years
    <3>1. YearsOf(c) = (years - years + 1)..years
      BY <1>2, <1>14 DEF YearsOf
    <3> QED BY <3>1
  <2>2. ASSUME NEW u \in DOMAIN shops'
        PROVE  LET paid == {d \in charges' : d.shop = u}
               IN  /\ UNION {YearsOf(d) : d \in paid} = 1..billedYears(shops'[u].start, shops'[u].close)
                   /\ \A d, e \in paid : d # e => YearsOf(d) \cap YearsOf(e) = {}
    <3>1. CASE u = s
      <4>1. {d \in charges' : d.shop = u} = {c}
        BY <1>5, <1>11, <1>13, <1>14, <3>1
      <4>2. billedYears(shops'[u].start, shops'[u].close) = years
        BY <1>2, <1>12, <1>13, <3>1
      <4> QED BY <2>1, <4>1, <4>2
    <3>2. CASE u # s
      <4>1. {d \in charges' : d.shop = u} = {d \in charges : d.shop = u} /\ u \in DOMAIN shops /\ shops'[u] = shops[u]
        BY <1>11, <1>13, <1>14, <3>2
      <4> QED BY <1>1, <4>1 DEF TermsPaid
    <3> QED BY <3>1, <3>2
  <2> QED BY <2>2 DEF TermsPaid
<1>19. ReplaysAccepted'
  <2>1. ASSUME NEW u \in DOMAIN shops PROVE OriginalName(u)' = OriginalName(u)
    <3>1. shops'[u] = shops[u]
      BY <1>13
    <3> QED BY <3>1 DEF OriginalName
  <2>2. OriginalName(s)' = t.name
    <3>1. shops'[s].history = << >> /\ shops'[s].name = t.name
      BY <1>12, <1>13
    <3> QED BY <3>1 DEF OriginalName
  <2>3. SameCreate(c, r)'
    <3>1. c.kind = "create" /\ c.shop = s /\ c.start = r.start /\ c.close = r.close /\ r.name = t.name
          /\ r.actor = t.actor /\ c.waiver = w
      BY <1>8, <1>9
    <3>2. IF IsAdmin(r.actor) THEN c.waiver.free ELSE c.waiver = Waiver(r.actor, "none")
      BY <1>7, <3>1 DEF Waiver
    <3> QED BY <2>2, <3>1, <3>2 DEF SameCreate
  <2>4. c.actor = r.actor /\ c.key = r.key /\ r.kind = "create" /\ c \in charges' /\ charges \subseteq charges'
        /\ requests' = requests \cup {r}
    BY <1>8, <1>9, <1>11
  <2> QED BY <1>1, <2>1, <2>3, <2>4, ReplaysStay
<1> QED BY <1>15, <1>16, <1>17, <1>18, <1>19 DEF ShopsInv, RowsOK

LEMMA RenewKeeps ==
  ASSUME ShopsInv, scenario' = scenario, NEW a \in Actors, NEW key \in Keys, NEW s \in DOMAIN shops,
         NEW close \in Closes, NEW reason \in Reasons, Renew(a, key, s, close, reason)
  PROVE  ShopsInv'
<1>1. TypeOK /\ TermsFit /\ TermsPaid /\ ReplaysAccepted /\ ChargesEntered /\ NeverOverdrawn
  BY DEF ShopsInv, RowsOK
<1>2. /\ shops \in Seq(ShopRow) /\ Len(shops) \in Nat /\ DOMAIN shops = 1..Len(shops) /\ shops[s] \in ShopRow
      /\ \A d \in charges : d \in Charge /\ d.shop \in DOMAIN shops /\ d.ledger \in 0..Len(ledger)
      /\ Len(ledger) \in Nat
  BY <1>1, RowFacts
<1>3. PICK start \in Starts : start = shops[s].start
  BY <1>2 DEF ShopRow
<1>4. PICK old \in 1..100 : old = billedYears(start, shops[s].close)
  <2>1. TermOK(start, shops[s].close)
    BY <1>1, <1>3 DEF TermsFit
  <2> QED BY <2>1, YearsInRange
<1>5. PICK new \in 1..100 : new = billedYears(start, close)
  <2>1. TermOK(start, close)
    BY <1>3 DEF Renew, Extends
  <2> QED BY <2>1, YearsInRange
<1>6. PICK years \in 1..100 : years = new - old /\ years = AddedYears(s, close)
  <2>1. AddedYears(s, close) = new - old
    BY <1>3, <1>4, <1>5 DEF AddedYears
  <2>2. AddedYears(s, close) >= 1
    BY DEF Renew, Extends
  <2>3. new - old \in 1..100
    BY <2>1, <2>2
  <2> QED BY <2>1, <2>3
<1>7. PICK w \in Waivers : w = Waiver(a, reason)
  <2>1. Waiver(a, reason) \in Waivers
    BY DEF Waiver, Waivers, IsAdmin
  <2> QED BY <2>1
<1>8. PICK c : c = [actor |-> a, key |-> key, kind |-> "renew", shop |-> s, start |-> start,
                    close |-> close, years |-> years, waiver |-> w,
                    ledger |-> LedgerIdOf(a, "renew", key)]
  OBVIOUS
<1>9. PICK r : r = [actor |-> a, key |-> key, kind |-> "renew", shop |-> s, name |-> "none",
                    start |-> start, close |-> close, reason |-> reason]
  OBVIOUS
<1>10. PICK row : row = [shops[s] EXCEPT !.close = close, !.status = "ACTIVE"]
  OBVIOUS
<1>11. /\ charges' = charges \cup {c} /\ requests' = requests \cup {r}
       /\ AppendWalletEntry(a, "renew", key, years) /\ LedgerEntryFree(a, "renew", key)
       /\ UNCHANGED <<day, attempts, creating, bulks, granted, work>>
       /\ Affordable(a, years)
  BY <1>3, <1>6, <1>7, <1>8, <1>9 DEF Renew
<1>12. shops' = [shops EXCEPT ![s] = row]
  BY <1>10 DEF Renew
<1>13. row \in ShopRow /\ row.start = start /\ row.close = close /\ row.name = shops[s].name
       /\ row.history = shops[s].history
  BY <1>2, <1>3, <1>10 DEF ShopRow, ShopStates
<1>14. /\ shops' \in Seq(ShopRow) /\ DOMAIN shops' = DOMAIN shops
       /\ shops'[s] = row /\ \A u \in DOMAIN shops : u # s => shops'[u] = shops[u]
  BY <1>2, <1>12, <1>13
<1>16. /\ balance' \in Int /\ ledger' \in Seq(Entry) /\ Len(ledger) <= Len(ledger') /\ Len(ledger') \in Nat
       /\ c.ledger \in 0..Len(ledger') /\ ChargesEntered' /\ NeverOverdrawn'
  <2>1. c.years = years /\ (c.waiver.free <=> IsAdmin(a)) /\ c.ledger = LedgerIdOf(a, "renew", key)
    BY <1>7, <1>8 DEF Waiver
  <2> QED BY <1>1, <1>11, <2>1, EntryKeeps
<1>15. c \in Charge /\ c.shop = s /\ c.start = start /\ c.close = close /\ c.years = years
  BY <1>2, <1>8, <1>16 DEF Charge
<1>17. TypeOK'
  <2>1. /\ shops' \in Seq([name : Names, history : Seq(Names), start : Starts, close : Closes',
                           status : ShopStates, purgeAfter : Nat])
    BY <1>14, ShopsFixed DEF ShopRow
  <2>2. charges' \subseteq
             [actor : Actors', key : Keys, kind : {"create", "renew"}, shop : DOMAIN shops', start : Starts,
              close : Closes', years : 1..100, waiver : Waivers, ledger : 0..Len(ledger')]
    <3>1. \A d \in charges' : d \in Charge /\ d.shop \in DOMAIN shops' /\ d.ledger \in 0..Len(ledger')
      BY <1>2, <1>11, <1>14, <1>15, <1>16
    <3> QED BY <3>1, ShopsFixed DEF Charge
  <2>3. /\ scenario' \in Scenarios /\ day' \in 1..Len(Calendar)' /\ attempts' \in 0..MaxCreates'
        /\ creating' \subseteq Requests'
    BY <1>1, <1>11, ShopsFixed DEF TypeOK
  <2>4. /\ bulks' \subseteq [actor : Actors', key : Keys, selected : SUBSET DOMAIN shops']
        /\ granted' \subseteq [actor : Actors', shop : DOMAIN shops', capability : ShopCapabilities]
        /\ work' \subseteq DOMAIN shops'
    BY <1>1, <1>11, <1>14, ShopsFixed DEF TypeOK
  <2> QED BY <1>16, <2>1, <2>2, <2>3, <2>4 DEF TypeOK, Entry
<1>18. TermsFit'
  <2>1. TermOK(start, close)
    BY <1>3 DEF Renew, Extends
  <2> QED BY <1>1, <1>11, <1>13, <1>14, <1>15, <2>1 DEF TermsFit
<1>19. TermsPaid'
  <2>1. YearsOf(c) = (old + 1)..new
    <3>1. YearsOf(c) = (new - years + 1)..new
      BY <1>5, <1>15 DEF YearsOf
    <3>2. new - years + 1 = old + 1
      BY <1>6
    <3> QED BY <3>1, <3>2
  <2>2. PICK before : before = {d \in charges : d.shop = s}
    OBVIOUS
  <2>3. /\ UNION {YearsOf(d) : d \in before} = 1..old
        /\ \A d, e \in before : d # e => YearsOf(d) \cap YearsOf(e) = {}
    BY <1>1, <1>3, <1>4, <2>2 DEF TermsPaid
  <2>4. \A d \in before : YearsOf(d) \cap YearsOf(c) = {}
    <3>1. ASSUME NEW d \in before, NEW y \in YearsOf(d) PROVE y \notin YearsOf(c)
      <4>1. y \in 1..old
        BY <2>3
      <4> QED BY <2>1, <4>1
    <3> QED BY <3>1
  <2>5. UNION {YearsOf(d) : d \in before \cup {c}} = 1..new
    <3>1. UNION {YearsOf(d) : d \in before \cup {c}} = (UNION {YearsOf(d) : d \in before}) \cup YearsOf(c)
      OBVIOUS
    <3>2. (1..old) \cup ((old + 1)..new) = 1..new
      BY <1>6
    <3> QED BY <2>1, <2>3, <3>1, <3>2
  <2>6. ASSUME NEW u \in DOMAIN shops'
        PROVE  LET paid == {d \in charges' : d.shop = u}
               IN  /\ UNION {YearsOf(d) : d \in paid} = 1..billedYears(shops'[u].start, shops'[u].close)
                   /\ \A d, e \in paid : d # e => YearsOf(d) \cap YearsOf(e) = {}
    <3>1. CASE u = s
      <4>1. {d \in charges' : d.shop = u} = before \cup {c}
        BY <1>11, <1>15, <2>2, <3>1
      <4>2. billedYears(shops'[u].start, shops'[u].close) = new
        BY <1>5, <1>13, <1>14, <3>1
      <4>3. \A d, e \in before \cup {c} : d # e => YearsOf(d) \cap YearsOf(e) = {}
        BY <2>3, <2>4
      <4> QED BY <2>5, <4>1, <4>2, <4>3
    <3>2. CASE u # s
      <4>1. {d \in charges' : d.shop = u} = {d \in charges : d.shop = u} /\ u \in DOMAIN shops /\ shops'[u] = shops[u]
        BY <1>11, <1>14, <1>15, <3>2
      <4> QED BY <1>1, <4>1 DEF TermsPaid
    <3> QED BY <3>1, <3>2
  <2> QED BY <2>6 DEF TermsPaid
<1>20. ReplaysAccepted'
  <2>1. ASSUME NEW u \in DOMAIN shops PROVE OriginalName(u)' = OriginalName(u)
    <3>1. shops'[u].history = shops[u].history /\ shops'[u].name = shops[u].name
      BY <1>13, <1>14
    <3> QED BY <3>1 DEF OriginalName
  <2>2. SameRenew(c, r)
    <3>1. c.kind = "renew" /\ c.shop = r.shop /\ c.close = r.close /\ r.actor = a /\ r.reason = reason /\ c.waiver = w
      BY <1>8, <1>9
    <3> QED BY <1>7, <3>1 DEF SameRenew
  <2>3. c.actor = r.actor /\ c.key = r.key /\ r.kind = "renew" /\ c \in charges' /\ charges \subseteq charges'
        /\ requests' = requests \cup {r}
    BY <1>8, <1>9, <1>11
  <2> QED BY <1>1, <2>1, <2>2, <2>3, ReplaysStay
<1> QED BY <1>16, <1>17, <1>18, <1>19, <1>20 DEF ShopsInv, RowsOK

-----------------------------------------------------------------------------
(* Every step.                                                              *)

LEMMA NextShops ==
  ASSUME ShopsInv, [Next]_vars
  PROVE  ShopsInv'
<1>1. TypeOK /\ TermsFit
  BY DEF ShopsInv, RowsOK
<1>2. /\ day \in 1..Len(Calendar) /\ attempts \in 0..MaxCreates /\ creating \subseteq Requests
      /\ \A t \in creating : TermOK(t.start, t.close)
      /\ bulks \subseteq [actor : Actors, key : Keys, selected : SUBSET DOMAIN shops]
      /\ granted \subseteq [actor : Actors, shop : DOMAIN shops, capability : ShopCapabilities]
      /\ work \subseteq DOMAIN shops
  BY <1>1 DEF TypeOK, TermsFit
<1>3. Len(Calendar) \in Nat /\ MaxCreates \in Nat
  BY <1>1, ScenarioFacts DEF TypeOK
<1>4. CASE UNCHANGED vars
  <2>1. Kept
    BY <1>1, <1>4, ShopsStay DEF vars, shopVars
  <2> QED BY <1>2, <1>4, <2>1, QuietStep DEF vars, shopVars
<1>5. CASE Next
  <2> USE <1>5
  <2>1. scenario' = scenario /\ Step
    BY DEF Next
  <2>2. CASE Tick
    <3>1. Kept
      BY <1>1, <2>2, ShopsStay DEF Tick
    <3>2. day' \in 1..Len(Calendar)
      BY <1>2, <1>3, <2>2 DEF Tick
    <3> QED BY <1>2, <2>1, <2>2, <3>1, <3>2, QuietStep DEF Tick
  <2>3. ASSUME NEW a \in Actors, NEW k \in Keys, NEW n \in Names, NEW start \in Starts, NEW close \in Closes,
               BeginCreate(a, k, n, start, close)
        PROVE  ShopsInv'
    <3>1. PICK t : t = [actor |-> a, key |-> k, name |-> n, start |-> start, close |-> close]
      OBVIOUS
    <3>2. t \in Requests /\ TermOK(t.start, t.close)
      BY <2>3, <3>1 DEF BeginCreate, Requests
    <3>3. /\ creating' = creating \cup {t} /\ attempts < MaxCreates /\ attempts' = attempts + 1
          /\ UNCHANGED <<day, shops, charges, requests, balance, ledger, bulks, granted, work>>
      BY <2>3, <3>1 DEF BeginCreate
    <3>4. attempts' \in 0..MaxCreates
      BY <1>2, <1>3, <3>3
    <3>5. Kept
      BY <1>1, <3>3, ShopsStay
    <3> QED BY <1>2, <2>1, <3>2, <3>3, <3>4, <3>5, QuietStep
  <2>4. ASSUME NEW a \in Actors, NEW k \in Keys, NEW s \in DOMAIN shops, NEW close \in Closes, NEW r \in Reasons,
               Renew(a, k, s, close, r)
        PROVE  ShopsInv'
    BY <2>1, <2>4, RenewKeeps
  <2>5. ASSUME NEW a \in Actors, NEW k \in Keys, NEW selected \in SUBSET DOMAIN shops, BulkTrash(a, k, selected)
        PROVE  ShopsInv'
    <3>1. Kept
      BY <1>1, <2>5, BulkTrashKeeps
    <3>2. bulks' \subseteq [actor : Actors, key : Keys, selected : SUBSET DOMAIN shops]
      BY <1>2, <2>5 DEF BulkTrash
    <3>3. UNCHANGED <<day, attempts, charges, requests, balance, ledger, creating, granted, work>>
      BY <2>5 DEF BulkTrash
    <3> QED BY <1>2, <2>1, <3>1, <3>2, <3>3, QuietStep
  <2>6. ASSUME NEW t \in creating, FinishCreate(t)
        PROVE  ShopsInv'
    BY <2>1, <2>6, FinishCreateKeeps
  <2>7. ASSUME (\E t \in creating : RefuseCreate(t)) \/ AbortDeadlocked
        PROVE  ShopsInv'
    <3>1. creating' \subseteq creating
          /\ UNCHANGED <<day, attempts, shops, charges, requests, balance, ledger, bulks, granted, work>>
      BY <2>7 DEF RefuseCreate, AbortDeadlocked
    <3>2. Kept
      BY <1>1, <3>1, ShopsStay
    <3>3. creating' \subseteq Requests /\ \A t \in creating' : TermOK(t.start, t.close)
      BY <1>2, <3>1
    <3> QED BY <1>2, <2>1, <3>1, <3>2, <3>3, QuietStep
  <2>8. ASSUME NEW a \in Actors, NEW s \in DOMAIN shops, NEW n \in Names, Rename(a, s, n)
        PROVE  ShopsInv'
    <3>1. Kept
      BY <1>1, <2>8, RenameKeeps
    <3>2. UNCHANGED <<day, attempts, charges, requests, balance, ledger, creating, bulks, granted, work>>
      BY <2>8 DEF Rename
    <3> QED BY <1>2, <2>1, <3>1, <3>2, QuietStep
  <2>9. ASSUME NEW a \in Actors, NEW s \in DOMAIN shops, Trash(a, s) \/ Restore(a, s) \/ Purge(a, s)
        PROVE  ShopsInv'
    <3>1. Kept
      BY <1>1, <2>9, BinKeeps
    <3>2. UNCHANGED <<day, attempts, charges, requests, balance, ledger, creating, bulks, granted, work>>
      BY <2>9 DEF Trash, Restore, Purge
    <3> QED BY <1>2, <2>1, <3>1, <3>2, QuietStep
  <2>10. ASSUME NEW a \in Actors, NEW s \in DOMAIN shops, NEW c \in {"UPLOAD", "RESULT_EXPORT"}, Authorize(a, s, c)
         PROVE  ShopsInv'
    <3>1. c \in ShopCapabilities
      BY DEF ShopCapabilities
    <3>2. granted' \subseteq [actor : Actors, shop : DOMAIN shops, capability : ShopCapabilities]
      BY <1>2, <2>10, <3>1 DEF Authorize
    <3>3. UNCHANGED <<day, attempts, shops, charges, requests, balance, ledger, creating, bulks, work>>
      BY <2>10 DEF Authorize
    <3>4. Kept
      BY <1>1, <3>3, ShopsStay
    <3> QED BY <1>2, <2>1, <3>2, <3>3, <3>4, QuietStep
  <2>11. CASE RefreshExpired
    <3>1. Kept
      BY <1>1, <2>11, RefreshKeeps
    <3>2. UNCHANGED <<day, attempts, charges, requests, balance, ledger, creating, bulks, granted, work>>
      BY <2>11 DEF RefreshExpired
    <3> QED BY <1>2, <2>1, <3>1, <3>2, QuietStep
  <2>12. ASSUME NEW g \in granted, StartWork(g)
         PROVE  ShopsInv'
    <3>1. g.shop \in DOMAIN shops
      BY <1>2
    <3>2. work' \subseteq DOMAIN shops /\ granted' \subseteq granted
          /\ UNCHANGED <<day, attempts, shops, charges, requests, balance, ledger, creating, bulks>>
      BY <1>2, <2>12, <3>1 DEF StartWork
    <3>3. Kept
      BY <1>1, <3>2, ShopsStay
    <3>4. granted' \subseteq [actor : Actors, shop : DOMAIN shops, capability : ShopCapabilities]
      BY <1>2, <3>2
    <3> QED BY <1>2, <2>1, <3>2, <3>3, <3>4, QuietStep
  <2>13. ASSUME NEW s \in work, EndWork(s)
         PROVE  ShopsInv'
    <3>1. work' \subseteq DOMAIN shops
          /\ UNCHANGED <<day, attempts, shops, charges, requests, balance, ledger, creating, bulks, granted>>
      BY <1>2, <2>13 DEF EndWork
    <3>2. Kept
      BY <1>1, <3>1, ShopsStay
    <3> QED BY <1>2, <2>1, <3>1, <3>2, QuietStep
  <2> QED BY <2>1, <2>2, <2>3, <2>4, <2>5, <2>6, <2>7, <2>8, <2>9, <2>10, <2>11, <2>12, <2>13 DEF Step
<1> QED BY <1>4, <1>5

LEMMA ShopsInit ==
  ASSUME Init
  PROVE  ShopsInv
<1>1. scenario \in Scenarios /\ Funds \in Nat /\ MaxCreates \in Nat /\ Len(Calendar) \in Nat /\ Len(Calendar) > 0
  BY ScenarioFacts DEF Init
<1>2. TypeOK
  BY <1>1 DEF Init, TypeOK
<1>3. TermsFit /\ TermsPaid /\ ReplaysAccepted /\ ChargesEntered /\ NeverOverdrawn
  BY <1>1 DEF Init, TermsFit, TermsPaid, ReplaysAccepted, ChargesEntered, NeverOverdrawn, Left
<1> QED BY <1>2, <1>3 DEF ShopsInv, RowsOK

-----------------------------------------------------------------------------

(* The inductive invariant holds in every reachable state.                  *)
THEOREM ShopsInvHolds == Spec => []ShopsInv
<1>1. Init => ShopsInv
  BY ShopsInit
<1>2. ShopsInv /\ [Next]_vars => ShopsInv'
  BY NextShops
<1> QED BY <1>1, <1>2, PTL DEF Spec

(* Every year of a shop's term is charged by exactly one creation or        *)
(* renewal, and the wallet never pays what it does not hold                 *)
(* (service.ts:654, 789, 805).                                              *)
THEOREM YearsPaidHolds == Spec => []YearsPaid
<1>1. ShopsInv => YearsPaid
  BY DEF ShopsInv, RowsOK, YearsPaid
<1> QED BY <1>1, ShopsInvHolds, PTL

(* A create or renew request that succeeded is answered again with its      *)
(* shop when it is repeated under its key, whatever happened to the shop    *)
(* in between (service.ts:587, 768).                                        *)
THEOREM ReplaysAcceptedHolds == Spec => []ReplaysAccepted
<1>1. ShopsInv => ReplaysAccepted
  BY DEF ShopsInv
<1> QED BY <1>1, ShopsInvHolds, PTL

-----------------------------------------------------------------------------
(* The page of a shop.  Its steps are derived from the rows of the shop's   *)
(* latest batch; Workflow has variables of its own for what it reads.       *)

Found == {"UPLOADING", "ANALYZING", "NO_FILES", "COMMITTING", "COMMIT_FAILED", "NO_CAPACITY",
          "COMMITTED", "EXCLUDED", "HARD", "REQUEST_BLOCKED", "CALCULATING", "RUN_BLOCKED",
          "CALC_FAILED", "REVIEW", "PUBLISHING", "PUBLISH_FAILED", "PUBLISHED"}

(* The table, row by row.                                                  *)
LEMMA SituationFacts ==
  /\ DOMAIN Situations = Found
  /\ \A b \in Found :
       LET row == Situations[b]
       IN  /\ row.status = CASE b = "UPLOADING" -> "UPLOADING" [] b = "ANALYZING" -> "ANALYZING"
                   [] b = "COMMITTING" -> "COMMITTING" [] b = "COMMITTED" -> "COMMITTED"
                   [] b = "EXCLUDED" -> "COMMITTED_WITH_EXCLUSIONS" [] b = "CALCULATING" -> "CALCULATING"
                   [] b \in {"REVIEW", "PUBLISH_FAILED"} -> "READY_FOR_REVIEW"
                   [] b = "PUBLISHING" -> "RESULT_PUBLISHING" [] b = "PUBLISHED" -> "RESULT_PUBLISHED"
                   [] OTHER -> "FAILED"
           /\ b \in {"NO_FILES", "COMMIT_FAILED", "NO_CAPACITY", "HARD", "REQUEST_BLOCKED"} => row.issue
           /\ b = "NO_FILES" => row.words = {}
           /\ b = "COMMIT_FAILED" => row.words = {"COMMIT"}
           /\ b = "NO_CAPACITY" => row.words = {"COMMIT", "DATABASE_CAPACITY"}
           /\ b \in {"HARD", "REQUEST_BLOCKED", "RUN_BLOCKED", "CALC_FAILED"} => row.words = {"CALCULAT"}
           /\ row.code = IF b = "HARD" THEN "HARD" ELSE IF b = "PUBLISH_FAILED" THEN "AUTO_PUBLISH_FAILED"
                         ELSE IF row.status = "FAILED" THEN "OTHER" ELSE "NONE"
BY DEF Situations, Situation, Found

(* View chooses the one view there is.                                      *)
LEMMA ViewIs ==
  ASSUME NEW s
  PROVE View(s) = ViewOf(Input(s), StepsOf(Input(s)))
BY DEF View

Exported == {"NONE", "QUEUED", "RUNNING", "SUCCEEDED", "FAILED", "REVOKED"}

(* What getWorkflow reads of a shop.                                       *)
Readable(in) ==
  /\ \/ in.batch = "NONE" /\ in.status = "NONE"
     \/ in.batch \in Found /\ in.status = Situations[in.batch].status
  /\ in.export \in Exported
  /\ in.published \in BOOLEAN /\ in.canManage \in BOOLEAN /\ in.workerDown \in BOOLEAN /\ in.blocked \in BOOLEAN
  /\ in.workerDown => in.status \in WorkerStatuses \/ Active(in.export)
  /\ in.blocked => \E queues \in SUBSET Queues : RecoveryBlocked(in.batch, in.status, in.export, queues)

LEMMA InputFacts ==
  ASSUME ShellTypeOK, NEW s \in Shops
  PROVE  /\ Readable(Input(s))
         /\ Input(s).batch = IF Hidden(s) THEN "NONE" ELSE Last(batches[s]).at
         /\ Input(s).matches <=> snapshot[s] = IF Hidden(s) THEN 0 ELSE Last(batches[s]).id
         /\ Input(s).published <=> snapshot[s] # 0
         /\ Input(s).status = "NONE" <=> Hidden(s)
<1> DEFINE b == IF Hidden(s) THEN "NONE" ELSE Last(batches[s]).at
           e == IF snapshot[s] # 0 /\ CanExport THEN export[s] ELSE "NONE"
           st == IF b = "NONE" THEN "NONE" ELSE Situations[b].status
<1>1. /\ batches[s] \in Seq([id : 1 .. MaxMoves + 2, at : Found]) /\ export[s] \in Exported
      /\ stuck[s] \in SUBSET Queues /\ worker \in BOOLEAN
  <2>1. batches \in [Shops -> Seq([id : 1 .. MaxMoves + 2, at : Found])]
    BY SituationFacts DEF ShellTypeOK
  <2>2. export \in [Shops -> Exported] /\ stuck \in [Shops -> SUBSET Queues] /\ worker \in BOOLEAN
    BY DEF ShellTypeOK, Exported
  <2> QED BY <2>1, <2>2
<1>2. ~Hidden(s) => Last(batches[s]).at \in Found
  <2> SUFFICES ASSUME batches[s] # << >> PROVE batches[s][Len(batches[s])].at \in Found
    BY DEF Hidden, Last
  <2>1. Len(batches[s]) \in 1 .. Len(batches[s])
    BY <1>1
  <2>2. batches[s][Len(batches[s])] \in [id : 1 .. MaxMoves + 2, at : Found]
    BY <1>1, <2>1, ElementOfSeq
  <2> QED BY <2>2
<1>3. b \in Found \cup {"NONE"} /\ (b = "NONE" <=> Hidden(s)) /\ e \in Exported
  BY <1>1, <1>2 DEF Found, Exported
<1>4. st = "NONE" <=> b = "NONE"
  BY <1>3, SituationFacts DEF Found
<1>5. /\ Input(s).batch = b /\ Input(s).status = st /\ Input(s).export = e
      /\ Input(s).published = (snapshot[s] # 0)
      /\ Input(s).matches = (snapshot[s] = IF Hidden(s) THEN 0 ELSE Last(batches[s]).id)
      /\ Input(s).canManage = (Access # "CUSTOMER" /\ s \notin Closed)
      /\ Input(s).workerDown = ((st \in WorkerStatuses \/ Active(e)) /\ ~worker)
      /\ Input(s).blocked = ((b # "NONE" \/ e # "NONE") /\ RecoveryBlocked(b, st, e, stuck[s]))
  BY DEF Input
<1> HIDE DEF b, e, st
<1>6. b \in Found => st = Situations[b].status
  BY DEF st, Found
<1>7. b = "NONE" => st = "NONE"
  BY DEF st
<1>8. Readable(Input(s))
  BY <1>1, <1>3, <1>5, <1>6, <1>7 DEF Readable
<1> QED BY <1>3, <1>4, <1>5, <1>8 DEF b

LEMMA StepFields ==
  ASSUME NEW p \in BOOLEAN, NEW c \in BOOLEAN, NEW x \in BOOLEAN, NEW k
  PROVE  LET step == WorkflowStep(p, c, x, k)
         IN  /\ step.blocking <=> x
             /\ step.state = "IN_PROGRESS" <=> p
             /\ step.state = "COMPLETED" <=> ~p /\ c
BY DEF WorkflowStep

(* The steps of what was read.                                             *)
LEMMA StepFacts ==
  ASSUME NEW in, Readable(in)
  PROVE  LET steps == StepsOf(in)
         IN  /\ Failed(in) => \E i \in 1 .. 5 : steps[i].blocking
             /\ (in.workerDown \/ in.blocked) /\ (\E i \in 1 .. 6 : steps[i].state = "IN_PROGRESS")
                  => \E i \in 1 .. 6 : steps[i].blocking
             /\ \A i, j \in 1 .. 5 : i < j /\ steps[j].state = "COMPLETED" => steps[i].state = "COMPLETED"
<1> DEFINE steps == StepsOf(in)
<1>1. /\ steps[1] = Receive(in) /\ steps[2] = Preflight(in) /\ steps[3] = CommitStep(in)
      /\ steps[4] = Calculate(in) /\ steps[5] = Publish(in) /\ steps[6] = Export(in)
      /\ DOMAIN steps = 1 .. 6
  BY DEF StepsOf
<1> HIDE DEF steps
<1>2. Failed(in) => steps[2].blocking \/ steps[3].blocking \/ steps[4].blocking
  <2> SUFFICES ASSUME Failed(in) PROVE steps[2].blocking \/ steps[3].blocking \/ steps[4].blocking
    OBVIOUS
  <2>1. in.batch \in {"NO_FILES", "COMMIT_FAILED", "NO_CAPACITY", "HARD", "REQUEST_BLOCKED", "RUN_BLOCKED", "CALC_FAILED"}
    BY SituationFacts DEF Readable, Failed, Found
  <2>2. CASE in.batch \in {"NO_FILES", "COMMIT_FAILED", "NO_CAPACITY", "HARD", "REQUEST_BLOCKED"}
    BY <1>1, <2>2, SituationFacts DEF Preflight, WorkflowStep, Found
  <2>3. CASE in.batch \in {"RUN_BLOCKED", "CALC_FAILED"}
    <3>1. Code(in) = "OTHER" /\ CalculationOf(in.batch) \in {"BLOCKED", "FAILED"}
      BY <2>3, SituationFacts DEF Code, Found, CalculationOf
    <3> QED BY <1>1, <3>1 DEF Calculate, WorkflowStep
  <2> QED BY <2>1, <2>2, <2>3
<1>3. (in.workerDown \/ in.blocked) /\ (\E i \in 1 .. 6 : steps[i].state = "IN_PROGRESS")
        => \E i \in 1 .. 6 : steps[i].blocking
  <2> SUFFICES ASSUME in.workerDown \/ in.blocked, NEW i \in 1 .. 6, steps[i].state = "IN_PROGRESS"
               PROVE  \E k \in 1 .. 6 : steps[k].blocking
    OBVIOUS
  <2>1. CASE Active(in.export)
    <3>1. steps[6].blocking
      BY <1>1, <2>1, StepFields DEF Export, DownloadAvailable
    <3> QED BY <2>1, <3>1
  <2>2. CASE ~Active(in.export) /\ i = 1
    <3>1. in.status \in {"DRAFT", "UPLOADING"}
      BY <1>1, <2>2 DEF Receive, WorkflowStep
    <3>2. in.blocked
      BY <2>2, <3>1 DEF Readable, WorkerStatuses
    <3>3. steps[1].blocking
      <4> DEFINE p == in.status \in {"DRAFT", "UPLOADING"}
                 c == in.batch # "NONE" \/ in.published
                 x == in.blocked /\ p
      <4>1. p \in BOOLEAN /\ c \in BOOLEAN /\ x \in BOOLEAN /\ x
        BY <3>1, <3>2 DEF Readable
      <4>2. steps[1] = WorkflowStep(p, c, x, in.canManage)
        BY <1>1 DEF Receive
      <4> HIDE DEF p, c, x
      <4>3. WorkflowStep(p, c, x, in.canManage).blocking = x
        BY DEF WorkflowStep
      <4> QED BY <4>1, <4>2, <4>3
    <3> QED BY <3>3
  <2>3. CASE ~Active(in.export) /\ i = 2
    <3>1. in.status \in {"ANALYZING", "AWAITING_FILES", "AWAITING_MAPPING", "RETRYING"}
      BY <1>1, <2>3 DEF Preflight, WorkflowStep
    <3>2. steps[2].blocking
      BY <1>1, <2>3, <3>1 DEF Readable, Preflight, WorkflowStep
    <3> QED BY <3>2
  <2>4. CASE ~Active(in.export) /\ i = 3
    <3>1. in.status = "COMMITTING"
      BY <1>1, <2>4 DEF CommitStep, WorkflowStep
    <3>2. steps[3].blocking
      BY <1>1, <2>4, <3>1 DEF Readable, CommitStep, WorkflowStep
    <3> QED BY <3>2
  <2>5. CASE ~Active(in.export) /\ i = 4
    <3>1. in.status \in {"COMMITTED", "COMMITTED_WITH_EXCLUSIONS", "CALCULATING"}
      BY <1>1, <2>5 DEF Calculate, WorkflowStep
    <3>2. in.batch \in {"COMMITTED", "EXCLUDED", "CALCULATING"}
      BY <3>1, SituationFacts DEF Readable, Found
    <3>3. Code(in) # "HARD"
      BY <3>2, SituationFacts DEF Code, Found
    <3>4. steps[4].blocking
      BY <1>1, <2>5, <3>1, <3>3 DEF Readable, Calculate, WorkflowStep
    <3> QED BY <3>4
  <2>6. CASE ~Active(in.export) /\ i = 5
    <3>1. in.status \in {"READY_FOR_REVIEW", "RESULT_PUBLISHING"} /\ Code(in) = "NONE"
      BY <1>1, <2>6 DEF Publish, WorkflowStep
    <3>2. steps[5].blocking
      BY <1>1, <2>6, <3>1 DEF Readable, Publish, WorkflowStep
    <3> QED BY <3>2
  <2>7. CASE ~Active(in.export) /\ i = 6
    BY <1>1, <2>7 DEF Export, WorkflowStep
  <2> QED BY <2>1, <2>2, <2>3, <2>4, <2>5, <2>6, <2>7
<1> DEFINE C(k) == steps[k].state = "COMPLETED"
<1>4. Historical(in) => in.batch = "NONE" /\ in.status = "NONE" /\ in.published
  BY DEF Historical, Readable, Found
<1>5. C(1) <=> in.status \notin {"DRAFT", "UPLOADING"} /\ (in.batch # "NONE" \/ in.published)
  BY <1>1 DEF Receive, WorkflowStep
<1>6. C(2) <=> /\ in.status \notin {"ANALYZING", "AWAITING_FILES", "AWAITING_MAPPING", "RETRYING"}
               /\ PreflightDone(in)
  BY <1>1 DEF Preflight, WorkflowStep
<1>7. C(3) <=> in.status # "COMMITTING" /\ CommitDone(in)
  BY <1>1 DEF CommitStep, WorkflowStep
<1>8. C(4) <=> /\ in.status \notin {"COMMITTED", "COMMITTED_WITH_EXCLUSIONS", "CALCULATING"}
               /\ CalculationDone(in)
  BY <1>1 DEF Calculate, WorkflowStep
<1>9. C(5) => Historical(in) \/ in.status = "RESULT_PUBLISHED"
  BY <1>1 DEF Publish, WorkflowStep
<1> HIDE DEF C
<1>10. C(5) => C(4)
  BY <1>4, <1>8, <1>9 DEF CalculationDone
<1>11. C(4) => C(3)
  BY <1>4, <1>7, <1>8 DEF CalculationDone, CommitDone, CommitCompleted
<1>12. CommitDone(in) /\ in.status # "COMMITTING" =>
         /\ PreflightDone(in)
         /\ in.status \notin {"ANALYZING", "AWAITING_FILES", "AWAITING_MAPPING", "RETRYING"}
  BY <1>4 DEF CommitDone, PreflightDone, CommitCompleted, PreflightCompleted,
     Failed, Mentions
<1>13. C(3) => C(2)
  BY <1>6, <1>7, <1>12
<1>14. PreflightDone(in) => in.status \notin {"DRAFT", "UPLOADING"} /\ (in.batch # "NONE" \/ in.published)
  <2>1. PreflightDone(in) => Historical(in) \/ in.status \in PreflightCompleted \/ in.status = "FAILED"
    BY DEF PreflightDone, Failed
  <2>2. in.status \in PreflightCompleted \/ in.status = "FAILED" => in.batch # "NONE"
    BY DEF Readable, Found, PreflightCompleted, CommitCompleted
  <2> QED BY <1>4, <2>1, <2>2 DEF PreflightCompleted, CommitCompleted
<1>15. C(2) => C(1)
  BY <1>5, <1>6, <1>14
<1>16. ASSUME NEW i \in 1 .. 5, NEW j \in 1 .. 5, i < j, C(j) PROVE C(i)
  <2>1. CASE j = 5
    <3>1. C(1) /\ C(2) /\ C(3) /\ C(4)
      BY <1>10, <1>11, <1>13, <1>15, <1>16, <2>1
    <3>2. i = 1 \/ i = 2 \/ i = 3 \/ i = 4
      BY <1>16, <2>1
    <3> QED BY <3>1, <3>2
  <2>2. CASE j = 4
    <3>1. C(1) /\ C(2) /\ C(3)
      BY <1>11, <1>13, <1>15, <1>16, <2>2
    <3>2. i = 1 \/ i = 2 \/ i = 3
      BY <1>16, <2>2
    <3> QED BY <3>1, <3>2
  <2>3. CASE j = 3
    <3>1. C(1) /\ C(2)
      BY <1>13, <1>15, <1>16, <2>3
    <3>2. i = 1 \/ i = 2
      BY <1>16, <2>3
    <3> QED BY <3>1, <3>2
  <2>4. CASE j = 2
    <3>1. C(1) /\ i = 1
      BY <1>15, <1>16, <2>4
    <3> QED BY <3>1
  <2> QED BY <1>16, <2>1, <2>2, <2>3, <2>4
<1> QED BY <1>2, <1>3, <1>16 DEF C, steps

LEMMA CurrentInRange ==
  ASSUME NEW in
  PROVE  CurrentStep(StepsOf(in)) \in 1 .. 6
<1> DEFINE steps == StepsOf(in)
           todo == {i \in DOMAIN steps : steps[i].state # "COMPLETED" /\ steps[i].clickable}
           open == {i \in DOMAIN steps : steps[i].clickable}
<1>1. DOMAIN steps = 1 .. 6
  BY DEF StepsOf
<1> HIDE DEF steps
<1>2. todo \in SUBSET (1 .. 6) /\ open \in SUBSET (1 .. 6)
  BY <1>1
<1>3. CurrentStep(steps) = IF todo # {} THEN Min(todo) ELSE IF open # {} THEN Max(open) ELSE 1
  BY DEF CurrentStep
<1> HIDE DEF todo, open
<1>4. ASSUME NEW S \in SUBSET (1 .. 6), S # {} PROVE Min(S) \in S
  <2>1. S \in SUBSET Nat /\ Min(S) = Min(S)
    BY <1>4 DEF Min, Min
  <2> QED BY <1>4, <2>1, LeastExists
<1>5. ASSUME NEW S \in SUBSET (1 .. 6), S # {} PROVE Max(S) \in S
  <2> DEFINE T == {7 - n : n \in S}
  <2>1. T \in SUBSET Nat /\ T # {}
    BY <1>5
  <2>2. PICK m \in S : Min(T) = 7 - m
    <3>1. Min(T) \in T
      BY <2>1, LeastExists
    <3> QED BY <3>1
  <2>3. \A n \in S : 7 - m <= 7 - n
    BY <2>1, <2>2, LeastExists
  <2>4. \A n \in S : m >= n
    BY <2>3
  <2>5. \E x \in S : \A y \in S : x >= y
    BY <2>4
  <2>6. Max(S) = CHOOSE x \in S : \A y \in S : x >= y
    BY DEF Max
  <2> QED BY <2>5, <2>6
<1>6. todo # {} => Min(todo) \in 1 .. 6
  BY <1>2, <1>4
<1>7. open # {} => Max(open) \in 1 .. 6
  BY <1>2, <1>5
<1>8. CurrentStep(steps) \in 1 .. 6
  BY <1>3, <1>6, <1>7
<1> QED BY <1>8 DEF steps

(* A request under way, and what it may have been answered with.            *)
Requested(r) == \E latest \in BOOLEAN, s \in Shops : \E view :
  /\ r = [latest |-> latest, shop |-> s, view |-> view]
  /\ view # Nothing => view[1].current \in 1 .. 6

(* Batches are numbered in their order; the snapshot's is published.        *)
Numbered(s) ==
  /\ snapshot[s] <= moves + 1
  /\ \A n \in DOMAIN batches[s] :
       /\ batches[s][n].id <= moves + 1
       /\ batches[s][n].id = snapshot[s] => batches[s][n].at = "PUBLISHED"
       /\ \A m \in DOMAIN batches[s] : m < n => batches[s][m].id < batches[s][n].id

PageInv ==
  /\ ShellTypeOK
  /\ \A s \in Shops : Numbered(s)
  /\ \A r \in inflight : Requested(r)

LEMMA StepsTell == PageInv => StepsTrue
<1> SUFFICES ASSUME PageInv PROVE StepsTrue
  OBVIOUS
<1>1. ShellTypeOK
  BY DEF PageInv
<1>2. ASSUME NEW s \in Shops
      PROVE  /\ View(s).steps = StepsOf(Input(s))
             /\ DOMAIN View(s).steps = 1 .. 6
             /\ View(s).workerDown = Input(s).workerDown /\ View(s).blocked = Input(s).blocked
             /\ View(s).download = DownloadAvailable(Input(s))
  <2>1. DOMAIN StepsOf(Input(s)) = 1 .. 6
    BY DEF StepsOf
  <2>2. ASSUME NEW in, NEW steps
        PROVE  LET v == ViewOf(in, steps)
               IN  /\ v.steps = steps /\ v.workerDown = in.workerDown /\ v.blocked = in.blocked
                   /\ v.download = DownloadAvailable(in)
    BY DEF ViewOf
  <2>3. View(s) = ViewOf(Input(s), StepsOf(Input(s)))
    BY ViewIs
  <2> QED BY <2>1, <2>2, <2>3
<1>3. FailureVisible
  <2> SUFFICES ASSUME NEW s \in Shops, Failed(Input(s))
               PROVE  \E i \in DOMAIN Phases : PhaseBlocking(View(s), Phases[i])
    BY DEF FailureVisible
  <2>1. PICK i \in 1 .. 5 : View(s).steps[i].blocking
    BY <1>1, <1>2, InputFacts, StepFacts
  <2>2. i \in Phases[1] \/ i \in Phases[2]
    BY DEF Phases
  <2>3. 1 \in DOMAIN Phases /\ 2 \in DOMAIN Phases
    BY DEF Phases
  <2> QED BY <2>1, <2>2, <2>3 DEF PhaseBlocking
<1>4. StuckVisible
  <2> SUFFICES ASSUME NEW s \in Shops, View(s).workerDown \/ View(s).blocked,
                      InProgress(View(s))
               PROVE  BlockingSteps(View(s)) # {}
    BY DEF StuckVisible
  <2>1. PICK i \in 1 .. 6 : View(s).steps[i].state = "IN_PROGRESS"
    BY <1>2 DEF InProgress
  <2>2. PICK k \in 1 .. 6 : View(s).steps[k].blocking
    BY <1>1, <1>2, <2>1, InputFacts, StepFacts
  <2> QED BY <1>2, <2>2 DEF BlockingSteps
<1>5. StepsInOrder
  BY <1>1, <1>2, InputFacts, StepFacts DEF StepsInOrder
<1>6. DownloadIsCurrent
  <2> SUFFICES ASSUME NEW s \in Shops, ~Hidden(s), View(s).download
               PROVE  Last(batches[s]).at = "PUBLISHED" /\ snapshot[s] = Last(batches[s]).id
    BY DEF DownloadIsCurrent
  <2>1. Input(s).batch # "NONE"
    BY <1>1, InputFacts, SituationFacts DEF Readable, Found
  <2>2. snapshot[s] = Last(batches[s]).id
    BY <1>1, <1>2, <2>1, InputFacts DEF DownloadAvailable
  <2>3. batches[s] # << >> /\ batches[s] \in Seq([id : 1 .. MaxMoves + 2, at : DOMAIN Situations])
    BY <1>1 DEF Hidden, ShellTypeOK
  <2>4. Len(batches[s]) \in DOMAIN batches[s]
    BY <2>3
  <2> QED BY <2>2, <2>4 DEF PageInv, Numbered, Last
<1> QED BY <1>1, <1>3, <1>4, <1>5, <1>6 DEF StepsTrue

LEMMA PageFixed ==
  ASSUME visit' = visit
  PROVE  /\ Shops' = Shops /\ Access' = Access /\ MaxMoves' = MaxMoves
         /\ Hangs' = Hangs
BY DEF Shops, Access, MaxMoves, Hangs

LEMMA PageInit == VisitsFit /\ ShellInit => PageInv
<1> SUFFICES ASSUME VisitsFit, ShellInit PROVE PageInv
  OBVIOUS
<1>1. Begin \subseteq Found /\ MaxMoves \in Nat /\ visit \in Visits
  BY SituationFacts DEF VisitsFit, ShellInit, Begin, MaxMoves
<1>2. ASSUME NEW s \in Shops
      PROVE  \/ batches[s] = << >> /\ snapshot[s] = 0
             \/ \E b \in Found : batches[s] = <<[id |-> 1, at |-> b]>> /\ snapshot[s] = IF b = "PUBLISHED" THEN 1 ELSE 0
  BY <1>1 DEF ShellInit
<1>3. batches \in [Shops -> Seq([id : 1 .. MaxMoves + 2, at : DOMAIN Situations])]
  <2>1. ASSUME NEW s \in Shops PROVE batches[s] \in Seq([id : 1 .. MaxMoves + 2, at : Found])
    <3>1. 1 \in 1 .. MaxMoves + 2
      BY <1>1
    <3>2. ASSUME NEW b \in Found PROVE [id |-> 1, at |-> b] \in [id : 1 .. MaxMoves + 2, at : Found]
      BY <3>1
    <3>3. ASSUME NEW b \in Found PROVE <<[id |-> 1, at |-> b]>> \in Seq([id : 1 .. MaxMoves + 2, at : Found])
      BY <3>2
    <3>4. << >> \in Seq([id : 1 .. MaxMoves + 2, at : Found])
      OBVIOUS
    <3> QED BY <1>2, <3>3, <3>4
  <2>2. DOMAIN batches = Shops /\ batches = [s \in Shops |-> batches[s]]
    BY DEF ShellInit
  <2> QED BY <2>1, <2>2, SituationFacts
<1>4. ShellTypeOK
  <2>1. snapshot \in [Shops -> 0 .. MaxMoves + 2]
    BY <1>1 DEF ShellInit
  <2>2. /\ export \in [Shops -> Exported]
        /\ worker \in BOOLEAN /\ stuck \in [Shops -> SUBSET Queues] /\ moves \in 0 .. MaxMoves
        /\ shopId \in Shops /\ viewStatus \in {"loading", "ready", "error"} /\ loading \in BOOLEAN
        /\ \A r \in inflight : r.latest \in BOOLEAN /\ r.shop \in Shops
        /\ shown = Nothing
    BY <1>1 DEF ShellInit, Exported
  <2> QED BY <1>1, <1>3, <2>1, <2>2 DEF ShellTypeOK, Exported
<1>5. ASSUME NEW s \in Shops PROVE Numbered(s)
  <2>1. moves = 0
    BY DEF ShellInit
  <2>2. CASE batches[s] = << >> /\ snapshot[s] = 0
    BY <2>1, <2>2 DEF Numbered
  <2>3. ASSUME NEW b \in Found, batches[s] = <<[id |-> 1, at |-> b]>>, snapshot[s] = IF b = "PUBLISHED" THEN 1 ELSE 0
        PROVE  Numbered(s)
    BY <2>1, <2>3 DEF Numbered
  <2> QED BY <1>2, <2>2, <2>3
<1>6. \A r \in inflight : Requested(r)
  BY DEF ShellInit, Requested
<1> QED BY <1>4, <1>5, <1>6 DEF PageInv

LEMMA PageFacts ==
  ASSUME ShellTypeOK, VisitsFit
  PROVE  /\ MaxMoves \in Nat /\ moves \in Nat /\ Hangs \subseteq Queues
         /\ snapshot \in [Shops -> Nat] /\ DOMAIN batches = Shops
         /\ export \in [Shops -> Exported] /\ stuck \in [Shops -> SUBSET Queues]
         /\ \A s \in Shops : /\ batches[s] \in Seq([id : 1 .. MaxMoves + 2, at : Found])
                                  /\ DOMAIN batches[s] = 1 .. Len(batches[s]) /\ Len(batches[s]) \in Nat
                                  /\ \A n \in DOMAIN batches[s] : batches[s][n] \in [id : Nat, at : Found]
<1>1. MaxMoves \in Nat /\ Hangs \subseteq Queues
  BY DEF ShellTypeOK, VisitsFit, MaxMoves, Hangs
<1>2. moves \in Nat
  BY <1>1 DEF ShellTypeOK
<1>3. snapshot \in [Shops -> Nat]
  BY <1>1 DEF ShellTypeOK
<1>4. batches \in [Shops -> Seq([id : 1 .. MaxMoves + 2, at : Found])]
  BY SituationFacts DEF ShellTypeOK
<1>5. export \in [Shops -> Exported] /\ stuck \in [Shops -> SUBSET Queues]
  BY DEF ShellTypeOK, Exported
<1>6. ASSUME NEW s \in Shops
      PROVE  /\ batches[s] \in Seq([id : 1 .. MaxMoves + 2, at : Found])
             /\ DOMAIN batches[s] = 1 .. Len(batches[s]) /\ Len(batches[s]) \in Nat
             /\ \A n \in DOMAIN batches[s] : batches[s][n] \in [id : Nat, at : Found]
  <2>1. batches[s] \in Seq([id : 1 .. MaxMoves + 2, at : Found])
    BY <1>4
  <2>2. DOMAIN batches[s] = 1 .. Len(batches[s]) /\ Len(batches[s]) \in Nat
    BY <2>1
  <2>3. ASSUME NEW n \in DOMAIN batches[s] PROVE batches[s][n] \in [id : 1 .. MaxMoves + 2, at : Found]
    BY <2>1, <2>2, <2>3, ElementOfSeq
  <2>4. 1 .. MaxMoves + 2 \subseteq Nat
    BY <1>1
  <2> QED BY <2>1, <2>2, <2>3, <2>4
<1> QED BY <1>1, <1>2, <1>3, <1>4, <1>5, <1>6

(* The page moves, the server stays.                                        *)
LEMMA PageMoves ==
  ASSUME PageInv, VisitsFit, visit' = visit, UNCHANGED server,
         moves' = moves \/ (moves < MaxMoves /\ moves' = moves + 1),
         shopId' \in Shops, viewStatus' \in {"loading", "ready", "error"}, loading' \in BOOLEAN,
         \A r \in inflight' : Requested(r),
         shown' = shown \/ shown'[1].view.current \in 1 .. 6
  PROVE  PageInv'
<1>1. /\ MaxMoves \in Nat /\ moves \in Nat /\ moves \in 0 .. MaxMoves
      /\ UNCHANGED <<batches, snapshot, export, worker, stuck>>
  BY PageFacts DEF PageInv, ShellTypeOK, server
<1>2. moves' \in 0 .. MaxMoves /\ moves <= moves' /\ moves' \in Nat
  BY <1>1
<1>3. \A r \in inflight' : r.latest \in BOOLEAN /\ r.shop \in Shops
  BY DEF Requested
<1>4. \A r : Requested(r)' <=> Requested(r)
  BY PageFixed DEF Requested, Nothing
<1>5. ShellTypeOK'
  <2>1. shown' # Nothing => shown'[1].view.current \in 1 .. 6
    BY DEF PageInv, ShellTypeOK
  <2> QED BY <1>1, <1>2, <1>3, <2>1, PageFixed DEF PageInv, ShellTypeOK, Nothing, Situations, Situation, Queues
<1>6. ASSUME NEW s \in Shops PROVE Numbered(s)'
  <2>1. Numbered(s)
    BY DEF PageInv
  <2>2. /\ snapshot[s] \in Nat
        /\ \A n \in DOMAIN batches[s] : batches[s][n].id \in Nat
    BY PageFacts DEF PageInv
  <2> QED BY <1>1, <1>2, <2>1, <2>2 DEF Numbered
<1> QED BY <1>4, <1>5, <1>6, PageFixed DEF PageInv

(* The server moves, the page stays.                                        *)
LEMMA WorkflowMoves ==
  ASSUME PageInv, VisitsFit, visit' = visit, UNCHANGED page,
         moves < MaxMoves, moves' = moves + 1,
         batches' \in [Shops -> Seq([id : 1 .. MaxMoves + 2, at : Found])],
         snapshot' \in [Shops -> 0 .. MaxMoves + 2],
         export' \in [Shops -> Exported], worker' \in BOOLEAN, stuck' \in [Shops -> SUBSET Queues],
         \A s \in Shops : Numbered(s)'
  PROVE  PageInv'
<1>1. /\ MaxMoves \in Nat /\ moves \in 0 .. MaxMoves
      /\ UNCHANGED <<shopId, shown, viewStatus, loading, inflight, dismissed>>
  BY PageFacts DEF PageInv, ShellTypeOK, page
<1>2. moves' \in 0 .. MaxMoves
  BY <1>1
<1>3. \A r : Requested(r)' <=> Requested(r)
  BY PageFixed DEF Requested, Nothing
<1>4. ShellTypeOK'
  <2>1. DOMAIN Situations' = Found /\ Queues' = Queues
    BY SituationFacts DEF Situations, Situation, Queues
  <2>2. batches' \in [Shops' -> Seq([id : 1 .. MaxMoves' + 2, at : DOMAIN Situations'])]
    BY <2>1, PageFixed
  <2> QED BY <1>1, <1>2, <2>1, <2>2, PageFixed DEF PageInv, ShellTypeOK, Nothing, Exported
<1> QED BY <1>1, <1>3, <1>4, PageFixed DEF PageInv

(* The requests after one more was sent.                                    *)
LEMMA RequestKept ==
  ASSUME NEW s \in Shops, \A r \in inflight : Requested(r), Request(s)
  PROVE  loading' \in BOOLEAN /\ \A r \in inflight' : Requested(r)
<1>1. ASSUME NEW r, Requested(r) PROVE Requested([r EXCEPT !.latest = FALSE])
  <2>1. PICK latest \in BOOLEAN, t \in Shops : \E view :
          /\ r = [latest |-> latest, shop |-> t, view |-> view]
          /\ view # Nothing => view[1].current \in 1 .. 6
    BY <1>1 DEF Requested
  <2>2. PICK view : /\ r = [latest |-> latest, shop |-> t, view |-> view]
                    /\ view # Nothing => view[1].current \in 1 .. 6
    BY <2>1
  <2>3. [r EXCEPT !.latest = FALSE] = [latest |-> FALSE, shop |-> t, view |-> view]
    <3>1. ASSUME NEW x, NEW y, NEW z, NEW w
          PROVE  [[latest |-> x, shop |-> y, view |-> z] EXCEPT !.latest = w] = [latest |-> w, shop |-> y, view |-> z]
      OBVIOUS
    <3>2. PICK w : w = FALSE
      OBVIOUS
    <3>3. [r EXCEPT !.latest = w] = [latest |-> w, shop |-> t, view |-> view]
      BY <2>2, <3>1
    <3> QED BY <3>2, <3>3, Zenon
  <2> QED BY <2>2, <2>3 DEF Requested
<1>2. Requested([latest |-> TRUE, shop |-> s, view |-> Nothing])
  BY DEF Requested
<1>3. inflight' = {[r EXCEPT !.latest = FALSE] : r \in inflight}
                    \cup {[latest |-> TRUE, shop |-> s, view |-> Nothing]} /\ loading' = TRUE
  BY DEF Request
<1> QED BY <1>1, <1>2, <1>3

LEMMA PageStepKeeps ==
  ASSUME PageInv, VisitsFit, visit' = visit,
         \/ \E r \in inflight : ServeView(r) \/ Answer(r) \/ Fail(r)
         \/ Poll \/ Retry \/ Dismiss \/ \E s \in Shops : Visit(s)
  PROVE  PageInv'
<1>1. /\ shopId \in Shops /\ viewStatus \in {"loading", "ready", "error"} /\ loading \in BOOLEAN
      /\ \A r \in inflight : Requested(r) /\ r.latest \in BOOLEAN /\ r.shop \in Shops
  BY DEF PageInv, ShellTypeOK
<1>2. ASSUME NEW r \in inflight, ServeView(r) PROVE PageInv'
  <2>1. View(r.shop).current \in 1 .. 6
    <3>1. View(r.shop) = ViewOf(Input(r.shop), StepsOf(Input(r.shop)))
      BY ViewIs
    <3>2. View(r.shop).current = CurrentStep(StepsOf(Input(r.shop)))
      BY <3>1 DEF ViewOf
    <3> QED BY <3>2, CurrentInRange
  <2>2. Requested([r EXCEPT !.view = <<View(r.shop)>>])
    <3>1. PICK v : v = View(r.shop)
      OBVIOUS
    <3>2. PICK latest \in BOOLEAN, t \in Shops : \E view : r = [latest |-> latest, shop |-> t, view |-> view]
      BY <1>1 DEF Requested
    <3>3. [r EXCEPT !.view = <<v>>] = [latest |-> latest, shop |-> t, view |-> <<v>>]
      BY <3>2
    <3>4. <<v>>[1].current \in 1 .. 6
      BY <2>1, <3>1
    <3>5. Requested([r EXCEPT !.view = <<v>>])
      BY <3>3, <3>4 DEF Requested
    <3> QED BY <3>1, <3>5
  <2>3. \A q \in inflight' : Requested(q)
    BY <1>1, <1>2, <2>2 DEF ServeView
  <2>4. UNCHANGED <<server, shopId, shown, viewStatus, loading, moves>>
    BY <1>2 DEF ServeView
  <2> QED BY <1>1, <2>3, <2>4, PageMoves
<1>3. ASSUME NEW r \in inflight, Answer(r) PROVE PageInv'
  <2>1. /\ UNCHANGED <<server, shopId, moves>> /\ inflight' \subseteq inflight /\ loading' \in BOOLEAN
        /\ viewStatus' \in {viewStatus, "ready"} /\ r.view # Nothing
        /\ shown' = shown \/ shown' = <<[shop |-> r.shop, view |-> r.view[1]]>>
    BY <1>1, <1>3 DEF Answer
  <2>2. r.view[1].current \in 1 .. 6
    BY <1>1, <2>1 DEF Requested
  <2>3. shown' = shown \/ shown'[1].view.current \in 1 .. 6
    BY <2>1, <2>2
  <2> QED BY <1>1, <2>1, <2>3, PageMoves
<1>4. ASSUME NEW r \in inflight, Fail(r) PROVE PageInv'
  <2>1. /\ UNCHANGED <<server, shopId, shown>> /\ inflight' \subseteq inflight /\ loading' \in BOOLEAN
        /\ viewStatus' \in {viewStatus, "error"} /\ moves < MaxMoves /\ moves' = moves + 1
    BY <1>1, <1>4 DEF Fail, Move, LoadingAfter
  <2> QED BY <1>1, <2>1, PageMoves
<1>5. CASE Poll
  <2>1. UNCHANGED <<server, shopId, shown, viewStatus, moves>> /\ Request(shopId)
    BY <1>5 DEF Poll
  <2>2. loading' \in BOOLEAN /\ \A r \in inflight' : Requested(r)
    BY <1>1, <2>1, RequestKept
  <2> QED BY <1>1, <2>1, <2>2, PageMoves
<1>6. CASE Retry
  <2>1. UNCHANGED <<server, shopId, shown, moves>> /\ viewStatus' = "loading" /\ Request(shopId)
    BY <1>6 DEF Retry
  <2>2. loading' \in BOOLEAN /\ \A r \in inflight' : Requested(r)
    BY <1>1, <2>1, RequestKept
  <2> QED BY <1>1, <2>1, <2>2, PageMoves
<1>7. CASE Dismiss
  BY <1>1, <1>7, PageMoves DEF Dismiss
<1>8. ASSUME NEW s \in Shops, Visit(s) PROVE PageInv'
  <2>1. /\ UNCHANGED <<server, shown>> /\ shopId' = s /\ viewStatus' = "loading" /\ Request(s)
        /\ moves < MaxMoves /\ moves' = moves + 1
    BY <1>8 DEF Visit, Move
  <2>2. loading' \in BOOLEAN /\ \A r \in inflight' : Requested(r)
    BY <1>1, <2>1, RequestKept
  <2> QED BY <1>1, <2>1, <2>2, PageMoves
<1> QED BY <1>2, <1>3, <1>4, <1>5, <1>6, <1>7, <1>8

LEMMA ServerStepKeeps ==
  ASSUME PageInv, VisitsFit, visit' = visit,
         \/ \E s \in Shops : \/ MoveBatch(s) \/ StartUpload(s) \/ CancelUpload(s)
                                  \/ MoveExport(s)
         \/ MoveWorker
  PROVE  PageInv'
<1> DEFINE Row == [id : 1 .. MaxMoves + 2, at : Found]
<1>1. /\ MaxMoves \in Nat /\ moves \in 0 .. MaxMoves
      /\ batches \in [Shops -> Seq(Row)] /\ snapshot \in [Shops -> 0 .. MaxMoves + 2]
      /\ export \in [Shops -> Exported] /\ worker \in BOOLEAN /\ stuck \in [Shops -> SUBSET Queues]
      /\ \A s \in Shops : Numbered(s)
  BY PageFacts, SituationFacts DEF PageInv, ShellTypeOK, Exported
<1>2. ASSUME NEW s \in Shops, UNCHANGED <<batches, snapshot>>, moves' = moves + 1 PROVE Numbered(s)'
  <2>1. snapshot[s] \in Nat /\ \A n \in DOMAIN batches[s] : batches[s][n].id \in Nat
    BY PageFacts DEF PageInv
  <2> QED BY <1>1, <1>2, <2>1 DEF Numbered
<1>3. ASSUME NEW s \in Shops, UNCHANGED <<batches[s], snapshot[s]>>, moves' = moves + 1 PROVE Numbered(s)'
  <2>1. snapshot[s] \in Nat /\ \A n \in DOMAIN batches[s] : batches[s][n].id \in Nat
    BY PageFacts DEF PageInv
  <2> QED BY <1>1, <1>3, <2>1 DEF Numbered
<1> HIDE DEF Row
<1>4. ASSUME NEW s \in Shops, MoveExport(s) PROVE PageInv'
  <2>1. export' \in [Shops -> Exported]
    <3>1. PICK e \in Exported : export' = [export EXCEPT ![s] = e]
      BY <1>4 DEF MoveExport, Exported
    <3> QED BY <1>1, <3>1
  <2>2. /\ UNCHANGED <<batches, snapshot, worker, stuck, page>>
        /\ moves < MaxMoves /\ moves' = moves + 1
    BY <1>4 DEF MoveExport, Move
  <2> QED BY <1>1, <1>2, <2>1, <2>2, WorkflowMoves DEF Row
<1>5. CASE MoveWorker
  <2>1. worker' \in BOOLEAN /\ stuck' \in [Shops -> SUBSET Queues]
    <3>1. CASE worker' = ~worker /\ stuck' = stuck
      BY <1>1, <3>1
    <3>2. CASE worker' = worker /\ \E s \in Shops, q \in Hangs :
                 stuck' = [stuck EXCEPT ![s] = IF q \in @ THEN @ \ {q} ELSE @ \cup {q}]
      <4>1. PICK s \in Shops, q \in Hangs :
                 stuck' = [stuck EXCEPT ![s] = IF q \in @ THEN @ \ {q} ELSE @ \cup {q}]
        BY <3>2
      <4>2. q \in Queues
        BY PageFacts DEF PageInv
      <4>3. (IF q \in stuck[s] THEN stuck[s] \ {q} ELSE stuck[s] \cup {q}) \in SUBSET Queues
        BY <1>1, <4>2
      <4> QED BY <1>1, <3>2, <4>1, <4>3
    <3> QED BY <1>5, <3>1, <3>2 DEF MoveWorker
  <2>2. /\ UNCHANGED <<batches, snapshot, export, page>>
        /\ moves < MaxMoves /\ moves' = moves + 1
    BY <1>5 DEF MoveWorker, Move
  <2> QED BY <1>1, <1>2, <2>1, <2>2, WorkflowMoves DEF Row
<1>6. ASSUME NEW s \in Shops, NEW rows \in Seq(Row), batches' = [batches EXCEPT ![s] = rows],
             UNCHANGED <<snapshot, export, worker, stuck, page>>,
             moves < MaxMoves, moves' = moves + 1, Numbered(s)'
      PROVE  PageInv'
  <2>1. batches' \in [Shops -> Seq(Row)]
    BY <1>1, <1>6
  <2>2. ASSUME NEW t \in Shops, t # s PROVE Numbered(t)'
    BY <1>1, <1>3, <1>6, <2>2
  <2>3. \A t \in Shops : Numbered(t)'
    BY <1>6, <2>2
  <2> QED BY <1>1, <1>6, <2>1, <2>3, WorkflowMoves DEF Row
<1>7. ASSUME NEW s \in Shops, StartUpload(s) PROVE PageInv'
  <2> DEFINE new == [id |-> moves + 2, at |-> "UPLOADING"]
             rows == Append(batches[s], new)
  <2>1. /\ UNCHANGED <<snapshot, export, worker, stuck, page>>
        /\ batches' = [batches EXCEPT ![s] = rows] /\ moves < MaxMoves /\ moves' = moves + 1
    BY <1>7 DEF StartUpload, Move
  <2>2. new \in Row /\ batches[s] \in Seq(Row)
    <3>1. moves + 2 \in 1 .. MaxMoves + 2
      BY <1>1
    <3>2. "UPLOADING" \in Found
      BY DEF Found
    <3> QED BY <1>1, <3>1, <3>2 DEF Row
  <2>3. /\ rows \in Seq(Row) /\ DOMAIN rows = 1 .. Len(batches[s]) + 1 /\ rows[Len(batches[s]) + 1] = new
        /\ DOMAIN batches[s] = 1 .. Len(batches[s]) /\ Len(batches[s]) \in Nat
        /\ \A n \in 1 .. Len(batches[s]) : rows[n] = batches[s][n]
    BY <2>2, AppendProperties
  <2>4. batches'[s] = rows /\ snapshot'[s] = snapshot[s]
    BY <1>1, <2>1
  <2>5. Numbered(s)'
    <3>1. /\ Numbered(s) /\ snapshot[s] \in Nat /\ moves \in Nat
          /\ \A n \in DOMAIN batches[s] : batches[s][n].id \in Nat
      BY PageFacts DEF PageInv
    <3>2. /\ snapshot[s] <= moves + 1
          /\ \A n \in 1 .. Len(batches[s]) :
               /\ batches[s][n].id \in Nat /\ batches[s][n].id <= moves + 1
               /\ batches[s][n].id = snapshot[s] => batches[s][n].at = "PUBLISHED"
               /\ \A m \in 1 .. Len(batches[s]) : m < n => batches[s][m].id < batches[s][n].id
      BY <2>3, <3>1 DEF Numbered
    <3>3. snapshot'[s] <= moves' + 1
      BY <2>1, <2>4, <3>1, <3>2
    <3> HIDE DEF rows
    <3>4. ASSUME NEW n \in DOMAIN rows
          PROVE  /\ rows[n].id <= moves' + 1
                 /\ rows[n].id = snapshot[s] => rows[n].at = "PUBLISHED"
                 /\ \A m \in DOMAIN rows : m < n => rows[m].id < rows[n].id
      <4>1. CASE n = Len(batches[s]) + 1
        <5>1. rows[n].id = moves + 2 /\ \A m \in DOMAIN rows : m < n => m \in 1 .. Len(batches[s])
          BY <2>3, <4>1
        <5>2. \A m \in 1 .. Len(batches[s]) : rows[m].id = batches[s][m].id
          BY <2>3
        <5>3. moves' + 1 = moves + 2 /\ moves + 2 \in Nat
          BY <2>1, <3>1
        <5>4. moves + 2 # snapshot[s]
          BY <3>1, <3>2
        <5>5. ASSUME NEW m \in 1 .. Len(batches[s]) PROVE rows[m].id < moves + 2
          BY <3>1, <3>2, <5>2
        <5> QED BY <5>1, <5>3, <5>4, <5>5
      <4>2. CASE n \in 1 .. Len(batches[s])
        <5>1. \A m \in DOMAIN rows : m < n => m \in 1 .. Len(batches[s])
          BY <2>3, <4>2
        <5>2. \A m \in 1 .. Len(batches[s]) : rows[m] = batches[s][m]
          BY <2>3
        <5>3. rows[n].id <= moves' + 1
          BY <2>1, <3>1, <3>2, <4>2, <5>2
        <5> QED BY <3>2, <4>2, <5>1, <5>2, <5>3
      <4> QED BY <2>3, <3>4, <4>1, <4>2
    <3> QED BY <2>4, <3>3, <3>4 DEF Numbered
  <2> HIDE DEF rows
  <2> QED BY <1>6, <2>1, <2>3, <2>5
<1>8. ASSUME NEW s \in Shops, CancelUpload(s) PROVE PageInv'
  <2> DEFINE rows == Front(batches[s])
  <2>1. /\ UNCHANGED <<snapshot, export, worker, stuck, page>> /\ batches[s] # << >>
        /\ batches' = [batches EXCEPT ![s] = rows] /\ moves < MaxMoves /\ moves' = moves + 1
    BY <1>8 DEF CancelUpload, Move
  <2>2. batches[s] \in Seq(Row)
    BY <1>1
  <2>3. /\ rows \in Seq(Row) /\ DOMAIN rows = 1 .. Len(batches[s]) - 1
        /\ DOMAIN batches[s] = 1 .. Len(batches[s]) /\ Len(batches[s]) \in Nat \ {0}
        /\ \A n \in 1 .. Len(batches[s]) - 1 : rows[n] = batches[s][n]
    BY <2>1, <2>2 DEF Front
  <2>4. batches'[s] = rows /\ snapshot'[s] = snapshot[s]
    BY <1>1, <2>1
  <2>5. Numbered(s)'
    <3>1. /\ Numbered(s) /\ snapshot[s] \in Nat /\ moves \in Nat
          /\ \A n \in DOMAIN batches[s] : batches[s][n].id \in Nat
      BY PageFacts DEF PageInv
    <3>2. /\ snapshot[s] <= moves + 1
          /\ \A n \in 1 .. Len(batches[s]) :
               /\ batches[s][n].id \in Nat /\ batches[s][n].id <= moves + 1
               /\ batches[s][n].id = snapshot[s] => batches[s][n].at = "PUBLISHED"
               /\ \A m \in 1 .. Len(batches[s]) : m < n => batches[s][m].id < batches[s][n].id
      BY <2>3, <3>1 DEF Numbered
    <3>3. snapshot'[s] <= moves' + 1
      BY <2>1, <2>4, <3>1, <3>2
    <3> HIDE DEF rows
    <3>4. ASSUME NEW n \in DOMAIN rows
          PROVE  /\ rows[n].id <= moves' + 1
                 /\ rows[n].id = snapshot[s] => rows[n].at = "PUBLISHED"
                 /\ \A m \in DOMAIN rows : m < n => rows[m].id < rows[n].id
      <4>1. n \in 1 .. Len(batches[s]) /\ \A m \in DOMAIN rows : m \in 1 .. Len(batches[s])
        BY <2>3, <3>4
      <4>2. \A m \in DOMAIN rows : rows[m] = batches[s][m]
        BY <2>3
      <4>3. rows[n].id <= moves' + 1
        BY <2>1, <3>1, <3>2, <3>4, <4>1, <4>2
      <4> QED BY <3>2, <3>4, <4>1, <4>2, <4>3
    <3> QED BY <2>4, <3>3, <3>4 DEF Numbered
  <2> HIDE DEF rows
  <2> QED BY <1>6, <2>1, <2>3, <2>5
<1>9. ASSUME NEW s \in Shops, MoveBatch(s) PROVE PageInv'
  <2> DEFINE n == Len(batches[s])
  <2>1. /\ n > 0 /\ batches[s][n].at \in DOMAIN Successors /\ moves < MaxMoves /\ moves' = moves + 1
        /\ UNCHANGED <<worker, stuck, page>>
    BY <1>9 DEF MoveBatch, Move
  <2>2. PICK b \in Successors[batches[s][n].at] :
          /\ batches' = [batches EXCEPT ![s][n].at = b]
          /\ snapshot' = [snapshot EXCEPT ![s] = IF b = "PUBLISHED" THEN batches[s][n].id ELSE @]
          /\ export' = [export EXCEPT ![s] = IF b = "PUBLISHED" THEN "NONE" ELSE @]
    BY <1>9 DEF MoveBatch
  <2>3. b \in Found /\ batches[s][n].at # "PUBLISHED"
    BY <2>1 DEF Successors, Found
  <2>4. /\ batches[s] \in Seq(Row) /\ n \in Nat /\ n \in 1 .. n /\ DOMAIN batches[s] = 1 .. n
        /\ \A m \in 1 .. n : batches[s][m] \in Row
    BY <1>1, <2>1, ElementOfSeq
  <2> DEFINE row == [batches[s][n] EXCEPT !.at = b]
             rows == [batches[s] EXCEPT ![n] = row]
  <2>5. row \in Row /\ row.id = batches[s][n].id /\ row.at = b
    BY <2>3, <2>4 DEF Row
  <2>6. /\ rows \in Seq(Row) /\ DOMAIN rows = 1 .. n /\ rows[n] = row
        /\ \A m \in 1 .. n : m # n => rows[m] = batches[s][m]
    BY <2>4, <2>5, ExceptSeq
  <2>7. batches' = [batches EXCEPT ![s] = rows]
    BY <2>2
  <2> HIDE DEF row, rows
  <2>8. batches' \in [Shops -> Seq(Row)]
    BY <1>1, <2>6, <2>7
  <2>9. batches[s][n].id \in 1 .. MaxMoves + 2
    BY <2>4 DEF Row
  <2>10. snapshot' \in [Shops -> 0 .. MaxMoves + 2]
    BY <1>1, <2>2, <2>9
  <2>11. export' \in [Shops -> Exported]
    BY <1>1, <2>2 DEF Exported
  <2>12. ASSUME NEW t \in Shops, t # s PROVE Numbered(t)'
    <3>1. batches'[t] = batches[t] /\ snapshot'[t] = snapshot[t]
      BY <1>1, <2>2, <2>7, <2>12
    <3> QED BY <1>3, <2>1, <3>1
  <2>13. Numbered(s)'
    <3>1. /\ Numbered(s) /\ snapshot[s] \in Nat /\ moves \in Nat
          /\ \A m \in 1 .. n : batches[s][m].id \in Nat
      BY <2>4, PageFacts DEF PageInv
    <3>2. batches'[s] = rows /\ snapshot'[s] = IF b = "PUBLISHED" THEN batches[s][n].id ELSE snapshot[s]
      BY <1>1, <2>2, <2>7
    <3>3. /\ snapshot[s] <= moves + 1
          /\ \A m \in 1 .. n :
               /\ batches[s][m].id <= moves + 1
               /\ batches[s][m].id = snapshot[s] => batches[s][m].at = "PUBLISHED"
               /\ \A l \in 1 .. n : l < m => batches[s][l].id < batches[s][m].id
      BY <2>4, <3>1 DEF Numbered
    <3>4. \A m \in 1 .. n : rows[m].id = batches[s][m].id
      BY <2>5, <2>6
    <3>5. \A m \in 1 .. n : m # n => rows[m].at = batches[s][m].at /\ batches[s][m].id # batches[s][n].id
      BY <2>4, <2>6, <3>1, <3>3
    <3>6. snapshot'[s] <= moves' + 1
      BY <2>1, <2>4, <3>1, <3>2, <3>3
    <3>7. ASSUME NEW m \in 1 .. n PROVE rows[m].id = snapshot'[s] => rows[m].at = "PUBLISHED"
      <4>1. CASE m = n
        BY <2>3, <2>5, <2>6, <3>2, <3>3, <4>1
      <4>2. CASE m # n
        BY <3>2, <3>3, <3>4, <3>5, <3>7, <4>2
      <4> QED BY <4>1, <4>2
    <3>8. ASSUME NEW m \in 1 .. n
          PROVE  /\ rows[m].id <= moves' + 1
                 /\ \A l \in 1 .. n : l < m => rows[l].id < rows[m].id
      <4>1. rows[m].id = batches[s][m].id /\ batches[s][m].id <= moves + 1 /\ batches[s][m].id \in Nat
        BY <3>1, <3>3, <3>4, <3>8
      <4>2. ASSUME NEW l \in 1 .. n, l < m PROVE rows[l].id < rows[m].id
        <5>1. rows[l].id = batches[s][l].id
          BY <3>4
        <5>2. batches[s][l].id < batches[s][m].id
          BY <3>3, <4>2
        <5> QED BY <4>1, <5>1, <5>2
      <4> QED BY <2>1, <3>1, <4>1, <4>2
    <3> QED BY <2>6, <3>2, <3>6, <3>7, <3>8 DEF Numbered
  <2>14. \A t \in Shops : Numbered(t)'
    BY <2>12, <2>13
  <2> QED BY <1>1, <2>1, <2>8, <2>10, <2>11, <2>14, WorkflowMoves DEF Row
<1> QED BY <1>4, <1>5, <1>7, <1>8, <1>9

LEMMA PageNext == PageInv /\ VisitsFit /\ [ShellNext]_shellVars => PageInv'
<1> SUFFICES ASSUME PageInv, VisitsFit, [ShellNext]_shellVars PROVE PageInv'
  OBVIOUS
<1>1. CASE ShellNext
  BY <1>1, PageStepKeeps, ServerStepKeeps DEF ShellNext, AnyStep
<1>2. CASE UNCHANGED shellVars
  <2>1. /\ visit' = visit /\ UNCHANGED <<server, page, moves>>
        /\ UNCHANGED <<shopId, shown, viewStatus, loading, inflight, dismissed>>
    BY <1>2 DEF shellVars, page
  <2>2. /\ shopId \in Shops /\ viewStatus \in {"loading", "ready", "error"} /\ loading \in BOOLEAN
        /\ \A r \in inflight : Requested(r)
    BY DEF PageInv, ShellTypeOK
  <2> QED BY <2>1, <2>2, PageMoves
<1> QED BY <1>1, <1>2

(* The six steps of a shop's page tell the truth about its batch, whatever  *)
(* situation the worker, the reconciler or the viewer leave it in: a       *)
(* failure and a standstill block a step, steps complete in order, and the *)
(* download is the batch's own (deriveWorkflowSteps, workflow.ts:105).     *)
THEOREM StepsTrueHolds == ShellSpec => []StepsTrue
<1>1. ShellInit => PageInv
  BY PageInit, WorkflowAssumption DEF WorkflowAssumption
<1>2. PageInv /\ [ShellNext]_shellVars => PageInv'
  BY PageNext, WorkflowAssumption DEF WorkflowAssumption
<1> QED BY <1>1, <1>2, StepsTell, PTL DEF ShellSpec

-----------------------------------------------------------------------------
(* The upload page.                                                        *)

(* The fields of a task, and what they hold when the server has n batches. *)
TaskFields == {"kind", "batch", "mine", "paths", "sent", "failed", "fresh", "reply", "seen", "failures"}

ViewFits(v, n) ==
  v # None => /\ {"batch", "files"} \subseteq DOMAIN v[1]
              /\ v[1].batch \in 1 .. n /\ DOMAIN v[1].files \subseteq Paths

TaskFits(t, n) ==
  /\ DOMAIN t = TaskFields
  /\ t.batch \in 0 .. n /\ t.paths \subseteq Paths /\ t.fresh \in BOOLEAN /\ t.failures \in Nat
  /\ ViewFits(t.seen, n)
  /\ t.kind = "create" /\ t.reply = "ok" => t.batch # 0

Fit(T, n) == \A t \in T : TaskFits(t, n)

(* What matters of the tasks under way: their kinds, that a restoration    *)
(* will be heeded, that all pollings are, and that one answer is awaited.  *)
Kinds(T) == {t.kind : t \in T}
Heeded(T) == \E t \in T : t.kind = "restore" /\ t.fresh
PollsHeeded(T) == \A t \in T : t.kind = "poll" => t.fresh
OneAwaited(T) == \A t, u \in T : t.kind # "send" /\ u.kind # "send" => t = u

LEMMA ViewStays ==
  ASSUME NEW n \in Nat, NEW m \in Nat, n <= m, NEW v, ViewFits(v, n)
  PROVE  ViewFits(v, m)
BY DEF ViewFits

LEMMA TasksStay ==
  ASSUME NEW n \in Nat, NEW m \in Nat, n <= m, NEW T, Fit(T, n)
  PROVE  Fit(T, m)
BY ViewStays DEF Fit, TaskFits

(* A new task.                                                             *)
LEMMA NewTask ==
  ASSUME NEW kind, NEW n \in Nat, NEW b \in 0 .. n, kind = "create" => b = 0
  PROVE  Task(kind, b).kind = kind /\ Task(kind, b).fresh /\ TaskFits(Task(kind, b), n)
BY DEF Task, TaskFits, TaskFields, ViewFits, None

LEMMA NewTaskOf ==
  ASSUME NEW kind, NEW n \in Nat, NEW b \in 0 .. n, kind = "create" => b = 0, NEW ps \in SUBSET Paths
  PROVE  LET new == [Task(kind, b) EXCEPT !.paths = ps]
         IN new.kind = kind /\ new.fresh /\ TaskFits(new, n)
BY DEF Task, TaskFits, TaskFields, ViewFits, None

LEMMA NewSending ==
  ASSUME NEW kind, NEW n \in Nat, NEW b \in 0 .. n, kind # "create", NEW s
  PROVE  LET new == [Task(kind, b) EXCEPT !.sent = s]
         IN new.kind = kind /\ new.fresh /\ TaskFits(new, n)
BY DEF Task, TaskFits, TaskFields, ViewFits, None

LEMMA Added ==
  ASSUME NEW T, NEW u, NEW n
  PROVE  /\ Kinds(T \cup {u}) = Kinds(T) \cup {u.kind}
         /\ Fit(T, n) /\ TaskFits(u, n) => Fit(T \cup {u}, n)
         /\ Heeded(T) => Heeded(T \cup {u})
         /\ PollsHeeded(T) /\ u.fresh => PollsHeeded(T \cup {u})
         /\ Kinds(T) \subseteq {"send"} => OneAwaited(T \cup {u})
         /\ OneAwaited(T) /\ u.kind = "send" => OneAwaited(T \cup {u})
BY DEF Kinds, Fit, Heeded, PollsHeeded, OneAwaited

LEMMA Dropped ==
  ASSUME NEW T, NEW t \in T, NEW n
  PROVE  /\ Kinds(T) = Kinds(T \ {t}) \cup {t.kind}
         /\ Fit(T, n) => Fit(T \ {t}, n)
         /\ Heeded(T) /\ (t.kind # "restore" \/ ~t.fresh) => Heeded(T \ {t})
         /\ PollsHeeded(T) => PollsHeeded(T \ {t})
         /\ OneAwaited(T) => OneAwaited(T \ {t})
         /\ OneAwaited(T) /\ t.kind # "send" => Kinds(T \ {t}) \subseteq {"send"}
BY DEF Kinds, Fit, Heeded, PollsHeeded, OneAwaited

LEMMA OutdatedFacts ==
  ASSUME NEW T, NEW ks, NEW n, Fit(T, n)
  PROVE  /\ Fit(Outdated(T, ks), n)
         /\ Kinds(Outdated(T, ks)) = Kinds(T)
         /\ "restore" \notin ks /\ Heeded(T) => Heeded(Outdated(T, ks))
         /\ "poll" \notin ks /\ PollsHeeded(T) => PollsHeeded(Outdated(T, ks))
         /\ "poll" \notin Kinds(T) => PollsHeeded(Outdated(T, ks))
         /\ OneAwaited(T) => OneAwaited(Outdated(T, ks))
<1>1. PICK no : no = FALSE
  OBVIOUS
<1> DEFINE f(t) == IF t.kind \in ks THEN [t EXCEPT !.fresh = no] ELSE t
<1>2. Outdated(T, ks) = {f(t) : t \in T}
  BY <1>1, Zenon DEF Outdated
<1>3. \A t \in T : /\ f(t).kind = t.kind /\ TaskFits(f(t), n)
                   /\ t.kind \notin ks => f(t).fresh = t.fresh
  <2> SUFFICES ASSUME NEW t \in T
               PROVE  /\ f(t).kind = t.kind /\ TaskFits(f(t), n)
                      /\ t.kind \notin ks => f(t).fresh = t.fresh
    OBVIOUS
  <2>1. TaskFits(t, n) /\ no \in BOOLEAN
    BY <1>1 DEF Fit
  <2> QED BY <2>1 DEF TaskFits, TaskFields
<1> HIDE DEF f
<1>4. Fit(Outdated(T, ks), n)
  BY <1>2, <1>3 DEF Fit
<1>5. Kinds(Outdated(T, ks)) = Kinds(T)
  BY <1>2, <1>3 DEF Kinds
<1>6. "restore" \notin ks /\ Heeded(T) => Heeded(Outdated(T, ks))
  BY <1>2, <1>3 DEF Heeded
<1>7. /\ "poll" \notin ks /\ PollsHeeded(T) => PollsHeeded(Outdated(T, ks))
      /\ "poll" \notin Kinds(T) => PollsHeeded(Outdated(T, ks))
  BY <1>2, <1>3 DEF PollsHeeded, Kinds
<1>8. OneAwaited(T) => OneAwaited(Outdated(T, ks))
  BY <1>2, <1>3 DEF OneAwaited
<1> QED BY <1>4, <1>5, <1>6, <1>7, <1>8

LEMMA DetachedFacts ==
  ASSUME NEW T, NEW n, Fit(T, n)
  PROVE  /\ Fit(Detached(T), n)
         /\ Kinds(Detached(T)) = Kinds(T)
         /\ Heeded(T) => Heeded(Detached(T))
         /\ PollsHeeded(T) => PollsHeeded(Detached(T))
         /\ OneAwaited(T) => OneAwaited(Detached(T))
<1>1. PICK no : no = FALSE
  OBVIOUS
<1> DEFINE f(t) == IF t.kind \in {"send", "skip"} THEN [t EXCEPT !.mine = no] ELSE t
<1>2. Detached(T) = {f(t) : t \in T}
  BY <1>1, Zenon DEF Detached
<1>3. \A t \in T : f(t).kind = t.kind /\ TaskFits(f(t), n) /\ f(t).fresh = t.fresh
  BY DEF Fit, TaskFits, TaskFields
<1> HIDE DEF f
<1> QED BY <1>2, <1>3 DEF Fit, Kinds, Heeded, PollsHeeded, OneAwaited

-----------------------------------------------------------------------------
(* The inductive invariant.                                                *)

Codes == {"NONE", "CAPACITY", "HARD", "OTHER"}
RowFits(row) == /\ DOMAIN row = {"state", "code", "files"}
                /\ row.state \in ServerStates /\ row.code \in Codes /\ DOMAIN row.files \subseteq Paths
ServerFits(s) == /\ Len(s) \in Nat /\ DOMAIN s = 1 .. Len(s) /\ s = [b \in DOMAIN s |-> s[b]]
                 /\ \A b \in DOMAIN s : RowFits(s[b])

ItemStates == {"pending", "uploading", "complete", "failed", "skipped"}
PageStates == {"idle", "uploaded", "ready", "error", "cancelled"} \cup Busy
ListFits(list) == DOMAIN list \subseteq Paths /\ \A p \in DOMAIN list : list[p] \in ItemStates

Shape ==
  /\ viewer \in Viewers /\ ServerFits(srv) /\ ListFits(items) /\ status \in PageStates
  /\ batchId \in 0 .. Len(srv)
  /\ checkingSelection \in BOOLEAN /\ resuming \in BOOLEAN
  /\ removingFiles \in BOOLEAN /\ restoringLatest \in BOOLEAN
  /\ ViewFits(preview, Len(srv)) /\ Fit(tasks, Len(srv))

(* Nothing but a restoration that will be heeded can come to an end while  *)
(* the latest batch is restored.                                           *)
Ends ==
  /\ status = "uploading" => "create" \in Kinds(tasks) \/ "send" \in Kinds(tasks)
  /\ checkingSelection => "accept" \in Kinds(tasks)
  /\ resuming => "confirm" \in Kinds(tasks)
  /\ removingFiles => "remove" \in Kinds(tasks)
  /\ restoringLatest => Heeded(tasks) /\ "remove" \notin Kinds(tasks)

(* A list without a batch is not one that was handed over: nothing that    *)
(* follows an import is under way.                                         *)
Fresh ==
  batchId = 0 /\ (preview # None \/ \E k \in Kinds(tasks) : k \in {"complete", "confirm", "poll", "restore"})
    => DOMAIN items = {}

(* A viewer who waits for one answer before asking the next thing.         *)
Orderly ==
  /\ OneAwaited(tasks) /\ PollsHeeded(tasks) /\ Fresh
  /\ status \in {"preflight", "processing"} =>
       /\ "confirm" \notin Kinds(tasks)
       /\ "complete" \in Kinds(tasks) \/ "skip" \in Kinds(tasks) \/ "poll" \in Kinds(tasks)

FlowInv == Shape /\ Ends /\ (~Impatient => Orderly)

LEMMA FlowInvTells == FlowInv => PageGoesOn
<1> SUFFICES ASSUME FlowInv PROVE PageGoesOn
  OBVIOUS
<1>1. FlowTypeOK
  BY DEF FlowInv, Shape, ServerFits, RowFits, ListFits, Codes, ItemStates, PageStates, FlowTypeOK, flags
<1>2. UnlocksItself
  BY DEF FlowInv, Ends, Kinds, Heeded, UnlocksItself, Running
<1>3. PreflightFollowed
  BY DEF FlowInv, Orderly, Kinds, PreflightFollowed, Running
<1> QED BY <1>1, <1>2, <1>3 DEF PageGoesOn

LEMMA Free ==
  ASSUME ~Impatient
  PROVE  /\ MayAct => Kinds(tasks) \subseteq {"send"}
         /\ MayCancel => Kinds(tasks) \subseteq {"send"}
BY DEF MayAct, MayCancel, Waits, Answered, Kinds

(* What the viewer does.                                                   *)

LEMMA SelectKeeps ==
  ASSUME FlowInv, viewer' = viewer, NEW sel \in SUBSET Paths, Select(sel)
  PROVE  FlowInv'
<1> DEFINE new == [Task("accept", 0) EXCEPT !.paths = sel]
           old == Outdated(tasks, {"restore"})
<1>1. Fit(tasks, Len(srv)) /\ Len(srv) \in Nat
  BY DEF FlowInv, Shape, ServerFits
<1>2. new.kind = "accept" /\ new.fresh /\ TaskFits(new, Len(srv))
  <2>1. 0 \in 0 .. Len(srv)
    BY <1>1
  <2> QED BY <1>1, <2>1, NewTaskOf
<1>3. /\ Fit(old, Len(srv)) /\ Kinds(old) = Kinds(tasks)
      /\ PollsHeeded(tasks) => PollsHeeded(old)
  BY <1>1, OutdatedFacts
<1>4. tasks' = old \cup {new} /\ ~restoringLatest /\ MayAct
  BY DEF Select, selectionLocked
<1> HIDE DEF new, old
<1>5. /\ Kinds(tasks') = Kinds(tasks) \cup {"accept"} /\ Fit(tasks', Len(srv))
      /\ PollsHeeded(tasks) => PollsHeeded(tasks')
      /\ Kinds(tasks) \subseteq {"send"} => OneAwaited(tasks')
  <2>1. /\ Kinds(old \cup {new}) = Kinds(old) \cup {new.kind} /\ Fit(old \cup {new}, Len(srv))
        /\ PollsHeeded(old) => PollsHeeded(old \cup {new})
        /\ Kinds(old) \subseteq {"send"} => OneAwaited(old \cup {new})
    BY <1>2, <1>3, Added
  <2> QED BY <1>2, <1>3, <1>4, <2>1
<1>6. Shape'
  BY <1>5 DEF FlowInv, Shape, Select
<1>7. Ends'
  BY <1>4, <1>5 DEF FlowInv, Ends, Select
<1>8. ASSUME ~Impatient PROVE Orderly'
  <2>1. Kinds(tasks) \subseteq {"send"}
    BY <1>4, <1>8, Free
  <2> QED BY <1>5, <1>8, <2>1 DEF FlowInv, Orderly, Fresh, Select
<1> QED BY <1>6, <1>7, <1>8 DEF FlowInv, Impatient

LEMMA SelectedKeeps ==
  ASSUME FlowInv, viewer' = viewer, NEW t \in tasks, Selected(t)
  PROVE  FlowInv'
<1> DEFINE rest == tasks \ {t}
           old == Outdated(rest, {"poll"})
<1>1. Fit(tasks, Len(srv)) /\ t.kind = "accept" /\ t.paths \subseteq Paths
  BY DEF FlowInv, Shape, Fit, TaskFits, Selected
<1>2. /\ Kinds(tasks) = Kinds(rest) \cup {"accept"} /\ Fit(rest, Len(srv))
      /\ Heeded(tasks) => Heeded(rest)
      /\ PollsHeeded(tasks) => PollsHeeded(rest)
      /\ OneAwaited(tasks) => OneAwaited(rest) /\ Kinds(rest) \subseteq {"send"}
  BY <1>1, Dropped
<1>3. /\ Fit(old, Len(srv)) /\ Kinds(old) = Kinds(rest)
      /\ Heeded(rest) => Heeded(old)
      /\ "poll" \notin Kinds(rest) => PollsHeeded(old)
      /\ OneAwaited(rest) => OneAwaited(old)
  BY <1>2, OutdatedFacts
<1>4. tasks' = rest \/ tasks' = Detached(old)
  BY DEF Selected
<1> HIDE DEF rest, old
<1>5. /\ Fit(tasks', Len(srv)) /\ Kinds(tasks') = Kinds(rest)
      /\ Heeded(tasks) => Heeded(tasks')
      /\ OneAwaited(tasks) /\ PollsHeeded(tasks) =>
           OneAwaited(tasks') /\ Kinds(rest) \subseteq {"send"} /\ PollsHeeded(tasks')
  BY <1>2, <1>3, <1>4, DetachedFacts
<1>6. ListFits(items') /\ status' \in PageStates
  BY <1>1 DEF FlowInv, Shape, ListFits, ItemStates, PageStates, Selected, Merged
<1>7. Shape'
  <2>1. srv' = srv /\ batchId' \in 0 .. Len(srv) /\ ViewFits(preview', Len(srv))
    BY DEF FlowInv, Shape, ServerFits, ViewFits, None, Selected, Cleared
  <2>2. /\ checkingSelection' \in BOOLEAN /\ resuming' \in BOOLEAN
        /\ removingFiles' \in BOOLEAN /\ restoringLatest' \in BOOLEAN
    BY DEF FlowInv, Shape, Selected
  <2> QED BY <1>5, <1>6, <2>1, <2>2 DEF FlowInv, Shape
<1>8. Ends'
  BY <1>2, <1>5 DEF FlowInv, Ends, Selected
<1>9. ASSUME ~Impatient PROVE Orderly'
  BY <1>2, <1>5, <1>9 DEF FlowInv, Orderly, Fresh, Selected, Cleared, None
<1> QED BY <1>7, <1>8, <1>9 DEF FlowInv, Impatient

LEMMA TaskStarts ==
  ASSUME NEW n, Fit(tasks, n), NEW u, TaskFits(u, n), u.fresh, tasks' = tasks \cup {u}
  PROVE  /\ Fit(tasks', n) /\ Kinds(tasks') = Kinds(tasks) \cup {u.kind}
         /\ Heeded(tasks) => Heeded(tasks')
         /\ PollsHeeded(tasks) => PollsHeeded(tasks')
         /\ Kinds(tasks) \subseteq {"send"} => OneAwaited(tasks')
BY Added

LEMMA UploadingFits ==
  ASSUME ListFits(items)
  PROVE  ListFits(Uploading) /\ DOMAIN Uploading = DOMAIN items
BY DEF ListFits, Uploading, ItemStates

LEMMA StartKeeps ==
  ASSUME FlowInv, viewer' = viewer, Start
  PROVE  FlowInv'
<1> DEFINE create == [Task("create", 0) EXCEPT !.paths = DOMAIN items]
           old == Outdated(tasks, {"restore"})
<1>1. /\ Fit(tasks, Len(srv)) /\ Len(srv) \in Nat /\ batchId \in 0 .. Len(srv) /\ 0 \in 0 .. Len(srv)
      /\ ListFits(items) /\ DOMAIN items \in SUBSET Paths
  BY DEF FlowInv, Shape, ServerFits, ListFits
<1>2. create.kind = "create" /\ create.fresh /\ TaskFits(create, Len(srv))
  BY <1>1, NewTaskOf
<1>3. SendTask(batchId).kind = "send" /\ SendTask(batchId).fresh /\ TaskFits(SendTask(batchId), Len(srv))
  BY <1>1, NewSending DEF SendTask
<1>4. /\ Fit(old, Len(srv)) /\ Kinds(old) = Kinds(tasks)
      /\ PollsHeeded(tasks) => PollsHeeded(old)
  BY <1>1, OutdatedFacts
<1>5. /\ \/ tasks' = old \cup {create} /\ items' = items
         \/ tasks' = old \cup {SendTask(batchId)} /\ items' = Uploading
      /\ ~restoringLatest /\ MayAct /\ status' = "uploading"
      /\ UNCHANGED <<srv, batchId, preview, flags>>
  BY DEF Start
<1> HIDE DEF create, old
<1>6. PICK new \in {create, SendTask(batchId)} : tasks' = old \cup {new}
  BY <1>5
<1>7. /\ Kinds(old \cup {new}) = Kinds(old) \cup {new.kind} /\ Fit(old \cup {new}, Len(srv))
      /\ PollsHeeded(old) => PollsHeeded(old \cup {new})
      /\ Kinds(old) \subseteq {"send"} => OneAwaited(old \cup {new})
  BY <1>2, <1>3, <1>4, Added
<1>8. /\ Fit(tasks', Len(srv))
      /\ Kinds(tasks') = Kinds(tasks) \cup {"create"} \/ Kinds(tasks') = Kinds(tasks) \cup {"send"}
      /\ PollsHeeded(tasks) => PollsHeeded(tasks')
      /\ Kinds(tasks) \subseteq {"send"} => OneAwaited(tasks')
  BY <1>2, <1>3, <1>4, <1>6, <1>7
<1>9. ListFits(items') /\ DOMAIN items' = DOMAIN items
  BY <1>1, <1>5, UploadingFits
<1>10. Shape'
  BY <1>5, <1>8, <1>9 DEF FlowInv, Shape, flags, PageStates, Busy
<1>11. Ends'
  BY <1>5, <1>8 DEF FlowInv, Ends, flags
<1>12. ASSUME ~Impatient PROVE Orderly'
  <2>1. Kinds(tasks) \subseteq {"send"}
    BY <1>5, <1>12, Free
  <2> QED BY <1>5, <1>8, <1>9, <1>12, <2>1 DEF FlowInv, Orderly, Fresh
<1> QED BY <1>10, <1>11, <1>12 DEF FlowInv, Impatient

LEMMA CancelKeeps ==
  ASSUME FlowInv, viewer' = viewer, Cancel
  PROVE  FlowInv'
<1>1. Fit(tasks, Len(srv)) /\ Len(srv) \in Nat /\ batchId \in 0 .. Len(srv)
  BY DEF FlowInv, Shape, ServerFits
<1>2. LET new == Task("cancel", batchId)
      IN tasks' = tasks \cup {new} /\ new.kind = "cancel" /\ new.fresh /\ TaskFits(new, Len(srv))
  BY <1>1, NewTask DEF Cancel
<1>3. /\ Fit(tasks', Len(srv)) /\ Kinds(tasks') = Kinds(tasks) \cup {"cancel"}
      /\ Heeded(tasks) => Heeded(tasks')
      /\ PollsHeeded(tasks) => PollsHeeded(tasks')
      /\ Kinds(tasks) \subseteq {"send"} => OneAwaited(tasks')
  BY <1>1, <1>2, TaskStarts
<1>4. batchId # 0 /\ MayCancel /\ UNCHANGED <<srv, items, status, batchId, preview, flags>>
  BY DEF Cancel
<1>5. Shape'
  BY <1>3, <1>4 DEF FlowInv, Shape, flags
<1>6. Ends'
  BY <1>3, <1>4 DEF FlowInv, Ends, flags
<1>7. ASSUME ~Impatient PROVE Orderly'
  <2>1. Kinds(tasks) \subseteq {"send"}
    BY <1>4, <1>7, Free
  <2> QED BY <1>3, <1>4, <1>7, <2>1 DEF FlowInv, Orderly, Fresh
<1> QED BY <1>5, <1>6, <1>7 DEF FlowInv, Impatient

LEMMA RemovedFromFacts ==
  ASSUME NEW gone, NEW cancelled \in BOOLEAN, RemovedFrom(gone, cancelled), ListFits(items)
  PROVE  /\ ListFits(items') /\ DOMAIN items' \subseteq DOMAIN items
         /\ cancelled => DOMAIN items' = {}
         /\ batchId' = IF cancelled THEN 0 ELSE batchId
         /\ status' \in {"error", "uploaded", "idle"}
BY DEF RemovedFrom, ListFits

LEMMA RemoveSelectedKeeps ==
  ASSUME FlowInv, viewer' = viewer, NEW sel \in (SUBSET DOMAIN items) \ {{}}, RemoveSelected(sel)
  PROVE  FlowInv'
<1>1. /\ Fit(tasks, Len(srv)) /\ Len(srv) \in Nat /\ batchId \in 0 .. Len(srv)
      /\ ListFits(items) /\ sel \in SUBSET Paths /\ DOMAIN items # {} /\ ~restoringLatest
  <2>1. sel \subseteq DOMAIN items /\ sel # {}
    OBVIOUS
  <2>2. ListFits(items) /\ DOMAIN items \subseteq Paths
    BY DEF FlowInv, Shape, ListFits
  <2> QED BY <2>1, <2>2 DEF FlowInv, Shape, ServerFits, RemoveSelected, canEditUploadSelection
<1>2. CASE batchId = 0 /\ RemovedFrom(sel, FALSE) /\ tasks' = Outdated(tasks, {"restore", "poll"}) /\ removingFiles' = removingFiles
  <2>1. /\ Fit(tasks', Len(srv)) /\ Kinds(tasks') = Kinds(tasks)
        /\ "poll" \notin Kinds(tasks) => PollsHeeded(tasks')
        /\ OneAwaited(tasks) => OneAwaited(tasks')
    BY <1>1, <1>2, OutdatedFacts
  <2>2. /\ ListFits(items') /\ DOMAIN items' \subseteq DOMAIN items /\ batchId' = batchId
        /\ status' \in {"error", "uploaded", "idle"}
    <3>1. PICK no \in BOOLEAN : no = FALSE
      OBVIOUS
    <3> QED BY <1>1, <1>2, RemovedFromFacts
  <2>3. UNCHANGED <<srv, preview, flags>>
    BY <1>2 DEF RemoveSelected, flags
  <2>4. Shape'
    BY <2>1, <2>2, <2>3 DEF FlowInv, Shape, flags, PageStates
  <2>5. Ends'
    BY <1>1, <2>1, <2>2, <2>3 DEF FlowInv, Ends, flags
  <2>6. ASSUME ~Impatient PROVE Orderly'
    BY <1>1, <1>2, <2>1, <2>2, <2>3, <2>6 DEF FlowInv, Orderly, Fresh
  <2> QED BY <2>4, <2>5, <2>6 DEF FlowInv, Impatient
<1>3. CASE /\ batchId # 0 /\ MayAct /\ removingFiles' = TRUE
           /\ tasks' = tasks \cup {[Task("remove", batchId) EXCEPT !.paths = sel]}
           /\ UNCHANGED <<items, status, batchId>>
  <2>1. LET new == [Task("remove", batchId) EXCEPT !.paths = sel]
        IN new.kind = "remove" /\ new.fresh /\ TaskFits(new, Len(srv))
    BY <1>1, NewTaskOf
  <2>2. /\ Fit(tasks', Len(srv)) /\ Kinds(tasks') = Kinds(tasks) \cup {"remove"}
        /\ PollsHeeded(tasks) => PollsHeeded(tasks')
        /\ Kinds(tasks) \subseteq {"send"} => OneAwaited(tasks')
    BY <1>1, <1>3, <2>1, TaskStarts
  <2>3. UNCHANGED <<srv, preview, checkingSelection, resuming, restoringLatest>>
    BY DEF RemoveSelected
  <2>4. Shape'
    BY <1>3, <2>2, <2>3 DEF FlowInv, Shape
  <2>5. Ends'
    BY <1>1, <1>3, <2>2, <2>3 DEF FlowInv, Ends
  <2>6. ASSUME ~Impatient PROVE Orderly'
    <3>1. Kinds(tasks) \subseteq {"send"}
      BY <1>3, <2>6, Free
    <3> QED BY <1>3, <2>2, <2>3, <2>6, <3>1 DEF FlowInv, Orderly, Fresh
  <2> QED BY <2>4, <2>5, <2>6 DEF FlowInv, Impatient
<1> QED BY <1>2, <1>3 DEF RemoveSelected

LEMMA ConfirmKeeps ==
  ASSUME FlowInv, viewer' = viewer, Confirm
  PROVE  FlowInv'
<1>1. Fit(tasks, Len(srv)) /\ Len(srv) \in Nat /\ batchId \in 0 .. Len(srv)
  BY DEF FlowInv, Shape, ServerFits
<1>2. LET new == Task("complete", batchId)
      IN tasks' = tasks \cup {new} /\ new.kind = "complete" /\ new.fresh /\ TaskFits(new, Len(srv))
  BY <1>1, NewTask DEF Confirm
<1>3. /\ Fit(tasks', Len(srv)) /\ Kinds(tasks') = Kinds(tasks) \cup {"complete"}
      /\ Heeded(tasks) => Heeded(tasks')
      /\ PollsHeeded(tasks) => PollsHeeded(tasks')
      /\ Kinds(tasks) \subseteq {"send"} => OneAwaited(tasks')
  BY <1>1, <1>2, TaskStarts
<1>4. batchId # 0 /\ MayAct /\ status' = "preflight" /\ UNCHANGED <<srv, items, batchId, preview, flags>>
  BY DEF Confirm, canRetryCompletion
<1>5. Shape'
  BY <1>3, <1>4 DEF FlowInv, Shape, flags, PageStates, Busy
<1>6. Ends'
  BY <1>3, <1>4 DEF FlowInv, Ends, flags
<1>7. ASSUME ~Impatient PROVE Orderly'
  <2>1. Kinds(tasks) \subseteq {"send"}
    BY <1>4, <1>7, Free
  <2> QED BY <1>3, <1>4, <1>7, <2>1 DEF FlowInv, Orderly, Fresh
<1> QED BY <1>5, <1>6, <1>7 DEF FlowInv, Impatient

LEMMA SkipFailedKeeps ==
  ASSUME FlowInv, viewer' = viewer, SkipFailed
  PROVE  FlowInv'
<1> DEFINE new(s) == [Task("skip", batchId) EXCEPT !.sent = s]
<1>1. Fit(tasks, Len(srv)) /\ Len(srv) \in Nat /\ batchId \in 0 .. Len(srv)
  BY DEF FlowInv, Shape, ServerFits
<1>2. PICK s : tasks' = tasks \cup {new(s)}
  BY DEF SkipFailed
<1>3. new(s).kind = "skip" /\ new(s).fresh /\ TaskFits(new(s), Len(srv))
  BY <1>1, NewSending
<1> HIDE DEF new
<1>4. /\ Fit(tasks', Len(srv)) /\ Kinds(tasks') = Kinds(tasks) \cup {"skip"}
      /\ Heeded(tasks) => Heeded(tasks')
      /\ PollsHeeded(tasks) => PollsHeeded(tasks')
      /\ Kinds(tasks) \subseteq {"send"} => OneAwaited(tasks')
  BY <1>1, <1>2, <1>3, TaskStarts
<1>5. batchId # 0 /\ MayAct /\ status' = "preflight" /\ UNCHANGED <<srv, items, batchId, preview, flags>>
  BY DEF SkipFailed, canContinue
<1>6. Shape'
  BY <1>4, <1>5 DEF FlowInv, Shape, flags, PageStates, Busy
<1>7. Ends'
  BY <1>4, <1>5 DEF FlowInv, Ends, flags
<1>8. ASSUME ~Impatient PROVE Orderly'
  <2>1. Kinds(tasks) \subseteq {"send"}
    BY <1>5, <1>8, Free
  <2> QED BY <1>4, <1>5, <1>8, <2>1 DEF FlowInv, Orderly, Fresh
<1> QED BY <1>6, <1>7, <1>8 DEF FlowInv, Impatient

LEMMA ResumeKeeps ==
  ASSUME FlowInv, viewer' = viewer, Resume
  PROVE  FlowInv'
<1>1. Fit(tasks, Len(srv)) /\ Len(srv) \in Nat /\ preview # None /\ preview[1].batch \in 0 .. Len(srv)
  BY DEF FlowInv, Shape, ServerFits, ViewFits, Resume
<1>2. LET new == Task("confirm", preview[1].batch)
      IN tasks' = tasks \cup {new} /\ new.kind = "confirm" /\ new.fresh /\ TaskFits(new, Len(srv))
  BY <1>1, NewTask DEF Resume
<1>3. /\ Fit(tasks', Len(srv)) /\ Kinds(tasks') = Kinds(tasks) \cup {"confirm"}
      /\ Heeded(tasks) => Heeded(tasks')
      /\ PollsHeeded(tasks) => PollsHeeded(tasks')
      /\ Kinds(tasks) \subseteq {"send"} => OneAwaited(tasks')
  BY <1>1, <1>2, TaskStarts
<1>4. /\ MayAct /\ resuming' = TRUE
      /\ UNCHANGED <<srv, items, status, batchId, preview, checkingSelection, removingFiles, restoringLatest>>
  BY DEF Resume
<1>5. Shape'
  BY <1>3, <1>4 DEF FlowInv, Shape
<1>6. Ends'
  BY <1>3, <1>4 DEF FlowInv, Ends
<1>7. ASSUME ~Impatient PROVE Orderly'
  <2>1. Kinds(tasks) \subseteq {"send"}
    BY <1>4, <1>7, Free
  <2> QED BY <1>1, <1>3, <1>4, <1>7, <2>1 DEF FlowInv, Orderly, Fresh
<1> QED BY <1>5, <1>6, <1>7 DEF FlowInv, Impatient

LEMMA LenIs ==
  ASSUME NEW s, NEW n \in Nat, DOMAIN s = 1 .. n
  PROVE  Len(s) = n
OBVIOUS

(* Batches keep their rows, or one of them is changed.                     *)
LEMMA RowsStay ==
  ASSUME ServerFits(srv), NEW s, DOMAIN s = DOMAIN srv, s = [c \in DOMAIN s |-> s[c]], \A c \in DOMAIN srv : RowFits(s[c])
  PROVE  ServerFits(s) /\ Len(s) = Len(srv)
BY LenIs DEF ServerFits

LEMMA StateSet ==
  ASSUME ServerFits(srv), NEW b, NEW state, b \in DOMAIN srv => state \in ServerStates
  PROVE  ServerFits([srv EXCEPT ![b].state = state]) /\ Len([srv EXCEPT ![b].state = state]) = Len(srv)
<1> DEFINE s == [srv EXCEPT ![b].state = state]
<1>1. DOMAIN s = DOMAIN srv /\ s = [c \in DOMAIN s |-> s[c]] /\ \A c \in DOMAIN srv : RowFits(s[c])
  BY DEF ServerFits, RowFits
<1> HIDE DEF s
<1>2. ServerFits(s) /\ Len(s) = Len(srv)
  BY <1>1, RowsStay
<1> QED BY <1>2 DEF s

LEMMA CodeSet ==
  ASSUME ServerFits(srv), NEW b, NEW state \in ServerStates, NEW code \in Codes
  PROVE  LET s == [srv EXCEPT ![b].state = state, ![b].code = code]
         IN ServerFits(s) /\ Len(s) = Len(srv)
<1> DEFINE s == [srv EXCEPT ![b].state = state, ![b].code = code]
<1>1. DOMAIN s = DOMAIN srv /\ s = [c \in DOMAIN s |-> s[c]] /\ \A c \in DOMAIN srv : RowFits(s[c])
  BY DEF ServerFits, RowFits
<1> HIDE DEF s
<1>2. ServerFits(s) /\ Len(s) = Len(srv)
  BY <1>1, RowsStay
<1> QED BY <1>2 DEF s

LEMMA FilesSet ==
  ASSUME ServerFits(srv), NEW b, NEW state, NEW files,
         b \in DOMAIN srv => state \in ServerStates /\ DOMAIN files \subseteq Paths
  PROVE  LET s == [srv EXCEPT ![b].state = state, ![b].files = files]
         IN ServerFits(s) /\ Len(s) = Len(srv)
<1> DEFINE s == [srv EXCEPT ![b].state = state, ![b].files = files]
<1>1. DOMAIN s = DOMAIN srv /\ s = [c \in DOMAIN s |-> s[c]] /\ \A c \in DOMAIN srv : RowFits(s[c])
  BY DEF ServerFits, RowFits
<1> HIDE DEF s
<1>2. ServerFits(s) /\ Len(s) = Len(srv)
  BY <1>1, RowsStay
<1> QED BY <1>2 DEF s

LEMMA FileSet ==
  ASSUME ServerFits(srv), NEW b, NEW p, NEW state
  PROVE  LET s == [srv EXCEPT ![b].files[p] = state]
         IN ServerFits(s) /\ Len(s) = Len(srv)
<1> DEFINE s == [srv EXCEPT ![b].files[p] = state]
<1>1. DOMAIN s = DOMAIN srv /\ s = [c \in DOMAIN s |-> s[c]] /\ \A c \in DOMAIN srv : RowFits(s[c])
  BY DEF ServerFits, RowFits
<1> HIDE DEF s
<1>2. ServerFits(s) /\ Len(s) = Len(srv)
  BY <1>1, RowsStay
<1> QED BY <1>2 DEF s

LEMMA BatchAdded ==
  ASSUME ServerFits(srv), NEW row, RowFits(row)
  PROVE  ServerFits(Append(srv, row)) /\ Len(Append(srv, row)) = Len(srv) + 1
<1> DEFINE S == {srv[b] : b \in DOMAIN srv} \cup {row}
           s == Append(srv, row)
<1>1. srv \in Seq(S) /\ row \in S
  BY DEF ServerFits
<1>2. /\ s \in Seq(S) /\ Len(s) = Len(srv) + 1 /\ s[Len(srv) + 1] = row
      /\ \A b \in 1 .. Len(srv) : s[b] = srv[b]
  BY <1>1
<1> HIDE DEF S, s
<1>3. Len(s) \in Nat /\ DOMAIN s = 1 .. Len(s) /\ s = [b \in DOMAIN s |-> s[b]]
  BY <1>2
<1>4. \A b \in DOMAIN s : RowFits(s[b])
  BY <1>2, <1>3 DEF ServerFits
<1>5. ServerFits(s) /\ Len(s) = Len(srv) + 1
  BY <1>2, <1>3, <1>4 DEF ServerFits
<1> QED BY <1>5 DEF s

(* The server moves a batch; the page does not notice.                     *)
LEMMA PageRests ==
  ASSUME FlowInv, viewer' = viewer, ServerFits(srv'), Len(srv') \in Nat, Len(srv) <= Len(srv'),
         UNCHANGED <<items, status, batchId, preview, flags>>,
         Fit(tasks', Len(srv')), Kinds(tasks') = Kinds(tasks),
         Heeded(tasks) => Heeded(tasks'), PollsHeeded(tasks) => PollsHeeded(tasks'),
         OneAwaited(tasks) => OneAwaited(tasks')
  PROVE  FlowInv'
<1>1. Len(srv) \in Nat /\ ViewFits(preview', Len(srv'))
  BY ViewStays DEF FlowInv, Shape, ServerFits
<1>2. Shape'
  BY <1>1 DEF FlowInv, Shape, flags
<1>3. Ends'
  BY DEF FlowInv, Ends, flags
<1>4. ASSUME ~Impatient PROVE Orderly'
  BY <1>4 DEF FlowInv, Orderly, Fresh
<1> QED BY <1>2, <1>3, <1>4 DEF FlowInv, Impatient

LEMMA ServerMovesKeeps ==
  ASSUME FlowInv, viewer' = viewer, NEW b \in DOMAIN srv, ServerMoves(b)
  PROVE  FlowInv'
<1>1. ServerFits(srv) /\ Len(srv) \in Nat /\ Fit(tasks, Len(srv))
  BY DEF FlowInv, Shape, ServerFits
<1>2. ServerFits(srv') /\ Len(srv') = Len(srv)
  <2>1. CASE srv' = [srv EXCEPT ![b].state = "PROCESSING"]
    BY <1>1, <2>1, StateSet DEF ServerStates
  <2>2. CASE srv' = [srv EXCEPT ![b].state = "PUBLISHED"]
    BY <1>1, <2>2, StateSet DEF ServerStates
  <2>3. CASE \E c \in {"OTHER", "CAPACITY", "HARD"} : srv' = [srv EXCEPT ![b].state = "FAILED", ![b].code = c]
    <3>1. PICK c \in Codes : srv' = [srv EXCEPT ![b].state = "FAILED", ![b].code = c]
      BY <2>3 DEF Codes
    <3>2. "FAILED" \in ServerStates
      BY DEF ServerStates
    <3> QED BY <1>1, <3>1, <3>2, CodeSet
  <2> QED BY <2>1, <2>2, <2>3 DEF ServerMoves
<1>3. UNCHANGED <<items, status, batchId, preview, flags, tasks>>
  BY DEF ServerMoves
<1> QED BY <1>1, <1>2, <1>3, PageRests

LEMMA LatestIn ==
  ASSUME ServerFits(srv)
  PROVE  Latest \in 0 .. Len(srv)
<1> DEFINE I == {i \in 1 .. Len(srv) : srv[i].state # "CANCELLED"}
<1>1. Latest = IF I # {} THEN Max(I) ELSE 0
  BY DEF Latest, SelectLastInSeq
<1>2. ASSUME I # {} PROVE Max(I) \in I
  <2> DEFINE T == {Len(srv) - i : i \in I}
  <2>1. T \in SUBSET Nat /\ T # {}
    BY <1>2 DEF ServerFits
  <2>2. PICK m \in I : Min(T) = Len(srv) - m
    <3>1. Min(T) \in T
      BY <2>1, LeastExists
    <3> QED BY <3>1
  <2>3. ASSUME NEW i \in I PROVE Len(srv) - m <= Len(srv) - i
    <3>1. Len(srv) - i \in T
      OBVIOUS
    <3>2. Min(T) <= Len(srv) - i
      BY <2>1, <3>1, LeastExists
    <3> QED BY <2>2, <3>2
  <2>4. \A i \in I : m >= i
    BY <2>3 DEF ServerFits
  <2> QED BY <2>4 DEF Max
<1>3. I \subseteq 1 .. Len(srv) /\ Len(srv) \in Nat
  BY DEF ServerFits
<1> QED BY <1>1, <1>2, <1>3

LEMMA Replaced ==
  ASSUME NEW n, NEW t \in tasks, Fit(tasks \ {t}, n),
         NEW u, TaskFits(u, n), u.kind = t.kind, u.fresh = t.fresh, tasks' = (tasks \ {t}) \cup {u}
  PROVE  /\ Fit(tasks', n) /\ Kinds(tasks') = Kinds(tasks)
         /\ Heeded(tasks) => Heeded(tasks')
         /\ PollsHeeded(tasks) => PollsHeeded(tasks')
         /\ OneAwaited(tasks) => OneAwaited(tasks')
<1>1. Fit(tasks', n)
  BY DEF Fit
<1>2. Kinds(tasks') = Kinds(tasks)
  BY DEF Kinds
<1>3. Heeded(tasks) => Heeded(tasks')
  BY DEF Heeded
<1>4. PollsHeeded(tasks) => PollsHeeded(tasks')
  BY DEF PollsHeeded
<1>5. OneAwaited(tasks) => OneAwaited(tasks')
  BY DEF OneAwaited
<1> QED BY <1>1, <1>2, <1>3, <1>4, <1>5

LEMMA ReplyFacts ==
  ASSUME NEW n, NEW t, TaskFits(t, n), NEW r
  PROVE  LET u == [t EXCEPT !.reply = r]
         IN  /\ u.kind = t.kind /\ u.fresh = t.fresh
             /\ t.kind # "create" => TaskFits(u, n)
BY DEF TaskFits, TaskFields

LEMMA CreateReplyFacts ==
  ASSUME NEW n, NEW t, TaskFits(t, n), NEW b \in 1 .. n
  PROVE  LET u == [t EXCEPT !.reply = "ok", !.batch = b]
         IN  u.kind = t.kind /\ u.fresh = t.fresh /\ TaskFits(u, n)
BY DEF TaskFits, TaskFields

LEMMA SeenFacts ==
  ASSUME NEW n, NEW t, TaskFits(t, n), t.kind # "create", NEW v, ViewFits(v, n)
  PROVE  LET u == [t EXCEPT !.reply = "ok", !.seen = v]
         IN  u.kind = t.kind /\ u.fresh = t.fresh /\ TaskFits(u, n)
BY DEF TaskFits, TaskFields

LEMMA SentFacts ==
  ASSUME NEW n, NEW t, TaskFits(t, n), NEW p, NEW r
  PROVE  LET u == [t EXCEPT !.sent[p] = r]
         IN  u.kind = t.kind /\ u.fresh = t.fresh /\ TaskFits(u, n)
BY DEF TaskFits, TaskFields

LEMMA PreviewFits ==
  ASSUME ServerFits(srv), NEW b \in 0 .. Len(srv)
  PROVE  ViewFits(IF b = 0 THEN None ELSE <<PreviewOf(b)>>, Len(srv))
BY DEF ServerFits, RowFits, ViewFits, PreviewOf, Has, None

(* A request of a task is answered.                                        *)
LEMMA ServeKeeps ==
  ASSUME FlowInv, viewer' = viewer, NEW t \in tasks, Serve(t)
  PROVE  FlowInv'
<1>1. /\ ServerFits(srv) /\ Len(srv) \in Nat /\ Fit(tasks, Len(srv)) /\ Fit(tasks \ {t}, Len(srv))
      /\ TaskFits(t, Len(srv)) /\ t.batch \in 0 .. Len(srv)
  BY DEF FlowInv, Shape, ServerFits, Fit, TaskFits
<1>2. UNCHANGED <<items, status, batchId, preview, flags>>
  BY DEF Serve
<1>3. SUFFICES /\ ServerFits(srv') /\ Len(srv') \in {Len(srv), Len(srv) + 1}
               /\ \E u : /\ TaskFits(u, Len(srv')) /\ u.kind = t.kind /\ u.fresh = t.fresh
                         /\ tasks' = (tasks \ {t}) \cup {u}
  <2>1. Len(srv') \in Nat /\ Len(srv) <= Len(srv')
    BY <1>1, <1>3
  <2>2. Fit(tasks \ {t}, Len(srv'))
    BY <1>1, <2>1, TasksStay
  <2>3. PICK u : /\ TaskFits(u, Len(srv')) /\ u.kind = t.kind /\ u.fresh = t.fresh
                 /\ tasks' = (tasks \ {t}) \cup {u}
    BY <1>3
  <2>4. /\ Fit(tasks', Len(srv')) /\ Kinds(tasks') = Kinds(tasks)
        /\ Heeded(tasks) => Heeded(tasks')
        /\ PollsHeeded(tasks) => PollsHeeded(tasks')
        /\ OneAwaited(tasks) => OneAwaited(tasks')
    BY <2>2, <2>3, Replaced
  <2> QED BY <1>2, <1>3, <2>1, <2>4, PageRests
<1>4. ASSUME NEW r, Replied(t, r), t.kind # "create", ServerFits(srv'), Len(srv') = Len(srv)
      PROVE  \E u : /\ TaskFits(u, Len(srv')) /\ u.kind = t.kind /\ u.fresh = t.fresh
                    /\ tasks' = (tasks \ {t}) \cup {u}
  BY <1>1, <1>4, ReplyFacts DEF Replied
<1>5. CASE ServeCreate(t)
  <2> DEFINE row == [state |-> "UPLOADING", code |-> "NONE", files |-> [p \in t.paths |-> "PARTIAL"]]
  <2>1. RowFits(row)
    BY <1>1 DEF RowFits, TaskFits, ServerStates, Codes
  <2>2. srv' = Append(srv, row)
    BY <1>5 DEF ServeCreate
  <2>3. ServerFits(srv') /\ Len(srv') = Len(srv) + 1
    BY <1>1, <2>1, <2>2, BatchAdded
  <2>4. TaskFits(t, Len(srv')) /\ Len(srv) + 1 \in 1 .. Len(srv')
    <3>1. Fit({t}, Len(srv'))
      BY <1>1, <2>3, TasksStay DEF Fit
    <3> QED BY <1>1, <2>3, <3>1 DEF Fit
  <2>5. tasks' = (tasks \ {t}) \cup {[t EXCEPT !.reply = "ok", !.batch = Len(srv) + 1]}
    BY <1>5 DEF ServeCreate
  <2>6. PICK b \in 1 .. Len(srv') : b = Len(srv) + 1
    BY <2>4
  <2>7. LET u == [t EXCEPT !.reply = "ok", !.batch = b]
        IN u.kind = t.kind /\ u.fresh = t.fresh /\ TaskFits(u, Len(srv'))
    BY <2>4, CreateReplyFacts
  <2> QED BY <2>3, <2>5, <2>6, <2>7
<1>6. CASE ServeCancel(t)
  <2> DEFINE state == IF srv[t.batch].state \in {"UPLOADING", "RUNNING", "FAILED"} THEN "CANCELLED" ELSE srv[t.batch].state
             files(gone) == [p \in DOMAIN srv[t.batch].files |-> IF p \in gone THEN "FAILED" ELSE srv[t.batch].files[p]]
  <2>1. \E gone : srv' = [srv EXCEPT ![t.batch].state = state, ![t.batch].files = files(gone)]
    BY <1>6 DEF ServeCancel
  <2>2. t.batch \in DOMAIN srv => state \in ServerStates /\ \A gone : DOMAIN files(gone) \subseteq Paths
    BY <1>1 DEF ServerFits, RowFits, ServerStates
  <2> HIDE DEF state, files
  <2>3. ServerFits(srv') /\ Len(srv') = Len(srv)
    <3>1. PICK gone : srv' = [srv EXCEPT ![t.batch].state = state, ![t.batch].files = files(gone)]
      BY <2>1
    <3> QED BY <1>1, <2>2, <3>1, FilesSet
  <2>4. t.kind # "create" /\ Replied(t, "ok")
    BY <1>6 DEF ServeCancel
  <2> QED BY <1>4, <2>3, <2>4
<1>7. CASE ServeRemove(t)
  <2> DEFINE remaining == Has(t.batch, {"PARTIAL", "COMPLETE"}) \ t.paths
             state == IF remaining = {} THEN "CANCELLED" ELSE srv[t.batch].state
             files == [p \in DOMAIN srv[t.batch].files |-> IF p \in t.paths THEN "REMOVED" ELSE srv[t.batch].files[p]]
  <2>1. t.batch \in DOMAIN srv => state \in ServerStates /\ DOMAIN files \subseteq Paths
    BY <1>1 DEF ServerFits, RowFits, ServerStates
  <2>2. srv' = srv \/ srv' = [srv EXCEPT ![t.batch].state = state, ![t.batch].files = files]
    BY <1>7 DEF ServeRemove
  <2> HIDE DEF state, files
  <2>3. ServerFits(srv') /\ Len(srv') = Len(srv)
    <3>1. LET s == [srv EXCEPT ![t.batch].state = state, ![t.batch].files = files]
          IN ServerFits(s) /\ Len(s) = Len(srv)
      BY <1>1, <2>1, FilesSet
    <3> QED BY <1>1, <2>2, <3>1
  <2>4. t.kind # "create" /\ \E r : Replied(t, r)
    BY <1>7 DEF ServeRemove
  <2> QED BY <1>4, <2>3, <2>4
<1>8. CASE ServeComplete(t)
  <2>1. srv' = srv \/ srv' = [srv EXCEPT ![t.batch].state = "RUNNING"]
    BY <1>8 DEF ServeComplete
  <2>2. ServerFits(srv') /\ Len(srv') = Len(srv)
    <3>1. "RUNNING" \in ServerStates
      BY DEF ServerStates
    <3>2. /\ ServerFits([srv EXCEPT ![t.batch].state = "RUNNING"])
          /\ Len([srv EXCEPT ![t.batch].state = "RUNNING"]) = Len(srv)
      BY <1>1, <3>1, StateSet
    <3> QED BY <1>1, <2>1, <3>2
  <2>3. t.kind # "create" /\ \E r : Replied(t, r)
    BY <1>8 DEF ServeComplete
  <2> QED BY <1>4, <2>2, <2>3
<1>9. CASE ServeConfirm(t)
  <2>1. srv' = srv \/ srv' = [srv EXCEPT ![t.batch].state = "PROCESSING", ![t.batch].code = "NONE"]
    BY <1>9 DEF ServeConfirm
  <2>2. ServerFits(srv') /\ Len(srv') = Len(srv)
    BY <1>1, <2>1, CodeSet DEF ServerStates, Codes
  <2>3. t.kind # "create" /\ \E r : Replied(t, r)
    BY <1>9 DEF ServeConfirm
  <2> QED BY <1>4, <2>2, <2>3
<1>10. CASE ServePreview(t)
  <2> DEFINE b == IF t.kind = "poll" THEN t.batch ELSE Latest
             v == IF b = 0 THEN None ELSE <<PreviewOf(b)>>
  <2>1. ViewFits(v, Len(srv))
    BY <1>1, LatestIn, PreviewFits
  <2>2. tasks' = (tasks \ {t}) \cup {[t EXCEPT !.reply = "ok", !.seen = v]} /\ srv' = srv /\ t.kind # "create"
    BY <1>10 DEF ServePreview
  <2> HIDE DEF v
  <2> QED BY <1>1, <2>1, <2>2, SeenFacts
<1>11. ASSUME NEW p, ServeFile(t, p)
       PROVE  /\ ServerFits(srv') /\ Len(srv') = Len(srv)
              /\ \E u : /\ TaskFits(u, Len(srv')) /\ u.kind = t.kind /\ u.fresh = t.fresh
                        /\ tasks' = (tasks \ {t}) \cup {u}
  <2>1. PICK r : tasks' = (tasks \ {t}) \cup {[t EXCEPT !.sent[p] = r]}
    BY <1>11 DEF ServeFile, ServeChunk, ServeReport, FileReplied
  <2>2. srv' = srv \/ \E s : srv' = [srv EXCEPT ![t.batch].files[p] = s]
    BY <1>11 DEF ServeFile, ServeChunk, ServeReport
  <2>3. ServerFits(srv') /\ Len(srv') = Len(srv)
    <3>1. ASSUME NEW s, srv' = [srv EXCEPT ![t.batch].files[p] = s]
          PROVE  ServerFits(srv') /\ Len(srv') = Len(srv)
      BY <1>1, <3>1, FileSet
    <3> QED BY <1>1, <2>2, <3>1
  <2>4. LET u == [t EXCEPT !.sent[p] = r]
        IN  u.kind = t.kind /\ u.fresh = t.fresh /\ TaskFits(u, Len(srv))
    BY <1>1, SentFacts
  <2> QED BY <2>1, <2>3, <2>4
<1> QED BY <1>1, <1>5, <1>6, <1>7, <1>8, <1>9, <1>10, <1>11 DEF Serve

(* A task goes on.  It is taken out of the tasks, and may start another.   *)

LEMMA TaskEnds ==
  ASSUME FlowInv, NEW t \in tasks
  PROVE  LET rest == tasks \ {t}
         IN  /\ Len(srv) \in Nat /\ TaskFits(t, Len(srv)) /\ t.batch \in 0 .. Len(srv)
             /\ Kinds(tasks) = Kinds(rest) \cup {t.kind} /\ Fit(rest, Len(srv))
             /\ Heeded(tasks) /\ (t.kind # "restore" \/ ~t.fresh) => Heeded(rest)
             /\ PollsHeeded(tasks) => PollsHeeded(rest)
             /\ OneAwaited(tasks) => OneAwaited(rest)
             /\ OneAwaited(tasks) /\ t.kind # "send" => Kinds(rest) \subseteq {"send"}
<1>1. Len(srv) \in Nat /\ Fit(tasks, Len(srv)) /\ TaskFits(t, Len(srv)) /\ t.batch \in 0 .. Len(srv)
  BY DEF FlowInv, Shape, ServerFits, Fit, TaskFits
<1> QED BY <1>1, Dropped

LEMMA PolledFacts ==
  ASSUME NEW n \in Nat, NEW t, Fit(tasks \ {t}, n), NEW b \in 0 .. n
  PROVE  LET rest == tasks \ {t}
         IN  /\ Fit(Polled(t, b), n) /\ Kinds(Polled(t, b)) = Kinds(rest) \cup {"poll"}
             /\ Heeded(rest) => Heeded(Polled(t, b))
             /\ Kinds(rest) \subseteq {"send"} => PollsHeeded(Polled(t, b)) /\ OneAwaited(Polled(t, b))
<1> DEFINE rest == tasks \ {t}
           old == Outdated(rest, {"poll"})
           new == Task("poll", b)
<1>1. new.kind = "poll" /\ new.fresh /\ TaskFits(new, n)
  BY NewTask
<1>2. /\ Fit(old, n) /\ Kinds(old) = Kinds(rest)
      /\ Heeded(rest) => Heeded(old)
      /\ "poll" \notin Kinds(rest) => PollsHeeded(old)
  BY OutdatedFacts
<1>3. Polled(t, b) = old \cup {new}
  BY DEF Polled
<1> HIDE DEF rest, old, new
<1>4. /\ Kinds(old \cup {new}) = Kinds(old) \cup {new.kind} /\ Fit(old \cup {new}, n)
      /\ Heeded(old) => Heeded(old \cup {new})
      /\ PollsHeeded(old) => PollsHeeded(old \cup {new})
      /\ Kinds(old) \subseteq {"send"} => OneAwaited(old \cup {new})
  BY <1>1, <1>2, Added
<1>5. /\ Fit(Polled(t, b), n) /\ Kinds(Polled(t, b)) = Kinds(rest) \cup {"poll"}
      /\ Heeded(rest) => Heeded(Polled(t, b))
      /\ Kinds(rest) \subseteq {"send"} => PollsHeeded(Polled(t, b)) /\ OneAwaited(Polled(t, b))
  BY <1>1, <1>2, <1>3, <1>4
<1> QED BY <1>5 DEF rest

LEMMA CreatedKeeps ==
  ASSUME FlowInv, viewer' = viewer, srv' = srv, NEW t \in tasks, NEW r,
         r # "lost" => r = t.reply, Created(t, r)
  PROVE  FlowInv'
<1> DEFINE rest == tasks \ {t}
           new == SendTask(t.batch)
<1>1. /\ Len(srv) \in Nat /\ TaskFits(t, Len(srv)) /\ t.batch \in 0 .. Len(srv) /\ t.kind = "create"
      /\ Kinds(tasks) = Kinds(rest) \cup {"create"} /\ Fit(rest, Len(srv))
      /\ Heeded(tasks) => Heeded(rest)
      /\ PollsHeeded(tasks) => PollsHeeded(rest)
      /\ OneAwaited(tasks) => OneAwaited(rest) /\ Kinds(rest) \subseteq {"send"}
  BY TaskEnds DEF Created
<1>2. new.kind = "send" /\ new.fresh /\ TaskFits(new, Len(srv))
  BY <1>1, NewSending DEF SendTask
<1>3. r = "ok" => t.batch # 0
  BY <1>1 DEF TaskFits
<1>4. /\ UNCHANGED <<preview, flags>>
      /\ batchId' = IF r = "ok" THEN t.batch ELSE batchId
      /\ items' = items \/ (r = "ok" /\ items' = Uploading)
      /\ \/ tasks' = rest \cup {new} /\ status' = status
         \/ tasks' = rest /\ status' \in {"error", "uploaded"}
  BY DEF Created
<1>5. ListFits(items') /\ DOMAIN items' = DOMAIN items
  BY <1>4, UploadingFits DEF FlowInv, Shape
<1> HIDE DEF rest, new
<1>6. /\ Kinds(rest \cup {new}) = Kinds(rest) \cup {new.kind} /\ Fit(rest \cup {new}, Len(srv))
      /\ Heeded(rest) => Heeded(rest \cup {new})
      /\ PollsHeeded(rest) => PollsHeeded(rest \cup {new})
      /\ OneAwaited(rest) => OneAwaited(rest \cup {new})
  BY <1>1, <1>2, Added
<1>7. /\ Fit(tasks', Len(srv))
      /\ \/ Kinds(tasks') = Kinds(rest) /\ status' \in {"error", "uploaded"}
         \/ Kinds(tasks') = Kinds(rest) \cup {"send"} /\ status' = status
      /\ Heeded(tasks) => Heeded(tasks')
      /\ PollsHeeded(tasks) => PollsHeeded(tasks')
      /\ OneAwaited(tasks) => OneAwaited(tasks') /\ Kinds(rest) \subseteq {"send"}
  <2>1. CASE tasks' = rest \cup {new} /\ status' = status
    BY <1>1, <1>2, <1>6, <2>1
  <2>2. CASE tasks' = rest /\ status' \in {"error", "uploaded"}
    BY <1>1, <2>2
  <2> QED BY <1>4, <2>1, <2>2
<1>8. Shape'
  BY <1>1, <1>4, <1>5, <1>7 DEF FlowInv, Shape, flags, PageStates
<1>9. Ends'
  BY <1>1, <1>4, <1>7 DEF FlowInv, Ends, flags
<1>10. ASSUME ~Impatient PROVE Orderly'
  BY <1>1, <1>3, <1>4, <1>5, <1>7, <1>10 DEF FlowInv, Orderly, Fresh
<1> QED BY <1>8, <1>9, <1>10 DEF FlowInv, Impatient

LEMMA CancelledKeeps ==
  ASSUME FlowInv, viewer' = viewer, srv' = srv, NEW t \in tasks, NEW r, Cancelled(t, r)
  PROVE  FlowInv'
<1> DEFINE rest == tasks \ {t}
<1>1. /\ Len(srv) \in Nat /\ Kinds(tasks) = Kinds(rest) \cup {"cancel"} /\ Fit(rest, Len(srv))
      /\ Heeded(tasks) => Heeded(rest)
      /\ PollsHeeded(tasks) => PollsHeeded(rest)
      /\ OneAwaited(tasks) => OneAwaited(rest) /\ Kinds(rest) \subseteq {"send"}
  BY TaskEnds DEF Cancelled
<1>2. /\ UNCHANGED flags
      /\ \/ /\ tasks' = Detached(rest) /\ batchId' = 0 /\ items' = [p \in {} |-> "pending"]
            /\ preview' = None /\ status' = "idle"
         \/ tasks' = rest /\ UNCHANGED <<batchId, items, preview, status>>
  BY DEF Cancelled
<1> HIDE DEF rest
<1>3. /\ Fit(tasks', Len(srv)) /\ Kinds(tasks') = Kinds(rest)
      /\ Heeded(rest) => Heeded(tasks')
      /\ PollsHeeded(rest) => PollsHeeded(tasks')
      /\ OneAwaited(rest) => OneAwaited(tasks')
  BY <1>1, <1>2, DetachedFacts
<1>4. ListFits(items') /\ ViewFits(preview', Len(srv)) /\ batchId' \in 0 .. Len(srv) /\ status' \in PageStates
  BY <1>1, <1>2 DEF FlowInv, Shape, ListFits, ViewFits, PageStates
<1>5. Shape'
  BY <1>2, <1>3, <1>4 DEF FlowInv, Shape, flags
<1>6. Ends'
  BY <1>1, <1>2, <1>3 DEF FlowInv, Ends, flags
<1>7. ASSUME ~Impatient PROVE Orderly'
  BY <1>1, <1>2, <1>3, <1>7 DEF FlowInv, Orderly, Fresh
<1> QED BY <1>5, <1>6, <1>7 DEF FlowInv, Impatient

LEMMA RemovedKeeps ==
  ASSUME FlowInv, viewer' = viewer, srv' = srv, NEW t \in tasks, NEW r, Removed(t, r)
  PROVE  FlowInv'
<1> DEFINE rest == tasks \ {t}
           old == Outdated(rest, {"restore", "poll"})
<1>1. /\ Len(srv) \in Nat /\ Kinds(tasks) = Kinds(rest) \cup {"remove"} /\ Fit(rest, Len(srv))
      /\ PollsHeeded(tasks) => PollsHeeded(rest)
      /\ OneAwaited(tasks) => OneAwaited(rest) /\ Kinds(rest) \subseteq {"send"}
  BY TaskEnds DEF Removed
<1>2. /\ Fit(old, Len(srv)) /\ Kinds(old) = Kinds(rest)
      /\ "poll" \notin Kinds(rest) => PollsHeeded(old)
      /\ OneAwaited(rest) => OneAwaited(old)
  BY <1>1, OutdatedFacts
<1>3. /\ removingFiles' = FALSE /\ UNCHANGED <<preview, checkingSelection, resuming, restoringLatest>>
      /\ \/ RemovedFrom(t.paths, r = "cancelled") /\ tasks' \in {old, Detached(old)}
         \/ tasks' = rest /\ UNCHANGED <<items, status, batchId>>
  BY DEF Removed
<1> HIDE DEF rest, old
<1>4. /\ Fit(tasks', Len(srv)) /\ Kinds(tasks') = Kinds(rest)
      /\ OneAwaited(rest) => OneAwaited(tasks')
      /\ PollsHeeded(tasks) /\ Kinds(rest) \subseteq {"send"} => PollsHeeded(tasks')
  BY <1>1, <1>2, <1>3, DetachedFacts
<1>5. /\ ListFits(items') /\ DOMAIN items' \subseteq DOMAIN items
      /\ batchId' = batchId \/ (batchId' = 0 /\ DOMAIN items' = {})
      /\ status' \in {"error", "uploaded", "idle", status}
  <2>1. ListFits(items)
    BY DEF FlowInv, Shape
  <2>2. CASE RemovedFrom(t.paths, r = "cancelled")
    <3>1. PICK cancelled \in BOOLEAN : cancelled = (r = "cancelled")
      OBVIOUS
    <3>2. RemovedFrom(t.paths, cancelled)
      BY <2>2, <3>1
    <3> QED BY <2>1, <3>2, RemovedFromFacts
  <2> QED BY <1>3, <2>1, <2>2
<1>6. ~restoringLatest
  BY <1>1 DEF FlowInv, Ends
<1>7. Shape'
  <2>1. batchId' \in 0 .. Len(srv)
    BY <1>1, <1>5 DEF FlowInv, Shape
  <2>2. status' \in PageStates
    BY <1>5 DEF FlowInv, Shape, PageStates
  <2>3. removingFiles' \in BOOLEAN
    BY <1>3, <1>1 DEF FlowInv, Shape
  <2> QED BY <1>3, <1>4, <1>5, <2>1, <2>2, <2>3 DEF FlowInv, Shape
<1>8. Ends'
  BY <1>1, <1>3, <1>4, <1>5, <1>6 DEF FlowInv, Ends
<1>9. ASSUME ~Impatient PROVE Orderly'
  BY <1>1, <1>3, <1>4, <1>5, <1>9 DEF FlowInv, Orderly, Fresh
<1> QED BY <1>7, <1>8, <1>9 DEF FlowInv, Impatient

LEMMA CompletedKeeps ==
  ASSUME FlowInv, viewer' = viewer, srv' = srv, NEW t \in tasks, NEW r, Completed(t, r)
  PROVE  FlowInv'
<1> DEFINE rest == tasks \ {t}
<1>1. /\ Len(srv) \in Nat /\ t.batch \in 0 .. Len(srv)
      /\ Kinds(tasks) = Kinds(rest) \cup {"complete"} /\ Fit(rest, Len(srv))
      /\ Heeded(tasks) => Heeded(rest)
      /\ PollsHeeded(tasks) => PollsHeeded(rest)
      /\ OneAwaited(tasks) => OneAwaited(rest) /\ Kinds(rest) \subseteq {"send"}
  BY TaskEnds DEF Completed
<1>2. /\ Fit(Polled(t, t.batch), Len(srv)) /\ Kinds(Polled(t, t.batch)) = Kinds(rest) \cup {"poll"}
      /\ Heeded(rest) => Heeded(Polled(t, t.batch))
      /\ Kinds(rest) \subseteq {"send"} => PollsHeeded(Polled(t, t.batch)) /\ OneAwaited(Polled(t, t.batch))
  BY <1>1, PolledFacts
<1>3. /\ UNCHANGED <<items, batchId, preview, flags>>
      /\ \/ tasks' = Polled(t, t.batch) /\ status' = status
         \/ tasks' = rest /\ status' = "error"
  BY DEF Completed
<1> HIDE DEF rest
<1>4. Shape'
  BY <1>1, <1>2, <1>3 DEF FlowInv, Shape, flags, PageStates
<1>5. Ends'
  BY <1>1, <1>2, <1>3 DEF FlowInv, Ends, flags
<1>6. ASSUME ~Impatient PROVE Orderly'
  BY <1>1, <1>2, <1>3, <1>6 DEF FlowInv, Orderly, Fresh
<1> QED BY <1>4, <1>5, <1>6 DEF FlowInv, Impatient

LEMMA ResumedKeeps ==
  ASSUME FlowInv, viewer' = viewer, srv' = srv, NEW t \in tasks, NEW r, Resumed(t, r)
  PROVE  FlowInv'
<1> DEFINE rest == tasks \ {t}
<1>1. /\ Len(srv) \in Nat /\ t.batch \in 0 .. Len(srv)
      /\ Kinds(tasks) = Kinds(rest) \cup {"confirm"} /\ Fit(rest, Len(srv))
      /\ Heeded(tasks) => Heeded(rest)
      /\ PollsHeeded(tasks) => PollsHeeded(rest)
      /\ OneAwaited(tasks) => OneAwaited(rest) /\ Kinds(rest) \subseteq {"send"}
  BY TaskEnds DEF Resumed
<1>2. /\ Fit(Polled(t, t.batch), Len(srv)) /\ Kinds(Polled(t, t.batch)) = Kinds(rest) \cup {"poll"}
      /\ Heeded(rest) => Heeded(Polled(t, t.batch))
      /\ Kinds(rest) \subseteq {"send"} => PollsHeeded(Polled(t, t.batch)) /\ OneAwaited(Polled(t, t.batch))
  BY <1>1, PolledFacts
<1>3. /\ resuming' = FALSE
      /\ UNCHANGED <<items, batchId, checkingSelection, removingFiles, restoringLatest>>
      /\ \/ /\ tasks' = Polled(t, t.batch) /\ status' = "processing"
            /\ preview' = IF preview = None THEN None ELSE <<[preview[1] EXCEPT !.status = "PROCESSING"]>>
         \/ tasks' = rest /\ status' = status /\ preview' = preview
  BY DEF Resumed
<1> HIDE DEF rest
<1>4. ViewFits(preview', Len(srv)) /\ (preview' # None => preview # None)
  BY <1>3 DEF FlowInv, Shape, ViewFits
<1>5. Shape'
  BY <1>1, <1>2, <1>3, <1>4 DEF FlowInv, Shape, PageStates, Busy
<1>6. Ends'
  BY <1>1, <1>2, <1>3 DEF FlowInv, Ends
<1>7. ASSUME ~Impatient PROVE Orderly'
  BY <1>1, <1>2, <1>3, <1>4, <1>7 DEF FlowInv, Orderly, Fresh
<1> QED BY <1>5, <1>6, <1>7 DEF FlowInv, Impatient

LEMMA StatusFacts ==
  ASSUME NEW v
  PROVE  /\ StatusOf(v) \in {"preflight", "processing", "error", "cancelled", "ready"}
         /\ StatusOf(v) \in {"preflight", "processing"} => v.status \in {"RUNNING", "PROCESSING"}
BY DEF StatusOf

LEMMA RefreshedKeeps ==
  ASSUME FlowInv, RefreshLimit \in Nat, viewer' = viewer, srv' = srv, NEW t \in tasks, NEW r, Refreshed(t, r)
  PROVE  FlowInv'
<1> DEFINE rest == tasks \ {t}
           next == Task("poll", t.batch)
           again == [t EXCEPT !.failures = t.failures + 1, !.reply = "none", !.seen = None]
<1>1. /\ Len(srv) \in Nat /\ TaskFits(t, Len(srv)) /\ t.batch \in 0 .. Len(srv) /\ t.kind = "poll"
      /\ Kinds(tasks) = Kinds(rest) \cup {"poll"} /\ Fit(rest, Len(srv))
      /\ Heeded(tasks) => Heeded(rest)
      /\ PollsHeeded(tasks) => PollsHeeded(rest)
      /\ OneAwaited(tasks) => OneAwaited(rest) /\ Kinds(rest) \subseteq {"send"}
  BY TaskEnds DEF Refreshed
<1>2. next.kind = "poll" /\ next.fresh /\ TaskFits(next, Len(srv))
  BY <1>1, NewTask
<1>3. again.kind = "poll" /\ again.fresh = t.fresh /\ TaskFits(again, Len(srv))
  BY <1>1 DEF TaskFits, TaskFields, ViewFits
<1>4. ASSUME NEW u, u.kind = "poll", u.fresh, TaskFits(u, Len(srv))
      PROVE  /\ Kinds(rest \cup {u}) = Kinds(rest) \cup {"poll"} /\ Fit(rest \cup {u}, Len(srv))
             /\ Heeded(rest) => Heeded(rest \cup {u})
             /\ PollsHeeded(rest) => PollsHeeded(rest \cup {u})
             /\ Kinds(rest) \subseteq {"send"} => OneAwaited(rest \cup {u})
  <2> HIDE DEF rest, next, again
  <2>1. /\ Kinds(rest \cup {u}) = Kinds(rest) \cup {u.kind}
        /\ Fit(rest, Len(srv)) /\ TaskFits(u, Len(srv)) => Fit(rest \cup {u}, Len(srv))
        /\ Heeded(rest) => Heeded(rest \cup {u})
        /\ PollsHeeded(rest) /\ u.fresh => PollsHeeded(rest \cup {u})
        /\ Kinds(rest) \subseteq {"send"} => OneAwaited(rest \cup {u})
    BY Added
  <2> QED BY <1>1, <1>4, <2>1
<1>5. t.fresh => tasks' \in {rest \cup {next}, rest \cup {again}, rest}
  BY DEF Refreshed
<1>6. ~t.fresh => tasks' = rest
  BY DEF Refreshed
<1>7. \/ preview' = t.seen /\ status' = StatusOf(t.seen[1])
      \/ preview' = preview /\ status' \in {"error", status}
  BY DEF Refreshed
<1>8. UNCHANGED <<items, batchId, flags>>
  BY DEF Refreshed
<1>9. status' \in {"preflight", "processing"} /\ t.fresh => tasks' \in {rest \cup {next}, rest \cup {again}}
  <2>1. CASE r = "ok"
    BY <2>1, StatusFacts DEF Refreshed
  <2>2. CASE r # "ok"
    BY <1>1, <2>2 DEF Refreshed, TaskFits
  <2> QED BY <2>1, <2>2
<1>10. status' \in PageStates /\ (status' = "uploading" => status = "uploading")
  BY <1>7, StatusFacts DEF FlowInv, Shape, PageStates, Busy
<1>11. ViewFits(preview', Len(srv))
  BY <1>1, <1>7 DEF FlowInv, Shape, TaskFits
<1> HIDE DEF rest, next, again
<1>12. /\ Fit(tasks', Len(srv))
       /\ Kinds(tasks') \in {Kinds(rest), Kinds(rest) \cup {"poll"}}
       /\ status' \in {"preflight", "processing"} /\ t.fresh => Kinds(tasks') = Kinds(rest) \cup {"poll"}
       /\ Heeded(rest) => Heeded(tasks')
       /\ PollsHeeded(rest) => PollsHeeded(tasks')
       /\ Kinds(rest) \subseteq {"send"} /\ OneAwaited(rest) => OneAwaited(tasks')
  <2>1. CASE t.fresh /\ \E u \in {next, again} : tasks' = rest \cup {u}
    <3>1. PICK u \in {next, again} : tasks' = rest \cup {u}
      BY <2>1
    <3>2. u.kind = "poll" /\ u.fresh /\ TaskFits(u, Len(srv))
      BY <1>2, <1>3, <2>1
    <3> QED BY <1>4, <3>1, <3>2
  <2>2. CASE tasks' = rest /\ ~(status' \in {"preflight", "processing"} /\ t.fresh)
    BY <1>1, <2>2
  <2>3. CASE tasks' = rest /\ status' \in {"preflight", "processing"} /\ t.fresh
    BY <1>9, <2>1, <2>3
  <2> QED BY <1>5, <1>6, <2>1, <2>2, <2>3
<1>13. Shape'
  BY <1>8, <1>10, <1>11, <1>12 DEF FlowInv, Shape, flags
<1>14. Ends'
  BY <1>1, <1>8, <1>10, <1>12 DEF FlowInv, Ends, flags
<1>15. ASSUME ~Impatient PROVE Orderly'
  <2>1. Orderly
    BY <1>15 DEF FlowInv
  <2>2. t.fresh
    BY <1>1, <2>1 DEF Orderly, PollsHeeded
  <2>3. Fresh'
    BY <1>1, <1>8, <2>1 DEF Orderly, Fresh
  <2> QED BY <1>1, <1>12, <2>1, <2>2, <2>3 DEF Orderly
<1> QED BY <1>13, <1>14, <1>15 DEF FlowInv, Impatient

LEMMA RestoredKeeps ==
  ASSUME FlowInv, viewer' = viewer, srv' = srv, NEW t \in tasks, NEW r, Restored(t, r)
  PROVE  FlowInv'
<1> DEFINE rest == tasks \ {t}
           v == t.seen[1]
           found == r = "ok" /\ t.fresh /\ t.seen # None
           staged == found /\ v.upload
           whole == staged /\ v.ready
           polls == found /\ ~staged /\ v.status \in {"RUNNING", "PROCESSING"}
           list == [p \in DOMAIN v.files |-> IF v.files[p] = "FAILED" THEN "failed" ELSE "complete"]
<1>1. /\ Len(srv) \in Nat /\ TaskFits(t, Len(srv)) /\ t.kind = "restore"
      /\ Kinds(tasks) = Kinds(rest) \cup {"restore"} /\ Fit(rest, Len(srv))
      /\ Heeded(tasks) /\ ~t.fresh => Heeded(rest)
      /\ PollsHeeded(tasks) => PollsHeeded(rest)
      /\ OneAwaited(tasks) => OneAwaited(rest) /\ Kinds(rest) \subseteq {"send"}
  BY TaskEnds DEF Restored
<1>2. found => v.batch \in 1 .. Len(srv) /\ DOMAIN v.files \subseteq Paths /\ ViewFits(t.seen, Len(srv))
  BY <1>1 DEF TaskFits, ViewFits
<1>3. /\ restoringLatest' = (restoringLatest /\ ~t.fresh)
      /\ batchId' = IF staged THEN v.batch ELSE batchId
      /\ preview' = IF whole THEN None ELSE IF found THEN t.seen ELSE preview
      /\ status' = IF whole THEN "uploaded" ELSE IF staged THEN "error"
                   ELSE IF found THEN StatusOf(v) ELSE status
      /\ items' = IF whole THEN list ELSE items
      /\ tasks' = IF polls THEN Polled(t, v.batch) ELSE rest
      /\ UNCHANGED <<checkingSelection, resuming, removingFiles>>
  BY DEF Restored
<1>4. polls => /\ Fit(Polled(t, v.batch), Len(srv)) /\ Kinds(Polled(t, v.batch)) = Kinds(rest) \cup {"poll"}
               /\ Heeded(rest) => Heeded(Polled(t, v.batch))
               /\ Kinds(rest) \subseteq {"send"} =>
                    PollsHeeded(Polled(t, v.batch)) /\ OneAwaited(Polled(t, v.batch))
  <2>1. found => v.batch \in 0 .. Len(srv)
    BY <1>1, <1>2
  <2> HIDE DEF v
  <2> QED BY <1>1, <2>1, PolledFacts
<1>5. ListFits(list) \/ ~found
  BY <1>2 DEF ListFits, ItemStates
<1>6. /\ StatusOf(v) \in {"preflight", "processing", "error", "cancelled", "ready"}
      /\ StatusOf(v) \in {"preflight", "processing"} => v.status \in {"RUNNING", "PROCESSING"}
  BY StatusFacts
<1> HIDE DEF rest, list, v
<1>7. ListFits(items') /\ ViewFits(preview', Len(srv)) /\ batchId' \in 0 .. Len(srv)
  BY <1>1, <1>2, <1>3, <1>5 DEF FlowInv, Shape, ViewFits
<1>8. status' \in PageStates /\ (status' = "uploading" => status = "uploading")
  BY <1>3, <1>6 DEF FlowInv, Shape, PageStates, Busy
<1>9. /\ Fit(tasks', Len(srv)) /\ Kinds(tasks') = IF polls THEN Kinds(rest) \cup {"poll"} ELSE Kinds(rest)
      /\ Heeded(rest) => Heeded(tasks')
      /\ PollsHeeded(rest) /\ OneAwaited(rest) /\ Kinds(rest) \subseteq {"send"} =>
           PollsHeeded(tasks') /\ OneAwaited(tasks')
  BY <1>1, <1>3, <1>4
<1>10. Shape'
  BY <1>3, <1>7, <1>8, <1>9 DEF FlowInv, Shape
<1>11. Ends'
  BY <1>1, <1>3, <1>8, <1>9 DEF FlowInv, Ends
<1>12. ASSUME ~Impatient PROVE Orderly'
  <2>1. Orderly
    BY <1>12 DEF FlowInv
  <2>2. Kinds(rest) \subseteq {"send"} /\ OneAwaited(tasks') /\ PollsHeeded(tasks')
    BY <1>1, <1>9, <2>1 DEF Orderly
  <2>3. Fresh'
    <3>1. batchId' = 0 => ~staged /\ batchId = 0 /\ items' = items
      BY <1>1, <1>2, <1>3
    <3>2. batchId = 0 => DOMAIN items = {}
      BY <1>1, <2>1 DEF Orderly, Fresh
    <3> QED BY <3>1, <3>2 DEF Fresh
  <2>4. status \notin {"preflight", "processing"}
    BY <1>1, <2>1, <2>2 DEF Orderly
  <2>5. status' \in {"preflight", "processing"} => polls
    BY <1>3, <1>6, <2>4
  <2> QED BY <1>9, <2>2, <2>3, <2>5 DEF Orderly
<1> QED BY <1>10, <1>11, <1>12 DEF FlowInv, Impatient

LEMMA SentKeeps ==
  ASSUME FlowInv, viewer' = viewer, srv' = srv, NEW t \in tasks, NEW p, NEW r, Sent(t, p, r)
  PROVE  FlowInv'
<1> DEFINE left == [q \in DOMAIN t.sent \ {p} |-> t.sent[q]]
           on(s, x) == [t EXCEPT !.sent = s, !.failed = x]
<1>1. /\ Len(srv) \in Nat /\ TaskFits(t, Len(srv)) /\ t.kind = "send"
      /\ Kinds(tasks) = Kinds(tasks \ {t}) \cup {"send"} /\ Fit(tasks \ {t}, Len(srv))
      /\ Heeded(tasks) => Heeded(tasks \ {t})
      /\ PollsHeeded(tasks) => PollsHeeded(tasks \ {t})
      /\ OneAwaited(tasks) => OneAwaited(tasks \ {t})
  BY TaskEnds DEF Sent
<1>2. /\ UNCHANGED <<batchId, preview, flags>>
      /\ \/ tasks' = tasks \ {t} /\ status' \in {"error", "uploaded"}
         \/ status' = status /\ \E s, x : tasks' = (tasks \ {t}) \cup {on(s, x)}
  BY DEF Sent
<1>3. ListFits(items') /\ DOMAIN items' = DOMAIN items
  BY DEF FlowInv, Shape, ListFits, ItemStates, Sent
<1>4. /\ Fit(tasks', Len(srv))
      /\ \/ Kinds(tasks') = Kinds(tasks \ {t}) /\ status' \in {"error", "uploaded"}
         \/ Kinds(tasks') = Kinds(tasks) /\ status' = status
      /\ Heeded(tasks) => Heeded(tasks')
      /\ PollsHeeded(tasks) => PollsHeeded(tasks')
      /\ OneAwaited(tasks) => OneAwaited(tasks')
  <2>1. CASE tasks' = tasks \ {t} /\ status' \in {"error", "uploaded"}
    BY <1>1, <2>1
  <2>2. CASE status' = status /\ \E s, x : tasks' = (tasks \ {t}) \cup {on(s, x)}
    <3>1. PICK s, x : tasks' = (tasks \ {t}) \cup {on(s, x)}
      BY <2>2
    <3>2. on(s, x).kind = t.kind /\ on(s, x).fresh = t.fresh /\ TaskFits(on(s, x), Len(srv))
      BY <1>1 DEF TaskFits, TaskFields
    <3> HIDE DEF on
    <3> QED BY <1>1, <2>2, <3>1, <3>2, Replaced
  <2> QED BY <1>2, <2>1, <2>2
<1>5. Shape'
  BY <1>2, <1>3, <1>4 DEF FlowInv, Shape, flags, PageStates
<1>6. Ends'
  BY <1>1, <1>2, <1>4 DEF FlowInv, Ends, flags
<1>7. ASSUME ~Impatient PROVE Orderly'
  BY <1>1, <1>2, <1>3, <1>4, <1>7 DEF FlowInv, Orderly, Fresh
<1> QED BY <1>5, <1>6, <1>7 DEF FlowInv, Impatient

LEMMA SkippedKeeps ==
  ASSUME FlowInv, viewer' = viewer, srv' = srv, NEW t \in tasks, NEW p, NEW r, Skipped(t, p, r)
  PROVE  FlowInv'
<1> DEFINE left == [q \in DOMAIN t.sent \ {p} |-> t.sent[q]]
           on(s) == [t EXCEPT !.sent = s]
<1>1. /\ Len(srv) \in Nat /\ TaskFits(t, Len(srv)) /\ t.kind = "skip"
      /\ Kinds(tasks) = Kinds(tasks \ {t}) \cup {"skip"} /\ Fit(tasks \ {t}, Len(srv))
      /\ Heeded(tasks) => Heeded(tasks \ {t})
      /\ PollsHeeded(tasks) => PollsHeeded(tasks \ {t})
      /\ OneAwaited(tasks) => OneAwaited(tasks \ {t})
  BY TaskEnds DEF Skipped
<1>2. /\ UNCHANGED <<batchId, preview, flags>>
      /\ \/ tasks' = tasks \ {t} /\ status' \in {"error", "uploaded"}
         \/ status' = status /\ \E s : tasks' = (tasks \ {t}) \cup {on(s)}
  BY DEF Skipped
<1>3. ListFits(items') /\ DOMAIN items' = DOMAIN items
  BY DEF FlowInv, Shape, ListFits, ItemStates, Skipped
<1>4. /\ Fit(tasks', Len(srv))
      /\ \/ Kinds(tasks') = Kinds(tasks \ {t}) /\ status' \in {"error", "uploaded"}
         \/ Kinds(tasks') = Kinds(tasks) /\ status' = status
      /\ Heeded(tasks) => Heeded(tasks')
      /\ PollsHeeded(tasks) => PollsHeeded(tasks')
      /\ OneAwaited(tasks) => OneAwaited(tasks')
  <2>1. CASE tasks' = tasks \ {t} /\ status' \in {"error", "uploaded"}
    BY <1>1, <2>1
  <2>2. CASE status' = status /\ \E s : tasks' = (tasks \ {t}) \cup {on(s)}
    <3>1. PICK s : tasks' = (tasks \ {t}) \cup {on(s)}
      BY <2>2
    <3>2. on(s).kind = t.kind /\ on(s).fresh = t.fresh /\ TaskFits(on(s), Len(srv))
      BY <1>1 DEF TaskFits, TaskFields
    <3> HIDE DEF on
    <3> QED BY <1>1, <2>2, <3>1, <3>2, Replaced
  <2> QED BY <1>2, <2>1, <2>2
<1>5. Shape'
  BY <1>2, <1>3, <1>4 DEF FlowInv, Shape, flags, PageStates
<1>6. Ends'
  BY <1>1, <1>2, <1>4 DEF FlowInv, Ends, flags
<1>7. ASSUME ~Impatient PROVE Orderly'
  BY <1>1, <1>2, <1>3, <1>4, <1>7 DEF FlowInv, Orderly, Fresh
<1> QED BY <1>5, <1>6, <1>7 DEF FlowInv, Impatient

(* A page that has just been loaded.                                       *)
LEMMA LoadedFacts ==
  ASSUME NEW n \in Nat
  PROVE  LET T == {Task("restore", 0)}
         IN  /\ Fit(T, n) /\ Kinds(T) = {"restore"} /\ Heeded(T) /\ PollsHeeded(T) /\ OneAwaited(T)
<1> DEFINE u == Task("restore", 0)
<1>1. 0 \in 0 .. n
  OBVIOUS
<1>2. u.kind = "restore" /\ u.fresh /\ TaskFits(u, n)
  BY <1>1, NewTask
<1> HIDE DEF u
<1>3. Fit({u}, n) /\ Kinds({u}) = {"restore"} /\ Heeded({u}) /\ PollsHeeded({u}) /\ OneAwaited({u})
  BY <1>2 DEF Fit, Kinds, Heeded, PollsHeeded, OneAwaited
<1> QED BY <1>3 DEF u

LEMMA InitInv == ViewersFit /\ FlowInit => FlowInv
<1> SUFFICES ASSUME ViewersFit, FlowInit PROVE FlowInv
  OBVIOUS
<1>1. ServerFits(srv)
  <2>1. \/ srv = <<>>
        \/ \E row : RowFits(row) /\ srv = <<row>>
    <3>1. Earlier \subseteq ServerStates
      BY DEF ViewersFit, FlowInit, Earlier
    <3>2. \A f : DOMAIN f = Paths => RowFits([state |-> "UPLOADING", code |-> "NONE", files |-> f])
      BY DEF RowFits, ServerStates, Codes
    <3>3. \A s \in Earlier : RowFits([state |-> s, code |-> IF s = "FAILED" THEN "HARD" ELSE "NONE",
                                      files |-> [p \in Paths |-> "COMPLETE"]])
      BY <3>1 DEF RowFits, Codes
    <3> QED BY <3>2, <3>3 DEF FlowInit
  <2>2. CASE srv = <<>>
    BY <2>2 DEF ServerFits
  <2>3. CASE \E row : RowFits(row) /\ srv = <<row>>
    BY <2>3 DEF ServerFits
  <2> QED BY <2>1, <2>2, <2>3
<1>2. Len(srv) \in Nat
  BY <1>1 DEF ServerFits
<1>3. /\ Fit(tasks, Len(srv)) /\ Kinds(tasks) = {"restore"}
      /\ Heeded(tasks) /\ PollsHeeded(tasks) /\ OneAwaited(tasks)
  BY <1>2, LoadedFacts DEF FlowInit
<1>4. Shape
  <2>1. ListFits(items) /\ ViewFits(preview, Len(srv)) /\ status \in PageStates /\ batchId \in 0 .. Len(srv)
    BY <1>2 DEF FlowInit, ListFits, ViewFits, PageStates
  <2> QED BY <1>1, <1>3, <2>1 DEF FlowInit, Shape
<1>5. Ends
  BY <1>3 DEF FlowInit, Ends
<1>6. Orderly
  BY <1>3 DEF FlowInit, Orderly, Fresh
<1> QED BY <1>4, <1>5, <1>6 DEF FlowInv

LEMMA ReloadKeeps ==
  ASSUME FlowInv, viewer' = viewer, Reload
  PROVE  FlowInv'
<1>1. srv' = srv /\ Len(srv) \in Nat
  BY DEF FlowInv, Shape, ServerFits, Reload
<1>2. /\ Fit(tasks', Len(srv)) /\ Kinds(tasks') = {"restore"}
      /\ Heeded(tasks') /\ PollsHeeded(tasks') /\ OneAwaited(tasks')
  BY <1>1, LoadedFacts DEF Reload
<1>3. Shape'
  <2>1. ListFits(items') /\ ViewFits(preview', Len(srv)) /\ status' \in PageStates /\ batchId' \in 0 .. Len(srv)
    BY <1>1 DEF Reload, ListFits, ViewFits, PageStates
  <2> QED BY <1>1, <1>2, <2>1 DEF FlowInv, Reload, Shape
<1>4. Ends'
  BY <1>2 DEF Reload, Ends
<1>5. Orderly'
  BY <1>2 DEF Reload, Orderly, Fresh
<1> QED BY <1>3, <1>4, <1>5 DEF FlowInv

LEMMA ContinueKeeps ==
  ASSUME FlowInv, ViewersFit, viewer' = viewer, srv' = srv, NEW t \in tasks, NEW r,
         r # "lost" => r = t.reply, Continue(t, r)
  PROVE  FlowInv'
<1>1. CASE Created(t, r)
  BY <1>1, CreatedKeeps
<1>2. CASE Cancelled(t, r)
  BY <1>2, CancelledKeeps
<1>3. CASE Removed(t, r)
  BY <1>3, RemovedKeeps
<1>4. CASE Completed(t, r)
  BY <1>4, CompletedKeeps
<1>5. CASE Resumed(t, r)
  BY <1>5, ResumedKeeps
<1>6. CASE Refreshed(t, r)
  BY <1>6, RefreshedKeeps DEF ViewersFit
<1>7. CASE Restored(t, r)
  BY <1>7, RestoredKeeps
<1> QED BY <1>1, <1>2, <1>3, <1>4, <1>5, <1>6, <1>7 DEF Continue

LEMMA FlowStepKeeps ==
  ASSUME FlowInv, ViewersFit, viewer' = viewer, FlowStep
  PROVE  FlowInv'
<1>1. ASSUME NEW b \in DOMAIN srv, ServerMoves(b) PROVE FlowInv'
  BY <1>1, ServerMovesKeeps
<1>2. ASSUME NEW sel \in (SUBSET Paths) \ {{}}, Select(sel) PROVE FlowInv'
  BY <1>2, SelectKeeps
<1>3. ASSUME NEW sel \in (SUBSET DOMAIN items) \ {{}}, RemoveSelected(sel) PROVE FlowInv'
  BY <1>3, RemoveSelectedKeeps
<1>4. ASSUME Start \/ Cancel \/ Confirm \/ SkipFailed \/ Resume \/ Reload PROVE FlowInv'
  BY <1>4, StartKeeps, CancelKeeps, ConfirmKeeps, SkipFailedKeeps, ResumeKeeps, ReloadKeeps
<1>5. ASSUME NEW t \in tasks, Selected(t) PROVE FlowInv'
  BY <1>5, SelectedKeeps
<1>6. ASSUME NEW t \in tasks, Serve(t) PROVE FlowInv'
  BY <1>6, ServeKeeps
<1>7. ASSUME NEW t \in tasks, NEW p, NEW r, ContinueFile(t, p, r), srv' = srv PROVE FlowInv'
  BY <1>7, SentKeeps, SkippedKeeps DEF ContinueFile
<1>8. ASSUME NEW t \in tasks, Deliver(t) PROVE FlowInv'
  BY <1>7, <1>8, ContinueKeeps DEF Deliver
<1>9. ASSUME NEW t \in tasks, Lose(t) PROVE FlowInv'
  BY <1>7, <1>9, ContinueKeeps DEF Lose
<1> QED BY <1>1, <1>2, <1>3, <1>4, <1>5, <1>6, <1>8, <1>9 DEF FlowStep

LEMMA FlowNextKeeps == FlowInv /\ ViewersFit /\ [FlowNext]_flowVars => FlowInv'
<1> SUFFICES ASSUME FlowInv, ViewersFit, [FlowNext]_flowVars PROVE FlowInv'
  OBVIOUS
<1>1. CASE FlowNext
  BY <1>1, FlowStepKeeps DEF FlowNext
<1>2. CASE UNCHANGED flowVars
  <2>1. /\ ServerFits(srv) /\ Len(srv) \in Nat /\ Fit(tasks, Len(srv)) /\ UNCHANGED <<viewer, srv, tasks>>
        /\ UNCHANGED <<items, status, batchId, preview, flags>>
    BY <1>2 DEF flowVars, FlowInv, Shape, ServerFits
  <2> QED BY <2>1, PageRests
<1> QED BY <1>1, <1>2

(* Whatever the page says it is doing, a function of it is still about to  *)
(* finish.                                                                 *)
THEOREM PageGoesOnHolds == FlowSpec => []PageGoesOn
<1>1. FlowInit => FlowInv
  BY InitInv, UploadPageAssumption DEF UploadPageAssumption
<1>2. FlowInv /\ [FlowNext]_flowVars => FlowInv'
  BY FlowNextKeeps, UploadPageAssumption DEF UploadPageAssumption
<1> QED BY <1>1, <1>2, FlowInvTells, PTL DEF FlowSpec

-----------------------------------------------------------------------------
(* The list of a viewer who waits, and the batch it is handed over with.   *)

(* What a restoration has seen of a batch that can still be uploaded to is *)
(* what the batch is.                                                      *)
SeesBatch(t) ==
  t.seen # None /\ t.seen[1].upload =>
    LET b == t.seen[1].batch
    IN  /\ srv[b].state = "UPLOADING"
        /\ Has(b, {"COMPLETE"}) \subseteq DOMAIN t.seen[1].files
        /\ t.seen[1].ready \/ Has(b, {"PARTIAL"}) # {}

(* What is asked for the page's batch is about files on the list.          *)
Awaits(t) ==
  /\ t.kind = "restore" => batchId = 0 /\ DOMAIN items = {} /\ SeesBatch(t)
  /\ t.kind = "create" /\ t.reply = "ok" => t.batch = Len(srv) /\ Has(t.batch, {"COMPLETE"}) = {}
  /\ t.kind = "remove" => /\ t.batch = batchId /\ batchId # 0
                          /\ t.reply = "ok" => Has(batchId, {"COMPLETE"}) \cap t.paths = {}
  /\ t.kind = "send" /\ t.batch = batchId /\ batchId # 0 => DOMAIN t.sent \subseteq DOMAIN items

(* A file that is still sent is not of a batch that another task is about. *)
Apart(t, u) ==
  u.kind = "send" => /\ t.kind # "restore"
                     /\ t.kind = "create" /\ t.reply = "ok" => u.batch < t.batch
                     /\ t.kind = "remove" => u.batch # t.batch

(* A batch that was found without all of its files is left alone.          *)
Abandoned ==
  /\ DOMAIN items = {} /\ Has(batchId, {"PARTIAL"}) # {} /\ srv[batchId].state = "UPLOADING"
  /\ \A t \in tasks : t.kind \in {"send", "skip", "remove"} => t.batch # batchId

Listed == batchId # 0 => Has(batchId, {"COMPLETE"}) \subseteq DOMAIN items \/ Abandoned

ListInv == Listed /\ \A t \in tasks : Awaits(t) /\ \A u \in tasks : Apart(t, u)

(* A task that goes on as it was, and one that the list does not matter to. *)
Like(u, t) ==
  /\ u.kind = t.kind /\ u.batch = t.batch /\ u.paths = t.paths /\ u.reply = t.reply /\ u.seen = t.seen
  /\ DOMAIN u.sent \subseteq DOMAIN t.sent

Minor(u) ==
  \/ u.kind \in {"poll", "accept", "cancel", "complete", "confirm"}
  \/ u.kind = "create" /\ u.reply = "none"

Derived(U, T) == \A u \in U : Minor(u) \/ \E t \in T : Like(u, t)

LEMMA SubsetDerived ==
  ASSUME NEW T, NEW U \in SUBSET T
  PROVE  Derived(U, T)
BY DEF Derived, Like

LEMMA MinorDerived ==
  ASSUME NEW T, NEW U, Derived(U, T), NEW u, Minor(u)
  PROVE  Derived(U \cup {u}, T)
BY DEF Derived

LEMMA OutdatedDerived ==
  ASSUME NEW T, NEW ks, NEW n, Fit(T, n)
  PROVE  Derived(Outdated(T, ks), T)
<1>1. PICK no : no = FALSE
  OBVIOUS
<1> DEFINE f(t) == IF t.kind \in ks THEN [t EXCEPT !.fresh = no] ELSE t
<1>2. Outdated(T, ks) = {f(t) : t \in T}
  BY <1>1, Zenon DEF Outdated
<1>3. \A t \in T : Like(f(t), t)
  BY DEF Fit, TaskFits, TaskFields, Like
<1> HIDE DEF f
<1> QED BY <1>2, <1>3 DEF Derived

LEMMA DetachedDerived ==
  ASSUME NEW T, NEW n, Fit(T, n)
  PROVE  Derived(Detached(T), T)
<1>1. PICK no : no = FALSE
  OBVIOUS
<1> DEFINE f(t) == IF t.kind \in {"send", "skip"} THEN [t EXCEPT !.mine = no] ELSE t
<1>2. Detached(T) = {f(t) : t \in T}
  BY <1>1, Zenon DEF Detached
<1>3. \A t \in T : Like(f(t), t)
  BY DEF Fit, TaskFits, TaskFields, Like
<1> HIDE DEF f
<1> QED BY <1>2, <1>3 DEF Derived

LEMMA LikeMinor ==
  ASSUME NEW u, NEW t, Like(u, t), Minor(t)
  PROVE  Minor(u)
BY DEF Like, Minor

LEMMA DerivedTwice ==
  ASSUME NEW T, NEW U, NEW V, Derived(U, T), Derived(V, U)
  PROVE  Derived(V, T)
<1> SUFFICES ASSUME NEW v \in V PROVE Minor(v) \/ \E t \in T : Like(v, t)
  BY DEF Derived
<1>1. CASE Minor(v)
  BY <1>1
<1>2. ASSUME NEW u \in U, Like(v, u) PROVE Minor(v) \/ \E t \in T : Like(v, t)
  <2>1. CASE Minor(u)
    BY <1>2, <2>1, LikeMinor
  <2>2. ASSUME NEW t \in T, Like(u, t) PROVE Like(v, t)
    BY <1>2, <2>2 DEF Like
  <2> QED BY <2>1, <2>2 DEF Derived
<1> QED BY <1>1, <1>2 DEF Derived

LEMMA MinorFacts ==
  ASSUME NEW u, Minor(u)
  PROVE  Awaits(u) /\ (\A v : Apart(u, v) /\ Apart(v, u)) /\ u.kind \notin {"send", "skip", "remove", "restore"}
BY DEF Minor, Awaits, Apart

LEMMA LikeApart ==
  ASSUME NEW u, NEW t, NEW v, NEW w, Like(u, t), Like(v, w), Apart(t, w)
  PROVE  Apart(u, v)
BY DEF Like, Apart

LEMMA DerivedApart ==
  ASSUME NEW T, NEW U, Derived(U, T), \A t, w \in T : Apart(t, w)
  PROVE  \A u, v \in U : Apart(u, v)
<1> SUFFICES ASSUME NEW u \in U, NEW v \in U PROVE Apart(u, v)
  OBVIOUS
<1>1. CASE Minor(u) \/ Minor(v)
  BY <1>1, MinorFacts
<1>2. CASE \E t, w \in T : Like(u, t) /\ Like(v, w)
  BY <1>2, LikeApart
<1> QED BY <1>1, <1>2 DEF Derived

(* The page's list and batch stay, and so does the server.                 *)
LEMMA ListRests ==
  ASSUME ListInv, Derived(tasks', tasks), UNCHANGED <<srv, batchId>>, DOMAIN items' = DOMAIN items
  PROVE  ListInv'
<1>1. \A u, v \in tasks' : Apart(u, v)
  BY DerivedApart DEF ListInv
<1>2. ASSUME NEW u \in tasks' PROVE Awaits(u)'
  <2>1. CASE Minor(u)
    BY <2>1 DEF Minor, Awaits
  <2>2. ASSUME NEW t \in tasks, Like(u, t) PROVE Awaits(u)'
    <3>1. Awaits(t)
      BY DEF ListInv
    <3> QED BY <2>2, <3>1 DEF Awaits, SeesBatch, Has, Like
  <2> QED BY <2>1, <2>2 DEF Derived
<1>3. Listed'
  <2>1. ASSUME Abandoned PROVE Abandoned'
    BY <2>1 DEF Abandoned, Derived, Minor, Like, Has
  <2> QED BY <2>1 DEF ListInv, Listed, Has
<1> QED BY <1>1, <1>2, <1>3 DEF ListInv, Apart

(* The page lets go of its batch.                                          *)
LEMMA BatchLeft ==
  ASSUME ListInv, NEW T, Derived(tasks', T), T \subseteq tasks, \A t \in T : t.kind \notin {"restore", "remove"},
         srv' = srv, batchId' = 0
  PROVE  ListInv'
<1>1. \A u, v \in tasks' : Apart(u, v)
  BY DerivedApart DEF ListInv
<1>2. ASSUME NEW u \in tasks' PROVE Awaits(u)'
  <2>1. CASE Minor(u)
    BY <2>1 DEF Minor, Awaits
  <2>2. ASSUME NEW t \in T, Like(u, t) PROVE Awaits(u)'
    <3>1. Awaits(t) /\ t.kind \notin {"restore", "remove"}
      BY DEF ListInv
    <3> QED BY <2>2, <3>1 DEF Awaits, Has, Like
  <2> QED BY <2>1, <2>2 DEF Derived
<1> QED BY <1>1, <1>2 DEF ListInv, Listed, Apart

(* What the viewer does, for one who waits.                                *)

LEMMA Orders ==
  ASSUME FlowInv, ~Impatient
  PROVE  /\ Fit(tasks, Len(srv)) /\ ServerFits(srv) /\ Len(srv) \in Nat /\ batchId \in 0 .. Len(srv)
         /\ ListFits(items) /\ OneAwaited(tasks) /\ Fresh
BY DEF FlowInv, Orderly, Shape, ServerFits

LEMMA AskedList ==
  ASSUME ListInv, Cancel \/ Confirm \/ Resume
  PROVE  ListInv'
<1>1. PICK kind, b : kind \in {"cancel", "complete", "confirm"} /\ tasks' = tasks \cup {Task(kind, b)}
  BY DEF Cancel, Confirm, Resume
<1>2. Minor(Task(kind, b)) /\ Derived(tasks, tasks)
  BY <1>1, SubsetDerived DEF Minor, Task
<1>3. Derived(tasks', tasks)
  BY <1>1, <1>2, MinorDerived
<1> QED BY <1>3, ListRests DEF Cancel, Confirm, Resume

LEMMA SelectList ==
  ASSUME FlowInv, ListInv, NEW sel, Select(sel)
  PROVE  ListInv'
<1> DEFINE new == [Task("accept", 0) EXCEPT !.paths = sel]
<1>1. Derived(Outdated(tasks, {"restore"}), tasks)
  BY OutdatedDerived DEF FlowInv, Shape
<1>2. Minor(new)
  BY DEF Minor, Task
<1>3. tasks' = Outdated(tasks, {"restore"}) \cup {new}
  BY DEF Select
<1> HIDE DEF new
<1>4. Derived(tasks', tasks)
  BY <1>1, <1>2, <1>3, MinorDerived
<1> QED BY <1>4, ListRests DEF Select

(* A new task that the list matters to.                                    *)
LEMMA ListMatters ==
  ASSUME ListInv, Kinds(tasks) \subseteq {"send"}, NEW T, Derived(T, tasks), NEW new, tasks' = T \cup {new},
         UNCHANGED <<srv, batchId>>, DOMAIN items' = DOMAIN items, DOMAIN items # {},
         new.kind \in {"send", "skip", "remove"}, Awaits(new)', \A u \in tasks : Apart(new, u)
  PROVE  ListInv'
<1>1. ASSUME NEW u \in T PROVE Awaits(u)' /\ Apart(new, u)
  <2>1. CASE Minor(u)
    <3>1. Apart(new, u)
      BY <2>1, MinorFacts
    <3> QED BY <2>1, <3>1 DEF Minor, Awaits
  <2>2. ASSUME NEW t \in tasks, Like(u, t) PROVE Awaits(u)' /\ Apart(new, u)
    <3>1. Awaits(t) /\ t.kind = "send" /\ Apart(new, t)
      BY DEF ListInv, Kinds
    <3> QED BY <2>2, <3>1 DEF Awaits, Like, Apart
  <2> QED BY <2>1, <2>2 DEF Derived
<1>2. ASSUME NEW u \in T PROVE Apart(u, new)
  <2>1. CASE Minor(u)
    BY <2>1, MinorFacts
  <2>2. ASSUME NEW t \in tasks, Like(u, t) PROVE Apart(u, new)
    <3>1. t.kind = "send"
      BY DEF Kinds
    <3> QED BY <2>2, <3>1 DEF Like, Apart
  <2> QED BY <2>1, <2>2 DEF Derived
<1>3. \A u, v \in T : Apart(u, v)
  BY DerivedApart DEF ListInv
<1>4. Apart(new, new)
  BY DEF Apart
<1>5. Listed'
  BY DEF ListInv, Listed, Abandoned, Has
<1> QED BY <1>1, <1>2, <1>3, <1>4, <1>5 DEF ListInv, Apart

(* The viewer is not waiting for what the page's batch is asked.           *)
LEMMA NoSendAwaited ==
  ASSUME ~Impatient, MayAct
  PROVE  \A t \in tasks : t.kind = "send" => t.batch # batchId
BY DEF MayAct, Waits, Answered

LEMMA StartList ==
  ASSUME FlowInv, ~Impatient, ListInv, Start
  PROVE  ListInv'
<1> DEFINE create == [Task("create", 0) EXCEPT !.paths = DOMAIN items]
           old == Outdated(tasks, {"restore"})
<1>1. Derived(old, tasks)
  BY OutdatedDerived DEF FlowInv, Shape
<1>2. CASE tasks' = old \cup {create} /\ items' = items
  <2>1. Minor(create)
    BY DEF Minor, Task
  <2> HIDE DEF create, old
  <2>2. Derived(tasks', tasks)
    BY <1>1, <1>2, <2>1, MinorDerived
  <2> QED BY <1>2, <2>2, ListRests DEF Start
<1>3. CASE tasks' = old \cup {SendTask(batchId)} /\ items' = Uploading
  <2>1. PICK new : new = SendTask(batchId)
    OBVIOUS
  <2>2. new.kind = "send" /\ new.batch = batchId /\ DOMAIN new.sent \subseteq DOMAIN items
    BY <2>1 DEF SendTask, Task, Unsent
  <2>3. DOMAIN items' = DOMAIN items
    BY <1>3 DEF Uploading
  <2>4. Kinds(tasks) \subseteq {"send"} /\ DOMAIN items # {} /\ UNCHANGED <<srv, batchId>>
    BY Free DEF Start
  <2>5. Awaits(new)' /\ \A u \in tasks : Apart(new, u)
    BY <2>2, <2>3 DEF Awaits, Apart
  <2> HIDE DEF old
  <2> QED BY <1>1, <1>3, <2>1, <2>2, <2>3, <2>4, <2>5, ListMatters
<1> QED BY <1>2, <1>3 DEF Start

LEMMA SkipFailedList ==
  ASSUME FlowInv, ~Impatient, ListInv, SkipFailed
  PROVE  ListInv'
<1>1. PICK s : tasks' = tasks \cup {[Task("skip", batchId) EXCEPT !.sent = s]}
  BY DEF SkipFailed
<1>2. PICK new : new = [Task("skip", batchId) EXCEPT !.sent = s]
  OBVIOUS
<1>3. new.kind = "skip"
  BY <1>2 DEF Task
<1>4. Awaits(new)' /\ \A u \in tasks : Apart(new, u)
  BY <1>3 DEF Awaits, Apart
<1>5. /\ Kinds(tasks) \subseteq {"send"} /\ DOMAIN items # {}
      /\ UNCHANGED <<srv, batchId>> /\ DOMAIN items' = DOMAIN items
  BY Free DEF SkipFailed, canContinue, ItemsIn
<1>6. Derived(tasks, tasks)
  BY SubsetDerived
<1> QED BY <1>1, <1>2, <1>3, <1>4, <1>5, <1>6, ListMatters

LEMMA RemoveSelectedList ==
  ASSUME FlowInv, ~Impatient, ListInv, NEW sel \in (SUBSET DOMAIN items) \ {{}}, RemoveSelected(sel)
  PROVE  ListInv'
<1>1. DOMAIN items # {} /\ srv' = srv
  BY DEF RemoveSelected
<1>2. CASE batchId = 0 /\ RemovedFrom(sel, FALSE) /\ tasks' = Outdated(tasks, {"restore", "poll"})
  <2>1. Derived(tasks', tasks)
    BY <1>2, OutdatedDerived DEF FlowInv, Shape
  <2>2. \A t \in tasks : t.kind \notin {"restore", "remove"}
    BY <1>1, <1>2 DEF ListInv, Awaits
  <2>3. batchId' = 0
    BY <1>2 DEF RemovedFrom
  <2> QED BY <1>1, <2>1, <2>2, <2>3, BatchLeft
<1>3. CASE /\ batchId # 0 /\ MayAct /\ UNCHANGED <<items, batchId>>
           /\ tasks' = tasks \cup {[Task("remove", batchId) EXCEPT !.paths = sel]}
  <2>1. PICK new : new = [Task("remove", batchId) EXCEPT !.paths = sel]
    OBVIOUS
  <2>2. new.kind = "remove" /\ new.batch = batchId /\ new.reply = "none"
    BY <2>1 DEF Task
  <2>3. Awaits(new)' /\ \A u \in tasks : Apart(new, u)
    BY <1>3, <2>2, NoSendAwaited DEF Awaits, Apart
  <2>4. Kinds(tasks) \subseteq {"send"} /\ Derived(tasks, tasks)
    BY <1>3, Free, SubsetDerived
  <2> QED BY <1>1, <1>3, <2>1, <2>2, <2>3, <2>4, ListMatters
<1> QED BY <1>2, <1>3 DEF RemoveSelected

(* Nothing but files that are still sent is under way with task t.         *)
LEMMA OthersSend ==
  ASSUME FlowInv, ~Impatient, NEW t \in tasks, t.kind # "send"
  PROVE  \A u \in tasks \ {t} : u.kind = "send"
BY DEF FlowInv, Orderly, OneAwaited

LEMMA SelectedList ==
  ASSUME FlowInv, ~Impatient, ListInv, NEW t \in tasks, Selected(t)
  PROVE  ListInv'
<1> DEFINE rest == tasks \ {t}
           old == Outdated(rest, {"poll"})
<1>1. Fit(rest, Len(srv)) /\ Fit(old, Len(srv))
  BY OutdatedFacts DEF FlowInv, Shape, Fit
<1>2. Derived(rest, tasks) /\ Derived(rest, rest) /\ Derived(old, rest) /\ Derived(Detached(old), old)
  BY <1>1, SubsetDerived, OutdatedDerived, DetachedDerived
<1>3. Derived(Detached(old), rest)
  BY <1>2, DerivedTwice
<1>4. \A u \in rest : u.kind = "send"
  BY OthersSend DEF Selected
<1> HIDE DEF old
<1>5. CASE tasks' = rest /\ UNCHANGED <<items, batchId>>
  BY <1>2, <1>5, ListRests DEF Selected
<1>6. CASE tasks' = Detached(old) /\ batchId' = 0
  <2>1. PICK T : T = rest
    OBVIOUS
  <2>2. srv' = srv /\ T \subseteq tasks /\ \A u \in T : u.kind \notin {"restore", "remove"}
    BY <1>4, <2>1 DEF Selected
  <2>3. Derived(tasks', T)
    BY <1>3, <1>6, <2>1
  <2> QED BY <1>6, <2>2, <2>3, BatchLeft
<1> QED BY <1>5, <1>6 DEF Selected, old

LEMMA ReloadList ==
  ASSUME Reload
  PROVE  ListInv'
<1>1. batchId' = 0 /\ DOMAIN items' = {} /\ tasks' = {Task("restore", 0)}
  BY DEF Reload
<1>2. PICK u : u = Task("restore", 0)
  OBVIOUS
<1>3. u.kind = "restore" /\ u.seen = None
  BY <1>2 DEF Task
<1> QED BY <1>1, <1>2, <1>3 DEF ListInv, Listed, Awaits, Apart, SeesBatch

LEMMA FirstList ==
  ASSUME FlowInit
  PROVE  ListInv
<1>1. batchId = 0 /\ DOMAIN items = {} /\ tasks = {Task("restore", 0)}
  BY DEF FlowInit
<1>2. PICK u : u = Task("restore", 0)
  OBVIOUS
<1>3. u.kind = "restore" /\ u.seen = None
  BY <1>2 DEF Task
<1> QED BY <1>1, <1>2, <1>3 DEF ListInv, Listed, Awaits, Apart, SeesBatch

(* A task goes on, for a viewer who waits.                                 *)

LEMMA PolledDerived ==
  ASSUME FlowInv, NEW t \in tasks, NEW b
  PROVE  Derived(Polled(t, b), tasks)
<1> DEFINE rest == tasks \ {t}
           old == Outdated(rest, {"poll"})
<1>1. Derived(old, rest) /\ Derived(rest, tasks)
  BY SubsetDerived, OutdatedDerived DEF FlowInv, Shape, Fit
<1>2. Derived(old, tasks)
  BY <1>1, DerivedTwice
<1>3. Minor(Task("poll", b)) /\ Polled(t, b) = old \cup {Task("poll", b)}
  BY DEF Minor, Task, Polled
<1> HIDE DEF old
<1> QED BY <1>2, <1>3, MinorDerived

LEMMA CreatedList ==
  ASSUME FlowInv, ~Impatient, ListInv, srv' = srv, NEW t \in tasks, NEW r,
         r # "lost" => r = t.reply, Created(t, r)
  PROVE  ListInv'
<1>1. \A u \in tasks \ {t} : u.kind = "send" /\ Apart(t, u) /\ Awaits(u)
  BY OthersSend DEF Created, ListInv
<1>2. DOMAIN items' = DOMAIN items
  BY DEF Created, Uploading
<1>3. CASE r # "ok"
  <2>1. tasks' = tasks \ {t} /\ batchId' = batchId
    BY <1>3 DEF Created
  <2> QED BY <1>2, <2>1, SubsetDerived, ListRests
<1>4. CASE r = "ok"
  <2>1. Has(t.batch, {"COMPLETE"}) = {} /\ batchId' = t.batch
    BY <1>4 DEF Created, ListInv, Awaits
  <2>2. \A u \in tasks \ {t} : u.batch # t.batch
    <3>1. t.batch \in Nat
      BY Orders, <1>4 DEF Fit, TaskFits
    <3>2. \A u \in tasks \ {t} : u.batch < t.batch /\ u.batch \in Nat
      BY <1>1, <1>4, Orders DEF Created, Apart, Fit, TaskFits
    <3> QED BY <3>1, <3>2
  <2>3. PICK new : new = SendTask(t.batch)
    OBVIOUS
  <2>4. new.kind = "send" /\ DOMAIN new.sent \subseteq DOMAIN items
    BY <2>3 DEF SendTask, Task, Unsent
  <2>5. tasks' \subseteq (tasks \ {t}) \cup {new}
    BY <2>3 DEF Created
  <2>6. \A u \in tasks' : u.kind = "send" /\ Awaits(u)'
    BY <1>1, <1>2, <2>1, <2>2, <2>4, <2>5 DEF Awaits
  <2>7. \A u, v \in tasks' : Apart(u, v)
    BY <2>6 DEF Apart
  <2>8. Listed'
    BY <2>1 DEF Listed, Has
  <2> QED BY <2>6, <2>7, <2>8 DEF ListInv, Apart
<1> QED BY <1>3, <1>4

LEMMA CancelledList ==
  ASSUME FlowInv, ~Impatient, ListInv, srv' = srv, NEW t \in tasks, NEW r, Cancelled(t, r)
  PROVE  ListInv'
<1>1. PICK T : T = tasks \ {t}
  OBVIOUS
<1>2. T \subseteq tasks /\ \A u \in T : u.kind \notin {"restore", "remove"}
  BY <1>1, OthersSend DEF Cancelled
<1>3. Derived(Detached(T), T) /\ Derived(T, tasks)
  BY <1>1, SubsetDerived, DetachedDerived DEF FlowInv, Shape, Fit
<1>4. CASE tasks' = Detached(T) /\ batchId' = 0
  BY <1>2, <1>3, <1>4, BatchLeft
<1>5. CASE tasks' = T /\ UNCHANGED <<batchId, items>>
  BY <1>3, <1>5, ListRests
<1> QED BY <1>1, <1>4, <1>5 DEF Cancelled

LEMMA RemovedList ==
  ASSUME FlowInv, ~Impatient, ListInv, srv' = srv, NEW t \in tasks, NEW r,
         r # "lost" => r = t.reply, Removed(t, r)
  PROVE  ListInv'
<1>1. PICK T : T = tasks \ {t}
  OBVIOUS
<1>2. PICK old : old = Outdated(T, {"restore", "poll"})
  OBVIOUS
<1>3. T \subseteq tasks /\ \A u \in T : u.kind = "send" /\ Apart(t, u) /\ Awaits(u)
  BY <1>1, OthersSend DEF Removed, ListInv
<1>4. Fit(T, Len(srv)) /\ Fit(old, Len(srv))
  BY <1>1, <1>2, OutdatedFacts DEF FlowInv, Shape, Fit
<1>5. Derived(old, T) /\ Derived(T, tasks)
  BY <1>2, <1>3, <1>4, SubsetDerived, OutdatedDerived
<1>6. CASE r = "cancelled"
  <2>1. tasks' = Detached(old) /\ batchId' = 0
    BY <1>1, <1>2, <1>6 DEF Removed, RemovedFrom
  <2>2. Derived(tasks', T)
    BY <1>4, <1>5, <2>1, DetachedDerived, DerivedTwice
  <2>3. \A u \in T : u.kind \notin {"restore", "remove"}
    BY <1>3
  <2> QED BY <1>3, <2>1, <2>2, <2>3, BatchLeft
<1>7. CASE r = "ok"
  <2>1. tasks' = old /\ DOMAIN items' = DOMAIN items \ t.paths /\ batchId' = batchId
    BY <1>1, <1>2, <1>7 DEF Removed, RemovedFrom
  <2>2. t.batch = batchId /\ batchId # 0 /\ Has(batchId, {"COMPLETE"}) \cap t.paths = {}
    BY <1>7 DEF Removed, ListInv, Awaits
  <2>3. ASSUME NEW u \in tasks'
        PROVE  u.kind \notin {"create", "restore", "remove"} /\ (u.kind = "send" => u.batch # batchId)
    <3>1. CASE \E v \in T : Like(u, v)
      <4>1. \A v \in T : v.kind = "send" /\ v.batch # batchId
        BY <1>3, <2>2 DEF Removed, Apart
      <4> QED BY <3>1, <4>1 DEF Like
    <3>2. CASE Minor(u)
      <4>1. \A w \in old : \E v \in T : w.kind = v.kind
        BY <1>2, <1>4, OutdatedFacts DEF Kinds
      <4> QED BY <1>3, <2>1, <3>2, <4>1 DEF Minor
    <3> QED BY <1>5, <2>1, <3>1, <3>2 DEF Derived
  <2>4. \A u, v \in tasks' : Awaits(u)' /\ Apart(u, v)
    BY <2>1, <2>3 DEF Awaits, Apart
  <2>5. Has(batchId, {"COMPLETE"}) \subseteq DOMAIN items
    BY <2>2 DEF ListInv, Listed, Abandoned, Removed
  <2>6. Listed'
    BY <2>1, <2>2, <2>5 DEF Listed, Has
  <2> QED BY <2>4, <2>6 DEF ListInv, Apart
<1>8. CASE r \notin {"ok", "cancelled"}
  <2>1. tasks' = T /\ UNCHANGED <<items, batchId>>
    BY <1>1, <1>8 DEF Removed
  <2> QED BY <1>5, <2>1, ListRests
<1> QED BY <1>6, <1>7, <1>8

LEMMA FollowedList ==
  ASSUME FlowInv, ListInv, srv' = srv, NEW t \in tasks, NEW r, Completed(t, r) \/ Resumed(t, r)
  PROVE  ListInv'
<1>1. /\ tasks' = Polled(t, t.batch) \/ tasks' = tasks \ {t}
      /\ UNCHANGED <<items, batchId>>
  BY DEF Completed, Resumed
<1>2. Derived(tasks', tasks)
  BY <1>1, PolledDerived, SubsetDerived
<1> QED BY <1>1, <1>2, ListRests

LEMMA RefreshedList ==
  ASSUME FlowInv, ListInv, srv' = srv, NEW t \in tasks, NEW r, Refreshed(t, r)
  PROVE  ListInv'
<1>1. PICK next : next = Task("poll", t.batch)
  OBVIOUS
<1>2. PICK again : again = [t EXCEPT !.failures = t.failures + 1, !.reply = "none", !.seen = None]
  OBVIOUS
<1>3. tasks' \in {(tasks \ {t}) \cup {next}, (tasks \ {t}) \cup {again}, tasks \ {t}}
  BY <1>1, <1>2 DEF Refreshed
<1>4. Minor(next) /\ Minor(again)
  BY <1>1, <1>2 DEF Minor, Task, Refreshed, FlowInv, Shape, Fit, TaskFits, TaskFields
<1>5. Derived(tasks \ {t}, tasks)
  BY SubsetDerived
<1>6. Derived(tasks', tasks)
  BY <1>3, <1>4, <1>5, MinorDerived
<1> QED BY <1>6, ListRests DEF Refreshed

LEMMA RestoredList ==
  ASSUME FlowInv, ~Impatient, ListInv, srv' = srv, NEW t \in tasks, NEW r, Restored(t, r)
  PROVE  ListInv'
<1>1. tasks \ {t} = {} /\ batchId = 0 /\ DOMAIN items = {} /\ SeesBatch(t)
  BY OthersSend DEF Restored, ListInv, Awaits, Apart
<1>2. CASE batchId' = 0
  <2>1. DOMAIN items' = {} \/ tasks' = {}
    BY <1>1 DEF Restored
  <2>2. \A u \in tasks' : Minor(u)
    <3>1. tasks' \subseteq Polled(t, t.seen[1].batch)
      BY <1>1 DEF Restored
    <3>2. Polled(t, t.seen[1].batch) = {Task("poll", t.seen[1].batch)}
      BY <1>1 DEF Polled, Outdated
    <3> QED BY <3>1, <3>2 DEF Minor, Task
  <2>3. Derived(tasks', {})
    BY <2>2 DEF Derived
  <2> QED BY <1>2, <2>3, BatchLeft
<1>3. CASE batchId' # 0
  <2>1. /\ t.seen # None /\ t.seen[1].upload /\ batchId' = t.seen[1].batch /\ tasks' = {}
        /\ DOMAIN items' = IF t.seen[1].ready THEN DOMAIN t.seen[1].files ELSE {}
    BY <1>1, <1>3 DEF Restored
  <2>2. Listed'
    BY <1>1, <2>1 DEF SeesBatch, Listed, Abandoned, Has
  <2> QED BY <2>1, <2>2 DEF ListInv
<1> QED BY <1>2, <1>3

LEMMA FileList ==
  ASSUME FlowInv, ListInv, srv' = srv, NEW t \in tasks, NEW p, NEW r, ContinueFile(t, p, r)
  PROVE  ListInv'
<1>1. DOMAIN items' = DOMAIN items /\ batchId' = batchId
  BY DEF ContinueFile, Sent, Skipped
<1>2. \/ tasks' = tasks \ {t}
      \/ \E s, x : DOMAIN s \subseteq DOMAIN t.sent /\ tasks' = (tasks \ {t}) \cup {[t EXCEPT !.sent = s, !.failed = x]}
  <2>1. CASE Sent(t, p, r)
    BY <2>1 DEF Sent
  <2>2. CASE Skipped(t, p, r)
    <3>1. DOMAIN t = TaskFields
      BY DEF FlowInv, Shape, Fit, TaskFits
    <3>2. \A s : [t EXCEPT !.sent = s] = [t EXCEPT !.sent = s, !.failed = t.failed]
      BY <3>1 DEF TaskFields
    <3> QED BY <2>2, <3>2 DEF Skipped
  <2> QED BY <2>1, <2>2 DEF ContinueFile
<1>3. CASE tasks' = tasks \ {t}
  BY <1>1, <1>3, SubsetDerived, ListRests
<1>4. ASSUME NEW s, NEW x, DOMAIN s \subseteq DOMAIN t.sent,
             tasks' = (tasks \ {t}) \cup {[t EXCEPT !.sent = s, !.failed = x]}
      PROVE  ListInv'
  <2>1. Like([t EXCEPT !.sent = s, !.failed = x], t)
    BY <1>4 DEF FlowInv, Shape, Fit, TaskFits, TaskFields, Like
  <2>2. Derived(tasks', tasks)
    BY <1>4, <2>1 DEF Derived, Like
  <2> QED BY <1>1, <2>2, ListRests
<1> QED BY <1>2, <1>3, <1>4

(* The server answers, or moves a batch.                                   *)

(* No file becomes complete, and a batch leaves the upload with all of its *)
(* files, or without any that is complete.                                 *)
LEMMA FilesRest ==
  ASSUME FlowInv, ListInv, Derived(tasks', tasks), UNCHANGED <<items, batchId>>, Len(srv') = Len(srv),
         \A b \in DOMAIN srv :
           /\ Has(b, {"COMPLETE"})' \subseteq Has(b, {"COMPLETE"})
           /\ srv[b].state = "UPLOADING" /\ Has(b, {"PARTIAL"}) # {} =>
                srv'[b] = srv[b] \/ Has(b, {"COMPLETE"})' = {}
           /\ (\E t \in tasks : t.kind = "restore") /\ srv[b].state = "UPLOADING" => srv'[b] = srv[b]
  PROVE  ListInv'
<1>1. /\ ServerFits(srv) /\ Len(srv) \in Nat /\ DOMAIN srv = 1 .. Len(srv) /\ batchId \in 0 .. Len(srv)
      /\ Fit(tasks, Len(srv))
  BY DEF FlowInv, Shape, ServerFits
<1>2. \A b \in DOMAIN srv : srv'[b] = srv[b] => \A S : Has(b, S)' = Has(b, S)
  BY DEF Has
<1>3. \A u, v \in tasks' : Apart(u, v)
  BY DerivedApart DEF ListInv
<1>4. ASSUME NEW u \in tasks' PROVE Awaits(u)'
  <2>1. CASE Minor(u)
    BY <2>1 DEF Minor, Awaits
  <2>2. ASSUME NEW t \in tasks, Like(u, t) PROVE Awaits(u)'
    <3>1. Awaits(t) /\ TaskFits(t, Len(srv))
      BY <1>1 DEF ListInv, Fit
    <3>2. CASE t.kind = "restore"
      <4>1. SeesBatch(u)'
        <5>1. SUFFICES ASSUME t.seen # None, t.seen[1].upload PROVE SeesBatch(u)'
          BY <2>2 DEF SeesBatch, Like
        <5>2. t.seen[1].batch \in DOMAIN srv
          BY <1>1, <3>1, <5>1 DEF TaskFits, ViewFits
        <5>3. SeesBatch(t)
          BY <3>1, <3>2 DEF Awaits
        <5> QED BY <1>2, <2>2, <3>2, <5>1, <5>2, <5>3 DEF SeesBatch, Like
      <4> QED BY <2>2, <3>1, <3>2, <4>1 DEF Awaits, Like
    <3>3. CASE t.kind = "create" /\ t.reply = "ok"
      <4>1. t.batch \in DOMAIN srv
        BY <1>1, <3>1, <3>3 DEF TaskFits
      <4> QED BY <1>2, <2>2, <3>1, <3>3, <4>1 DEF Awaits, Like
    <3>4. CASE t.kind = "remove"
      <4>1. batchId \in DOMAIN srv
        BY <1>1, <3>1, <3>4 DEF Awaits
      <4> QED BY <1>2, <2>2, <3>1, <3>4, <4>1 DEF Awaits, Like
    <3>5. CASE t.kind \notin {"restore", "remove"} /\ ~(t.kind = "create" /\ t.reply = "ok")
      BY <2>2, <3>1, <3>5 DEF Awaits, Like
    <3> QED BY <3>2, <3>3, <3>4, <3>5
  <2> QED BY <2>1, <2>2 DEF Derived
<1>5. Listed'
  <2>1. CASE batchId = 0
    BY <2>1 DEF Listed
  <2>2. CASE batchId # 0
    <3>1. batchId \in DOMAIN srv
      BY <1>1, <2>2
    <3>2. Has(batchId, {"COMPLETE"})' \subseteq Has(batchId, {"COMPLETE"})
      BY <3>1
    <3>3. ASSUME Abandoned, srv'[batchId] = srv[batchId] PROVE Abandoned'
      <4>1. \A u \in tasks' : u.kind \in {"send", "skip", "remove"} => u.batch # batchId
        BY <3>3 DEF Abandoned, Derived, Minor, Like
      <4> QED BY <1>2, <3>1, <3>3, <4>1 DEF Abandoned
    <3>4. Abandoned => srv'[batchId] = srv[batchId] \/ Has(batchId, {"COMPLETE"})' = {}
      BY <3>1 DEF Abandoned
    <3> QED BY <2>2, <3>2, <3>3, <3>4 DEF ListInv, Listed
  <2> QED BY <2>1, <2>2
<1> QED BY <1>3, <1>4, <1>5 DEF ListInv, Apart

LEMMA ServerMovesList ==
  ASSUME FlowInv, ListInv, NEW b \in DOMAIN srv, ServerMoves(b)
  PROVE  ListInv'
<1>1. ServerFits(srv)
  BY DEF FlowInv, Shape
<1>2. /\ srv[b].state \in {"RUNNING", "PROCESSING"}
      /\ \/ \E s : srv' = [srv EXCEPT ![b].state = s]
         \/ \E s, c : srv' = [srv EXCEPT ![b].state = s, ![b].code = c]
  BY DEF ServerMoves
<1>3. \A d \in DOMAIN srv : srv'[d].files = srv[d].files /\ (d # b => srv'[d].state = srv[d].state)
  <2>1. ASSUME NEW s, srv' = [srv EXCEPT ![b].state = s], NEW d \in DOMAIN srv
        PROVE  srv'[d].files = srv[d].files /\ (d # b => srv'[d].state = srv[d].state)
    BY <1>1, <2>1 DEF ServerFits, RowFits
  <2>2. ASSUME NEW s, NEW c, srv' = [srv EXCEPT ![b].state = s, ![b].code = c], NEW d \in DOMAIN srv
        PROVE  srv'[d].files = srv[d].files /\ (d # b => srv'[d].state = srv[d].state)
    BY <1>1, <2>2 DEF ServerFits, RowFits
  <2> QED BY <1>2, <2>1, <2>2
<1>4. Len(srv') = Len(srv) /\ UNCHANGED <<items, batchId, tasks>>
  <2>1. DOMAIN srv' = DOMAIN srv
    BY <1>2
  <2> QED BY <1>1, <2>1, LenIs DEF ServerFits, ServerMoves
<1>5. Derived(tasks', tasks)
  BY <1>4, SubsetDerived
<1>6. ASSUME NEW d \in DOMAIN srv
      PROVE  /\ Has(d, {"COMPLETE"})' \subseteq Has(d, {"COMPLETE"})
             /\ srv[d].state = "UPLOADING" => srv'[d] = srv[d]
  <2>1. d # b => srv'[d] = srv[d]
    BY <1>2
  <2> QED BY <1>2, <1>3, <2>1 DEF Has
<1>7. \A d \in DOMAIN srv : srv[d].state = "UPLOADING" => srv'[d] = srv[d]
  BY <1>6
<1>8. \A d \in DOMAIN srv : Has(d, {"COMPLETE"})' \subseteq Has(d, {"COMPLETE"})
  BY <1>6
<1> QED BY <1>4, <1>5, <1>7, <1>8, FilesRest

LEMMA RepliedDerived ==
  ASSUME NEW t \in tasks, t.kind \in {"cancel", "complete", "confirm", "poll"}, DOMAIN t = TaskFields,
         NEW r, NEW v, tasks' = (tasks \ {t}) \cup {[t EXCEPT !.reply = r, !.seen = v]}
  PROVE  Derived(tasks', tasks)
<1>1. PICK u : u = [t EXCEPT !.reply = r, !.seen = v]
  OBVIOUS
<1>2. Minor(u) /\ Derived(tasks \ {t}, tasks)
  BY <1>1, SubsetDerived DEF Minor, TaskFields
<1> QED BY <1>1, <1>2, MinorDerived

LEMMA ServeStateList ==
  ASSUME FlowInv, ~Impatient, ListInv, NEW t \in tasks,
         ServeCancel(t) \/ ServeComplete(t) \/ ServeConfirm(t), UNCHANGED <<items, batchId>>
  PROVE  ListInv'
<1>1. /\ ServerFits(srv) /\ DOMAIN t = TaskFields /\ t.kind \in {"cancel", "complete", "confirm"}
      /\ \A u \in tasks : u.kind # "restore"
  <2>1. t.kind \in {"cancel", "complete", "confirm"}
    BY DEF ServeCancel, ServeComplete, ServeConfirm
  <2> QED BY <2>1, OthersSend DEF FlowInv, Shape, Fit, TaskFits
<1>2. Derived(tasks', tasks)
  <2>1. PICK r : tasks' = (tasks \ {t}) \cup {[t EXCEPT !.reply = r]}
    BY DEF ServeCancel, ServeComplete, ServeConfirm, Replied
  <2>2. [t EXCEPT !.reply = r] = [t EXCEPT !.reply = r, !.seen = t.seen]
    BY <1>1 DEF TaskFields
  <2> QED BY <1>1, <2>1, <2>2, RepliedDerived
<1>3. /\ Len(srv') = Len(srv)
      /\ \A d \in DOMAIN srv :
           /\ Has(d, {"COMPLETE"})' \subseteq Has(d, {"COMPLETE"})
           /\ srv[d].state = "UPLOADING" /\ Has(d, {"PARTIAL"}) # {} =>
                srv'[d] = srv[d] \/ Has(d, {"COMPLETE"})' = {}
  <2>1. DOMAIN srv' = DOMAIN srv
    BY DEF ServeCancel, ServeComplete, ServeConfirm
  <2>2. Len(srv') = Len(srv)
    BY <1>1, <2>1, LenIs DEF ServerFits
  <2>3. ASSUME ServeCancel(t), NEW d \in DOMAIN srv
        PROVE  /\ Has(d, {"COMPLETE"})' \subseteq Has(d, {"COMPLETE"})
               /\ srv[d].state = "UPLOADING" => srv'[d] = srv[d] \/ Has(d, {"COMPLETE"})' = {}
    <3> DEFINE state == IF srv[t.batch].state \in {"UPLOADING", "RUNNING", "FAILED"} THEN "CANCELLED" ELSE srv[t.batch].state
               kept == Has(t.batch, {"PARTIAL", "COMPLETE"})
    <3>1. PICK gone : /\ srv[t.batch].state = "UPLOADING" => gone = kept
                      /\ srv' = [srv EXCEPT ![t.batch].state = state,
                                   ![t.batch].files = [p \in DOMAIN srv[t.batch].files |->
                                      IF p \in gone THEN "FAILED" ELSE srv[t.batch].files[p]]]
      BY <2>3 DEF ServeCancel
    <3> HIDE DEF state
    <3>2. d # t.batch => srv'[d] = srv[d]
      BY <3>1
    <3>3. d = t.batch => srv'[d].files = [p \in DOMAIN srv[d].files |->
                                             IF p \in gone THEN "FAILED" ELSE srv[d].files[p]]
      BY <1>1, <3>1 DEF ServerFits, RowFits
    <3> QED BY <3>1, <3>2, <3>3 DEF Has
  <2>4. ASSUME ServeComplete(t) \/ ServeConfirm(t), NEW d \in DOMAIN srv
        PROVE  /\ srv'[d].files = srv[d].files
               /\ srv[d].state = "UPLOADING" /\ Has(d, {"PARTIAL"}) # {} => srv'[d] = srv[d]
    <3>1. CASE ServeComplete(t)
      BY <1>1, <2>4, <3>1 DEF ServeComplete, ServerFits, RowFits
    <3>2. CASE ServeConfirm(t)
      BY <1>1, <2>4, <3>2 DEF ServeConfirm, ServerFits, RowFits
    <3> QED BY <2>4, <3>1, <3>2
  <2> QED BY <2>2, <2>3, <2>4 DEF Has
<1> QED BY <1>1, <1>2, <1>3, FilesRest

LEMMA ServePreviewList ==
  ASSUME FlowInv, ~Impatient, ListInv, NEW t \in tasks, ServePreview(t), UNCHANGED <<items, batchId>>
  PROVE  ListInv'
<1>1. DOMAIN t = TaskFields /\ ServerFits(srv) /\ srv' = srv
  BY DEF FlowInv, Shape, Fit, TaskFits, ServePreview
<1>2. CASE t.kind = "poll"
  <2>1. PICK v : tasks' = (tasks \ {t}) \cup {[t EXCEPT !.reply = "ok", !.seen = v]}
    BY DEF ServePreview
  <2>2. PICK r : r = "ok"
    OBVIOUS
  <2>3. Derived(tasks', tasks)
    BY <1>1, <1>2, <2>1, <2>2, RepliedDerived
  <2> QED BY <1>1, <2>3, ListRests
<1>3. CASE t.kind = "restore"
  <2>1. tasks \ {t} = {} /\ batchId = 0 /\ DOMAIN items = {}
    BY <1>3, OthersSend DEF ListInv, Awaits, Apart
  <2>2. PICK v : v = IF Latest = 0 THEN None ELSE <<PreviewOf(Latest)>>
    OBVIOUS
  <2>3. PICK u : u = [t EXCEPT !.reply = "ok", !.seen = v]
    OBVIOUS
  <2>4. tasks' = {u} /\ u.kind = "restore" /\ u.seen = v
    BY <1>1, <1>3, <2>1, <2>2, <2>3 DEF ServePreview, TaskFields
  <2>5. SeesBatch(u)
    <3>1. PICK b : b = Latest
      OBVIOUS
    <3>2. PICK w : w = PreviewOf(b)
      OBVIOUS
    <3>3. v # None => v = <<w>> /\ v[1] = w
      BY <2>2, <3>1, <3>2
    <3>4. /\ w.batch = b /\ (w.upload <=> srv[b].state = "UPLOADING") /\ (w.ready <=> Has(b, {"PARTIAL"}) = {})
          /\ DOMAIN w.files = Has(b, {"PARTIAL", "COMPLETE", "FAILED"})
      BY <3>2, Zenon DEF PreviewOf
    <3>5. Has(b, {"COMPLETE"}) \subseteq Has(b, {"PARTIAL", "COMPLETE", "FAILED"})
      BY DEF Has
    <3> QED BY <2>4, <3>3, <3>4, <3>5 DEF SeesBatch
  <2>6. Awaits(u)' /\ Listed' /\ Apart(u, u)
    BY <1>1, <2>1, <2>4, <2>5 DEF Awaits, SeesBatch, Has, Listed, Apart
  <2> QED BY <2>4, <2>6 DEF ListInv, Apart
<1> QED BY <1>2, <1>3 DEF ServePreview

LEMMA ServeCreateList ==
  ASSUME FlowInv, ~Impatient, ListInv, NEW t \in tasks, ServeCreate(t), UNCHANGED <<items, batchId>>
  PROVE  ListInv'
<1>1. /\ ServerFits(srv) /\ Len(srv) \in Nat /\ DOMAIN srv = 1 .. Len(srv) /\ batchId \in 0 .. Len(srv)
      /\ Fit(tasks, Len(srv)) /\ DOMAIN t = TaskFields
  BY DEF FlowInv, Shape, ServerFits, Fit, TaskFits
<1> DEFINE row == [state |-> "UPLOADING", code |-> "NONE", files |-> [p \in t.paths |-> "PARTIAL"]]
<1>2. srv' = Append(srv, row)
  BY DEF ServeCreate
<1>3. /\ Len(srv') = Len(srv) + 1 /\ srv'[Len(srv) + 1] = row
      /\ \A b \in DOMAIN srv : srv'[b] = srv[b]
  <2> DEFINE S == {srv[b] : b \in DOMAIN srv} \cup {row}
  <2>1. srv \in Seq(S) /\ row \in S
    BY <1>1 DEF ServerFits
  <2> HIDE DEF S, row
  <2> QED BY <1>1, <1>2, <2>1
<1>4. PICK n : n = Len(srv) + 1
  OBVIOUS
<1>5. PICK new : new = [t EXCEPT !.reply = "ok", !.batch = n]
  OBVIOUS
<1>6. /\ tasks' = (tasks \ {t}) \cup {new} /\ new.kind = "create" /\ new.reply = "ok" /\ new.batch = n
  BY <1>1, <1>4, <1>5 DEF ServeCreate, TaskFields
<1>7. \A u \in tasks \ {t} : u.kind = "send" /\ u.batch \in 0 .. Len(srv) /\ Awaits(u)
  BY <1>1, OthersSend DEF ServeCreate, ListInv, Fit, TaskFits
<1>8. Has(n, {"COMPLETE"})' = {}
  BY <1>3, <1>4 DEF Has
<1>9. Awaits(new)' /\ \A u \in tasks \ {t} : Awaits(u)'
  BY <1>3, <1>4, <1>6, <1>7, <1>8 DEF Awaits
<1>10. \A u, v \in tasks' : Apart(u, v)
  BY <1>1, <1>4, <1>6, <1>7 DEF Apart
<1>11. Listed'
  <2>1. CASE batchId # 0
    <3>1. batchId \in DOMAIN srv
      BY <1>1, <2>1
    <3>2. srv'[batchId] = srv[batchId]
      BY <1>3, <3>1
    <3>3. ASSUME Abandoned PROVE Abandoned'
      <4>1. n # batchId
        BY <1>1, <1>4
      <4> QED BY <1>6, <3>2, <3>3 DEF Abandoned, Has
    <3> QED BY <3>2, <3>3 DEF ListInv, Listed, Has
  <2> QED BY <2>1 DEF Listed
<1> QED BY <1>6, <1>9, <1>10, <1>11 DEF ListInv, Apart

LEMMA ServeRemoveList ==
  ASSUME FlowInv, ~Impatient, ListInv, NEW t \in tasks, ServeRemove(t), UNCHANGED <<items, batchId>>
  PROVE  ListInv'
<1>1. /\ ServerFits(srv) /\ DOMAIN t = TaskFields /\ t.kind = "remove"
      /\ t.batch = batchId /\ batchId # 0 /\ batchId \in DOMAIN srv
  BY DEF FlowInv, Shape, ServerFits, Fit, TaskFits, ServeRemove, ListInv, Awaits
<1>2. \A u \in tasks \ {t} : u.kind = "send" /\ u.batch # batchId
  BY <1>1, OthersSend DEF ListInv, Apart
<1>3. Has(batchId, {"COMPLETE"}) \subseteq DOMAIN items
  BY <1>1 DEF ListInv, Listed, Abandoned
<1>4. \E r : /\ tasks' = (tasks \ {t}) \cup {[t EXCEPT !.reply = r]}
             /\ \/ srv' = srv /\ r # "ok"
                \/ srv'[batchId].files = [p \in DOMAIN srv[batchId].files |->
                                            IF p \in t.paths THEN "REMOVED" ELSE srv[batchId].files[p]]
  <2>1. ASSUME NEW r, r # "ok", srv' = srv, Replied(t, r)
        PROVE  tasks' = (tasks \ {t}) \cup {[t EXCEPT !.reply = r]}
    BY <2>1 DEF Replied
  <2>2. ASSUME NEW state, NEW r, Replied(t, r),
               srv' = [srv EXCEPT ![t.batch].state = state,
                         ![t.batch].files = [p \in DOMAIN srv[t.batch].files |->
                                               IF p \in t.paths THEN "REMOVED" ELSE srv[t.batch].files[p]]]
        PROVE  /\ tasks' = (tasks \ {t}) \cup {[t EXCEPT !.reply = r]}
               /\ srv'[batchId].files = [p \in DOMAIN srv[batchId].files |->
                                           IF p \in t.paths THEN "REMOVED" ELSE srv[batchId].files[p]]
    BY <1>1, <2>2 DEF Replied, ServerFits, RowFits
  <2>3. \/ srv' = srv /\ (Replied(t, "refused") \/ Replied(t, "cancelled"))
        \/ \E state, r :
             /\ Replied(t, r)
             /\ srv' = [srv EXCEPT ![t.batch].state = state,
                          ![t.batch].files = [p \in DOMAIN srv[t.batch].files |->
                                                IF p \in t.paths THEN "REMOVED" ELSE srv[t.batch].files[p]]]
    <3> DEFINE remaining == Has(t.batch, {"PARTIAL", "COMPLETE"}) \ t.paths
    <3>1. [srv[t.batch] EXCEPT !.state = IF remaining = {} THEN "CANCELLED" ELSE @].files = srv[t.batch].files
      BY <1>1 DEF ServerFits, RowFits
    <3> QED BY <1>1, <3>1 DEF ServeRemove, ServerFits, RowFits
  <2>4. CASE srv' = srv /\ (Replied(t, "refused") \/ Replied(t, "cancelled"))
    <3>1. PICK r : r \in {"refused", "cancelled"} /\ Replied(t, r)
      BY <2>4
    <3> QED BY <2>1, <2>4, <3>1
  <2> QED BY <2>2, <2>3, <2>4
<1>5. PICK u : /\ tasks' = (tasks \ {t}) \cup {u} /\ u.kind = "remove" /\ u.batch = batchId /\ u.paths = t.paths
               /\ Has(batchId, {"COMPLETE"})' \subseteq Has(batchId, {"COMPLETE"})
               /\ u.reply = "ok" => Has(batchId, {"COMPLETE"})' \cap t.paths = {}
  <2>1. PICK r : /\ tasks' = (tasks \ {t}) \cup {[t EXCEPT !.reply = r]}
                 /\ \/ srv' = srv /\ r # "ok"
                    \/ srv'[batchId].files = [p \in DOMAIN srv[batchId].files |->
                                                IF p \in t.paths THEN "REMOVED" ELSE srv[batchId].files[p]]
    BY <1>4
  <2>2. PICK u : u = [t EXCEPT !.reply = r]
    OBVIOUS
  <2>3. u.kind = "remove" /\ u.batch = batchId /\ u.paths = t.paths /\ u.reply = r
    BY <1>1, <2>2 DEF TaskFields
  <2>4. /\ Has(batchId, {"COMPLETE"})' \subseteq Has(batchId, {"COMPLETE"})
        /\ r = "ok" => Has(batchId, {"COMPLETE"})' \cap t.paths = {}
    <3>1. CASE srv' = srv /\ r # "ok"
      BY <1>1, <3>1 DEF Has
    <3>2. CASE srv'[batchId].files = [p \in DOMAIN srv[batchId].files |->
                                        IF p \in t.paths THEN "REMOVED" ELSE srv[batchId].files[p]]
      BY <1>1, <3>2 DEF Has
    <3> QED BY <2>1, <3>1, <3>2
  <2> QED BY <2>1, <2>2, <2>3, <2>4
<1>6. \A v \in tasks' : Awaits(v)'
  BY <1>1, <1>2, <1>5 DEF Awaits
<1>7. \A v, w \in tasks' : Apart(v, w)
  BY <1>2, <1>5 DEF Apart
<1>8. Listed'
  BY <1>3, <1>5 DEF Listed
<1> QED BY <1>6, <1>7, <1>8 DEF ListInv, Apart

LEMMA ServeFileList ==
  ASSUME FlowInv, ~Impatient, ListInv, NEW t \in tasks, NEW p \in DOMAIN t.sent, ServeFile(t, p),
         UNCHANGED <<items, batchId>>
  PROVE  ListInv'
<1>1. /\ ServerFits(srv) /\ DOMAIN srv = 1 .. Len(srv) /\ Len(srv) \in Nat /\ batchId \in 0 .. Len(srv)
      /\ Fit(tasks, Len(srv)) /\ DOMAIN t = TaskFields /\ t.kind \in {"send", "skip"}
  BY DEF FlowInv, Shape, ServerFits, Fit, TaskFits, ServeFile, ServeChunk, ServeReport
<1>2. PICK r : tasks' = (tasks \ {t}) \cup {[t EXCEPT !.sent[p] = r]}
  BY DEF ServeFile, ServeChunk, ServeReport, FileReplied
<1>3. PICK u : u = [t EXCEPT !.sent[p] = r]
  OBVIOUS
<1>4. Like(u, t)
  BY <1>1, <1>3 DEF TaskFields, Like
<1>5. Derived(tasks', tasks)
  BY <1>2, <1>3, <1>4 DEF Derived, Like
<1>6. CASE srv' = srv
  BY <1>5, <1>6, ListRests
<1>7. CASE srv' # srv
  <2>1. PICK s : /\ srv' = [srv EXCEPT ![t.batch].files[p] = s]
                 /\ s = "COMPLETE" => t.kind = "send"
                 /\ s \in {"COMPLETE", "FAILED"}
    BY <1>7 DEF ServeFile, ServeChunk, ServeReport
  <2>2. /\ Len(srv') = Len(srv)
        /\ \A b \in DOMAIN srv : srv'[b].state = srv[b].state /\ (b # t.batch => srv'[b] = srv[b])
    <3>1. DOMAIN srv' = DOMAIN srv
      BY <2>1
    <3> QED BY <1>1, <2>1, <3>1, LenIs DEF ServerFits, RowFits
  <2>3. t.batch \in DOMAIN srv =>
          /\ DOMAIN srv'[t.batch].files = DOMAIN srv[t.batch].files
          /\ \A q \in DOMAIN srv[t.batch].files : srv'[t.batch].files[q] = IF q = p THEN s ELSE srv[t.batch].files[q]
    BY <1>1, <2>1 DEF ServerFits, RowFits
  <2>4. ASSUME NEW b \in DOMAIN srv
        PROVE  Has(b, {"COMPLETE"})' \subseteq
                 Has(b, {"COMPLETE"}) \cup (IF b = t.batch /\ t.kind = "send" THEN {p} ELSE {})
    BY <2>1, <2>2, <2>3 DEF Has
  <2>5. \A v, w \in tasks' : Apart(v, w)
    BY <1>5, DerivedApart DEF ListInv
  <2>6. \A v \in tasks : v.kind # "restore" /\ (v.kind = "remove" => t.kind = "send" /\ v.batch # t.batch)
                         /\ (v.kind = "create" /\ v.reply = "ok" => t.kind = "send" /\ t.batch # v.batch)
    <3>1. CASE t.kind = "send"
      <4>1. t.batch \in Nat
        BY <1>1 DEF Fit, TaskFits
      <4>2. \A v \in tasks : Apart(v, t) /\ (v.kind = "create" /\ v.reply = "ok" => v.batch \in Nat)
        BY <1>1 DEF ListInv, Fit, TaskFits
      <4> QED BY <3>1, <4>1, <4>2 DEF Apart
    <3>2. CASE t.kind = "skip"
      BY <3>2, OthersSend
    <3> QED BY <1>1, <3>1, <3>2
  <2>7. ASSUME NEW v \in tasks' PROVE Awaits(v)'
    <3>1. CASE Minor(v)
      BY <3>1 DEF Minor, Awaits
    <3>2. ASSUME NEW w \in tasks, Like(v, w) PROVE Awaits(v)'
      <4>1. Awaits(w) /\ w.kind # "restore"
        BY <2>6 DEF ListInv
      <4>2. CASE w.kind = "create" /\ w.reply = "ok"
        <5>1. w.batch \in DOMAIN srv /\ w.batch # t.batch
          BY <1>1, <2>6, <4>2 DEF Fit, TaskFits
        <5> QED BY <2>2, <2>4, <3>2, <4>1, <4>2, <5>1 DEF Awaits, Like
      <4>3. CASE w.kind = "remove"
        <5>1. batchId \in DOMAIN srv /\ batchId # t.batch
          BY <1>1, <2>6, <4>1, <4>3 DEF Awaits
        <5> QED BY <2>4, <3>2, <4>1, <4>3, <5>1 DEF Awaits, Like
      <4>4. CASE w.kind # "remove" /\ ~(w.kind = "create" /\ w.reply = "ok")
        BY <3>2, <4>1, <4>4 DEF Awaits, Like
      <4> QED BY <4>2, <4>3, <4>4
    <3> QED BY <1>5, <3>1, <3>2 DEF Derived
  <2>8. Listed'
    <3>1. CASE batchId = 0
      BY <3>1 DEF Listed
    <3>2. CASE batchId # 0 /\ Abandoned
      <4>1. t.batch # batchId /\ batchId \in DOMAIN srv
        BY <1>1, <3>2 DEF Abandoned
      <4>2. srv'[batchId] = srv[batchId]
        BY <2>2, <4>1
      <4>3. \A v \in tasks' : v.kind \in {"send", "skip", "remove"} => v.batch # batchId
        BY <1>5, <3>2 DEF Abandoned, Derived, Minor, Like
      <4> QED BY <3>2, <4>2, <4>3 DEF Listed, Abandoned, Has
    <3>3. CASE batchId # 0 /\ Has(batchId, {"COMPLETE"}) \subseteq DOMAIN items
      <4>1. batchId \in DOMAIN srv
        BY <1>1, <3>3
      <4>2. t.kind = "send" /\ t.batch = batchId => p \in DOMAIN items
        BY <3>3 DEF ListInv, Awaits
      <4> QED BY <2>4, <3>3, <4>1, <4>2 DEF Listed
    <3> QED BY <3>1, <3>2, <3>3 DEF ListInv, Listed
  <2> QED BY <2>5, <2>7, <2>8 DEF ListInv, Apart
<1> QED BY <1>6, <1>7

LEMMA ContinueList ==
  ASSUME FlowInv, ~Impatient, ListInv, srv' = srv, NEW t \in tasks, NEW r,
         r # "lost" => r = t.reply, Continue(t, r)
  PROVE  ListInv'
<1>1. CASE Created(t, r)
  BY <1>1, CreatedList
<1>2. CASE Cancelled(t, r)
  BY <1>2, CancelledList
<1>3. CASE Removed(t, r)
  BY <1>3, RemovedList
<1>4. CASE Completed(t, r) \/ Resumed(t, r)
  BY <1>4, FollowedList
<1>5. CASE Refreshed(t, r)
  BY <1>5, RefreshedList
<1>6. CASE Restored(t, r)
  BY <1>6, RestoredList
<1> QED BY <1>1, <1>2, <1>3, <1>4, <1>5, <1>6 DEF Continue

LEMMA ServeList ==
  ASSUME FlowInv, ~Impatient, ListInv, NEW t \in tasks, Serve(t)
  PROVE  ListInv'
<1>1. UNCHANGED <<items, batchId>>
  BY DEF Serve
<1>2. CASE ServeCreate(t)
  BY <1>1, <1>2, ServeCreateList
<1>3. CASE ServeRemove(t)
  BY <1>1, <1>3, ServeRemoveList
<1>4. CASE ServeCancel(t) \/ ServeComplete(t) \/ ServeConfirm(t)
  BY <1>1, <1>4, ServeStateList
<1>5. CASE ServePreview(t)
  BY <1>1, <1>5, ServePreviewList
<1>6. ASSUME NEW p \in DOMAIN t.sent, ServeFile(t, p) PROVE ListInv'
  BY <1>1, <1>6, ServeFileList
<1> QED BY <1>2, <1>3, <1>4, <1>5, <1>6 DEF Serve

LEMMA FlowStepList ==
  ASSUME FlowInv, ~Impatient, ListInv, FlowStep
  PROVE  ListInv'
<1>1. ASSUME NEW b \in DOMAIN srv, ServerMoves(b) PROVE ListInv'
  BY <1>1, ServerMovesList
<1>2. ASSUME NEW sel \in (SUBSET Paths) \ {{}}, Select(sel) PROVE ListInv'
  BY <1>2, SelectList
<1>3. ASSUME NEW sel \in (SUBSET DOMAIN items) \ {{}}, RemoveSelected(sel) PROVE ListInv'
  BY <1>3, RemoveSelectedList
<1>4. ASSUME Start \/ Cancel \/ Confirm \/ SkipFailed \/ Resume \/ Reload PROVE ListInv'
  BY <1>4, StartList, AskedList, SkipFailedList, ReloadList
<1>5. ASSUME NEW t \in tasks, Selected(t) PROVE ListInv'
  BY <1>5, SelectedList
<1>6. ASSUME NEW t \in tasks, Serve(t) PROVE ListInv'
  BY <1>6, ServeList
<1>7. ASSUME NEW t \in tasks, NEW p, NEW r, ContinueFile(t, p, r), srv' = srv PROVE ListInv'
  BY <1>7, FileList
<1>8. ASSUME NEW t \in tasks, Deliver(t) PROVE ListInv'
  BY <1>7, <1>8, ContinueList DEF Deliver
<1>9. ASSUME NEW t \in tasks, Lose(t) PROVE ListInv'
  BY <1>7, <1>9, ContinueList DEF Lose
<1> QED BY <1>1, <1>2, <1>3, <1>4, <1>5, <1>6, <1>8, <1>9 DEF FlowStep

LEMMA FlowNextList ==
  FlowInv /\ (~Impatient => ListInv) /\ [FlowNext]_flowVars => (~Impatient => ListInv)'
<1> SUFFICES ASSUME FlowInv, ~Impatient => ListInv, [FlowNext]_flowVars, ~Impatient' PROVE ListInv'
  OBVIOUS
<1>1. viewer' = viewer
  BY DEF FlowNext, flowVars
<1>2. ~Impatient
  BY <1>1 DEF Impatient
<1>3. CASE FlowNext
  BY <1>2, <1>3, FlowStepList DEF FlowNext
<1>4. CASE UNCHANGED flowVars
  BY <1>2, <1>4, SubsetDerived, ListRests DEF flowVars
<1> QED BY <1>3, <1>4

(* The import never gets a file that a viewer who waits for the answers    *)
(* took off the list.                                                      *)
THEOREM ArchivedWereListedHolds == FlowSpec => []ArchivedWereListed
<1>1. FlowInit => FlowInv /\ (~Impatient => ListInv)
  BY InitInv, FirstList, UploadPageAssumption DEF UploadPageAssumption
<1>2. FlowInv /\ [FlowNext]_flowVars => FlowInv'
  BY FlowNextKeeps, UploadPageAssumption DEF UploadPageAssumption
<1>3. FlowInv /\ (~Impatient => ListInv) => ArchivedWereListed
  BY DEF ListInv, Listed, Abandoned, ArchivedWereListed
<1> QED BY <1>1, <1>2, <1>3, FlowNextList, PTL DEF FlowSpec

=============================================================================
