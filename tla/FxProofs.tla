------------------------------ MODULE FxProofs ------------------------------
(***************************************************************************)
(* That overrides stay unambiguous (OverridesSound), that no day of        *)
(* trading is taken for a closed one or skipped (NoTradingDaySkipped),     *)
(* that the answers of the last successful sync are the ones in force      *)
(* (LatestAnswerCurrent), and that a report is published with the          *)
(* overrides it was valued with (PublishedSetCurrent), for every calendar, *)
(* every number of currencies, syncs, administrators and requests.         *)
(***************************************************************************)
EXTENDS Fx, SequenceTheorems, NaturalsInduction, WellFoundedInduction, TLAPS

-----------------------------------------------------------------------------
(* The inductive invariant.                                                 *)

(* A day that is over and on which the source has published nothing, so     *)
(* that there will never be rates of it, or that ended while an answer      *)
(* without its rates waited for the look at the clock.                      *)
Closed(d) == d < today /\ (~Traded(official, d) \/ d \in overnight)

(* What was stored was published, and what was recorded as closed is.       *)
QuotesTrue ==
  /\ \A d \in Days : Traded(official, d) => d <= today
  /\ \A s \in 1..Len(snaps) :
       /\ \A d \in DOMAIN snaps[s].body : Traded(snaps[s].body, d) => Traded(official, d)
       /\ \A d \in snaps[s].absent :
            Closed(d) /\ d \in DOMAIN snaps[s].body /\ ~Traded(snaps[s].body, d)

(* An answer that is not stored yet is that of the next request.  What it   *)
(* has was published; what it lacks is closed when the day is over, or up   *)
(* to the cutoff once the clock has been read.                              *)
PageTrue(r, p) ==
  /\ HasMore(r) /\ DOMAIN p.body = PageFrom(r)..PageTo(r)
  /\ \A d \in DOMAIN p.body :
       /\ Traded(p.body, d) => Traded(official, d)
       /\ ~p.dated /\ d < today /\ ~Traded(p.body, d) => Closed(d)
       /\ p.dated /\ d <= p.cutoff /\ ~Traded(p.body, d) => Closed(d)
PendingTrue == \A r \in 1..Len(runs) : runs[r].page # <<>> => PageTrue(r, runs[r].page[1])

(* The answers linked to a run are of different days, all before the next   *)
(* request.                                                                 *)
PageDays(r, i) == DOMAIN snaps[runs[r].links[i]].body
PagesApart ==
  \A r \in 1..Len(runs) : \A i \in 1..Len(runs[r].links) :
    /\ \A d \in PageDays(r, i) : d < PageFrom(r)
    /\ \A j \in 1..Len(runs[r].links) : i # j => PageDays(r, i) \cap PageDays(r, j) = {}

(* A write under way is the first under its key, and after its trigger      *)
(* nothing has become current that would have made the trigger refuse it.   *)
StillAccepted(w) ==
  /\ w.supersedes # 0 => w.supersedes \in Current
  /\ \A o \in Current \ {w.supersedes} :
       overrides[o].currency = w.currency => ~Overlap(overrides[o].range, w.range)
WritesFit ==
  \A k \in Keys : writes[k] # <<>> =>
    /\ WrittenUnder(k, writes[k][1].request) = {}
    /\ writes[k][1].inserted => StillAccepted(writes[k][1].request)

(* One override at most under a key and a predecessor.                      *)
KeysOnce ==
  \A o, p \in 1..Len(overrides) :
    overrides[o].key = overrides[p].key /\ overrides[o].supersedes = overrides[p].supersedes => o = p

(* Between the check and the switch the current overrides are the frozen.   *)
CheckedFits == report # <<>> /\ report[1].status = "CHECKED" => report[1].frozen = Current

(* What a conversion has read so far was and stays true of the source.      *)
ReaderTrue ==
  reader # <<>> =>
    /\ \A d \in Days : Traded(reader[1].quotes, d) => Traded(official, d)
    /\ reader[1].days # <<>> =>
         \A d \in Days : /\ reader[1].days[d] = "OPEN" => Traded(official, d)
                         /\ reader[1].days[d] = "NON_TRADING" => Closed(d)

FxInv ==
  /\ TypeOK /\ QuotesTrue /\ PendingTrue /\ PagesApart
  /\ OverridesDisjoint /\ ReplaysAnswered /\ WritesFit /\ KeysOnce
  /\ CheckedFits /\ ReaderTrue /\ AnswersOnTradingDays

-----------------------------------------------------------------------------
(* Numbers, pairs and sequences of one element.                             *)

(* A nonempty set of naturals has a least element.                          *)
LEMMA NatMin ==
  ASSUME NEW S \in SUBSET Nat, S # {}
  PROVE  Min(S) \in S /\ \A y \in S : Min(S) <= y
<1> DEFINE R == {p \in Nat \X Nat : p[1] < p[2]}
<1>1. IsWellFoundedOn(R, Nat)
  BY NatLessThanWellFounded DEF OpToRel
<1>2. PICK x \in S : \A y \in S : <<y, x>> \notin R
  <2> HIDE DEF R
  <2> QED BY ONLY <1>1, WFMin, S \in SUBSET Nat, S # {}
<1>3. ASSUME NEW y \in S PROVE x <= y
  <2>1. x \in Nat /\ y \in Nat /\ <<y, x>> \notin R
    BY <1>2
  <2>2. ~(y < x)
    BY <2>1
  <2> QED BY ONLY <2>1, <2>2
<1> QED BY <1>3 DEF Min

(* A nonempty bounded set of naturals has a greatest element.               *)
LEMMA NatMax ==
  ASSUME NEW n \in Nat, NEW S \in SUBSET (0..n), S # {}
  PROVE  Max(S) \in S /\ \A y \in S : Max(S) >= y
<1> DEFINE T == {n - y : y \in S}
<1>1. T \in SUBSET Nat /\ T # {}
  <2>1. ASSUME NEW y \in S PROVE n - y \in Nat
    <3>1. y \in 0..n
      OBVIOUS
    <3> QED BY ONLY <3>1, n \in Nat
  <2> QED BY <2>1
<1>2. Min(T) \in T /\ \A y \in T : Min(T) <= y
  <2> HIDE DEF T
  <2> QED BY <1>1, NatMin
<1>3. PICK x \in S : Min(T) = n - x
  BY <1>2
<1>4. ASSUME NEW y \in S PROVE x >= y
  <2>1. n - x <= n - y
    BY <1>2, <1>3
  <2>2. x \in 0..n /\ y \in 0..n
    OBVIOUS
  <2> QED BY ONLY <2>1, <2>2, n \in Nat
<1> QED BY <1>4 DEF Max

(* The lesser and the greater of two numbers.                               *)
LEMMA OfTwo ==
  ASSUME NEW a \in Int, NEW b \in Int
  PROVE  /\ Min({a, b}) \in {a, b} /\ Min({a, b}) <= a /\ Min({a, b}) <= b
         /\ Max({a, b}) \in {a, b} /\ Max({a, b}) >= a /\ Max({a, b}) >= b
<1>1. \E x \in {a, b} : \A y \in {a, b} : x <= y
  OBVIOUS
<1>2. \E x \in {a, b} : \A y \in {a, b} : x >= y
  OBVIOUS
<1>3. Min({a, b}) \in {a, b} /\ \A y \in {a, b} : Min({a, b}) <= y
  BY <1>1 DEF Min
<1>4. Max({a, b}) \in {a, b} /\ \A y \in {a, b} : Max({a, b}) >= y
  BY <1>2 DEF Max
<1> QED BY <1>3, <1>4

(* The latest of some positions is one of them, and no other is later.      *)
LEMMA LatestIsLast ==
  ASSUME NEW n \in Nat, NEW m \in Nat, NEW P \in SUBSET ((1..n) \X (1..m)), P # {}
  PROVE  /\ Latest(P) \in P
         /\ \A q \in P : q[1] < Latest(P)[1] \/ (q[1] = Latest(P)[1] /\ q[2] <= Latest(P)[2])
<1> DEFINE A == {p[1] : p \in P}
<1>1. A \in SUBSET (0..n) /\ A # {}
  OBVIOUS
<1>2. PICK a \in A : \A x \in A : a >= x
  <2> HIDE DEF A
  <2> QED BY <1>1, NatMax
<1> DEFINE B == {q[2] : q \in {p \in P : p[1] = a}}
<1>3. B \in SUBSET (0..m) /\ B # {}
  BY <1>2
<1>4. PICK b \in B : \A x \in B : b >= x
  <2> HIDE DEF B
  <2> QED BY <1>3, NatMax
<1>5. PICK p \in P : p[1] = a /\ p[2] = b
  BY <1>4
<1>6. ASSUME NEW q \in P PROVE q[1] < p[1] \/ (q[1] = p[1] /\ q[2] <= p[2])
  <2>1. q[1] \in Nat /\ q[2] \in Nat /\ p[1] \in Nat /\ p[2] \in Nat
    OBVIOUS
  <2>2. q[1] \in A /\ (q[1] = a => q[2] \in B)
    OBVIOUS
  <2>3. p[1] >= q[1] /\ (q[1] = p[1] => p[2] >= q[2])
    BY <1>2, <1>4, <1>5, <2>2
  <2> QED BY ONLY <2>1, <2>3
<1> QED BY <1>6 DEF Latest

(* What may be absent is nothing or one thing.                              *)
LEMMA NoneOrOne ==
  ASSUME NEW S, NEW x \in AtMostOne(S)
  PROVE  x = <<>> \/ (x[1] \in S /\ x = <<x[1]>>)
<1>1. x \in Seq(S) /\ Len(x) <= 1 /\ Len(x) \in Nat
  BY LenProperties DEF AtMostOne
<1>2. CASE Len(x) = 0
  BY <1>1, <1>2
<1>3. CASE Len(x) = 1
  <2> PICK e : e = x[1]
    OBVIOUS
  <2>1. 1 \in 1..Len(x)
    BY ONLY <1>3
  <2>2. e \in S
    BY ONLY <1>1, <2>1, ElementOfSeq, e = x[1]
  <2>3. <<e>> \in Seq(S) /\ Len(<<e>>) = 1 /\ <<e>>[1] = e
    BY ONLY <2>2
  <2>4. x = <<e>>
    BY ONLY <1>1, <1>3, <2>3, SeqEqual, e = x[1]
  <2> QED BY <2>2, <2>4
<1>4. Len(x) = 0 \/ Len(x) = 1
  <2> PICK n : n = Len(x)
    OBVIOUS
  <2>1. n \in Nat /\ n <= 1
    BY <1>1
  <2>2. n = 0 \/ n = 1
    BY ONLY <2>1
  <2> QED BY <2>2
<1> QED BY ONLY <1>2, <1>3, <1>4

(* One thing is at most one, and so is nothing.                             *)
LEMMA JustOne ==
  ASSUME NEW S, NEW e \in S
  PROVE  /\ <<e>> \in AtMostOne(S) /\ <<>> \in AtMostOne(S)
         /\ <<e>>[1] = e /\ <<e>> # <<>>
  BY DEF AtMostOne

-----------------------------------------------------------------------------
(* Types.                                                                   *)

(* The invariant of the official rates alone.                               *)
QuoteInv == scenario \in Scenarios /\ QuoteTypeOK /\ QuotesTrue /\ PendingTrue /\ PagesApart

(* The bounds, rates and ranges of a scenario.                              *)
LEMMA ScenarioFacts ==
  ASSUME scenario \in Scenarios
  PROVE  /\ LastDay \in Nat \ {0} /\ SliceDays \in Nat \ {0} /\ RecentDays \in Nat \ {0}
         /\ RetryLimit \in Nat /\ MaxBoots \in Nat /\ MaxFaults \in Nat
         /\ \A q \in Quotations : q \in DayRates /\ \E c \in Currencies : q[c] # 0
         /\ \A range \in ManualRanges : range[1] \in Days /\ range[2] \in Days /\ range[1] <= range[2]
         /\ 0 \in Rate /\ Rate \subseteq Nat
<1>1. /\ LastDay \in Nat \ {0} /\ SliceDays \in Nat \ {0} /\ RecentDays \in Nat \ {0}
      /\ RetryLimit \in Nat /\ MaxBoots \in Nat /\ MaxFaults \in Nat
  BY QuotesAssumption DEF LastDay, SliceDays, RecentDays, RetryLimit, MaxBoots, MaxFaults
<1>2. \A q \in Quotations : q \in [Currencies -> Nat] /\ \E c \in Currencies : q[c] # 0
  BY QuotesAssumption DEF Quotations, Currencies
<1>3. \A range \in ManualRanges : range[1] \in Days /\ range[2] \in Days /\ range[1] <= range[2]
  BY QuotesAssumption DEF ManualRanges, Days, LastDay
<1>4. 0 \in Rate /\ Rate \subseteq Nat
  BY <1>2 DEF Rate
<1>5. ASSUME NEW q \in Quotations PROVE q \in DayRates
  <2>1. \A c \in Currencies : q[c] \in Rate
    BY DEF Rate
  <2> QED BY <1>2, <2>1 DEF DayRates
<1> QED BY <1>1, <1>2, <1>3, <1>4, <1>5

(* The rows of the official rates, one by one.                              *)
LEMMA QuoteTypes ==
  ASSUME scenario \in Scenarios, QuoteTypeOK
  PROVE  /\ Len(snaps) \in Nat /\ Len(runs) \in Nat /\ Len(finished) \in Nat
         /\ LastDay \in Nat \ {0} /\ SliceDays \in Nat \ {0} /\ today \in 1..LastDay
         /\ \A s \in 1..Len(snaps) :
              /\ snaps[s] \in SnapRows /\ snaps[s].body \in Bodies /\ snaps[s].absent \subseteq Days
              /\ DOMAIN snaps[s].body \subseteq Days
              /\ \A d \in DOMAIN snaps[s].body : snaps[s].body[d] \in DayRates
         /\ \A r \in 1..Len(runs) :
              /\ runs[r] \in RunRows /\ runs[r].from \in Days /\ runs[r].to \in Days
              /\ runs[r].from <= runs[r].to
              /\ runs[r].links \in Seq(Nat) /\ Len(runs[r].links) \in Nat
              /\ \A i \in 1..Len(runs[r].links) : runs[r].links[i] \in 1..Len(snaps)
              /\ runs[r].page # <<>> =>
                   /\ runs[r].page[1] \in PageRows /\ runs[r].page[1].cutoff \in Nat
                   /\ runs[r].page[1].body \in Bodies /\ runs[r].page = <<runs[r].page[1]>>
         /\ \A i \in 1..Len(finished) :
              finished[i] \in 1..Len(runs) /\ runs[finished[i]].status = "SUCCEEDED"
         /\ job # <<>> => job[1] \in JobRows /\ job = <<job[1]>> /\ job[1].run \in 0..Len(runs)
<1>1. /\ snaps \in Seq(SnapRows) /\ runs \in Seq(RunRows) /\ finished \in Seq(Nat)
      /\ job \in AtMostOne(JobRows) /\ today \in Days
  BY DEF QuoteTypeOK
<1>2. /\ LastDay \in Nat \ {0} /\ SliceDays \in Nat \ {0}
      /\ Len(snaps) \in Nat /\ Len(runs) \in Nat /\ Len(finished) \in Nat
  BY <1>1, ScenarioFacts, LenProperties
<1>3. ASSUME NEW s \in 1..Len(snaps)
      PROVE  /\ snaps[s] \in SnapRows /\ snaps[s].body \in Bodies /\ snaps[s].absent \subseteq Days
             /\ DOMAIN snaps[s].body \subseteq Days
             /\ \A d \in DOMAIN snaps[s].body : snaps[s].body[d] \in DayRates
  <2>1. snaps[s] \in SnapRows
    BY <1>1, ElementOfSeq
  <2>2. snaps[s].body \in Bodies /\ snaps[s].absent \subseteq Days
    BY <2>1 DEF SnapRows
  <2>3. PICK D \in SUBSET Days : snaps[s].body \in [D -> DayRates]
    BY <2>2 DEF Bodies
  <2> QED BY <2>1, <2>2, <2>3
<1>4. ASSUME NEW r \in 1..Len(runs)
      PROVE  /\ runs[r] \in RunRows /\ runs[r].from \in Days /\ runs[r].to \in Days
             /\ runs[r].from <= runs[r].to
             /\ runs[r].links \in Seq(Nat) /\ Len(runs[r].links) \in Nat
             /\ \A i \in 1..Len(runs[r].links) : runs[r].links[i] \in 1..Len(snaps)
             /\ runs[r].page # <<>> =>
                  /\ runs[r].page[1] \in PageRows /\ runs[r].page[1].cutoff \in Nat
                  /\ runs[r].page[1].body \in Bodies /\ runs[r].page = <<runs[r].page[1]>>
  <2> PICK links : links = runs[r].links
    OBVIOUS
  <2>1. runs[r] \in RunRows
    BY <1>1, ElementOfSeq
  <2>2. runs[r].from \in Days /\ runs[r].to \in Days /\ links \in Seq(Nat)
    BY <2>1 DEF RunRows
  <2>3. Len(links) \in Nat /\ DOMAIN links = 1..Len(links)
    BY <2>2, LenProperties
  <2>4. runs[r].from <= runs[r].to /\ ToSet(links) \subseteq 1..Len(snaps)
    BY DEF QuoteTypeOK
  <2>5. \A i \in 1..Len(links) : links[i] \in 1..Len(snaps)
    BY <2>3, <2>4 DEF ToSet
  <2>6. runs[r].page \in AtMostOne(PageRows)
    BY <2>1 DEF RunRows
  <2>7. runs[r].page # <<>> => runs[r].page[1] \in PageRows /\ runs[r].page = <<runs[r].page[1]>>
    BY ONLY <2>6, NoneOrOne
  <2>8. \A p \in PageRows : p.cutoff \in Nat /\ p.body \in Bodies
    BY DEF PageRows
  <2> QED BY <2>1, <2>2, <2>3, <2>4, <2>5, <2>7, <2>8
<1>5. job # <<>> => job[1] \in JobRows /\ job = <<job[1]>> /\ job[1].run \in 0..Len(runs)
  BY <1>1, NoneOrOne DEF QuoteTypeOK
<1>6. \A i \in 1..Len(finished) : finished[i] \in 1..Len(runs) /\ runs[finished[i]].status = "SUCCEEDED"
  BY DEF QuoteTypeOK
<1>7. today \in 1..LastDay
  BY <1>1 DEF Days
<1> QED BY <1>2, <1>3, <1>4, <1>5, <1>6, <1>7

-----------------------------------------------------------------------------
(* What the views show.                                                     *)

(* What is visible is stored, and linked to a run that succeeded.           *)
LEMMA VisibleRows ==
  ASSUME scenario \in Scenarios, QuoteTypeOK, NEW p \in Visible
  PROVE  /\ p[1] \in 1..Len(finished) /\ p[2] \in 1..Len(snaps)
         /\ p[2] \in ToSet(runs[finished[p[1]]].links)
  BY DEF Visible

(* A rate of the view is the one of the latest visible answer about it.     *)
LEMMA QuoteShown ==
  ASSUME scenario \in Scenarios, QuoteTypeOK, NEW d \in Days, NEW c \in Currencies,
         NEW P, P = {p \in Visible : d \in DOMAIN snaps[p[2]].body /\ snaps[p[2]].body[d][c] # 0}
  PROVE  /\ P = {} => CurrentQuotes[d][c] = 0
         /\ P # {} => /\ Latest(P) \in P /\ CurrentQuotes[d][c] = snaps[Latest(P)[2]].body[d][c]
                      /\ \A q \in P : q[1] < Latest(P)[1] \/ (q[1] = Latest(P)[1] /\ q[2] <= Latest(P)[2])
<1>1. P \in SUBSET ((1..Len(finished)) \X (1..Len(snaps)))
  BY DEF Visible
<1>2. CurrentQuotes[d][c] = IF P = {} THEN 0 ELSE snaps[Latest(P)[2]].body[d][c]
  BY DEF CurrentQuotes
<1>3. Len(finished) \in Nat /\ Len(snaps) \in Nat
  BY QuoteTypes
<1>4. P # {} => /\ Latest(P) \in P
                /\ \A q \in P : q[1] < Latest(P)[1] \/ (q[1] = Latest(P)[1] /\ q[2] <= Latest(P)[2])
  BY ONLY <1>1, <1>3, LatestIsLast
<1> QED BY <1>2, <1>4

(* The status of a day in the view is that of the latest visible answer     *)
(* which says anything of the day.                                          *)
LEMMA DayShown ==
  ASSUME scenario \in Scenarios, QuoteTypeOK, NEW d \in Days,
         NEW P, P = {p \in Visible : StatusIn(snaps[p[2]], d) # "UNKNOWN"}
  PROVE  /\ P = {} => CurrentDays[d] = "UNKNOWN"
         /\ P # {} => /\ Latest(P) \in P /\ CurrentDays[d] = StatusIn(snaps[Latest(P)[2]], d)
                      /\ \A q \in P : q[1] < Latest(P)[1] \/ (q[1] = Latest(P)[1] /\ q[2] <= Latest(P)[2])
<1>1. P \in SUBSET ((1..Len(finished)) \X (1..Len(snaps)))
  BY DEF Visible
<1>2. CurrentDays[d] = IF P = {} THEN "UNKNOWN" ELSE StatusIn(snaps[Latest(P)[2]], d)
  BY DEF CurrentDays
<1>3. Len(finished) \in Nat /\ Len(snaps) \in Nat
  BY QuoteTypes
<1>4. P # {} => /\ Latest(P) \in P
                /\ \A q \in P : q[1] < Latest(P)[1] \/ (q[1] = Latest(P)[1] /\ q[2] <= Latest(P)[2])
  BY ONLY <1>1, <1>3, LatestIsLast
<1> QED BY <1>2, <1>4

(* The views show nothing that the source has not published.                *)
LEMMA ViewsTrue ==
  ASSUME QuoteInv
  PROVE  /\ CurrentQuotes \in [Days -> DayRates]
         /\ CurrentDays \in [Days -> {"OPEN", "NON_TRADING", "UNKNOWN"}]
         /\ \A d \in Days :
              /\ Traded(CurrentQuotes, d) => Traded(official, d)
              /\ CurrentDays[d] = "OPEN" => Traded(official, d)
              /\ CurrentDays[d] = "NON_TRADING" => Closed(d)
<1>1. scenario \in Scenarios /\ QuoteTypeOK /\ QuotesTrue
  BY DEF QuoteInv
<1>2. ASSUME NEW d \in Days, NEW c \in Currencies
      PROVE  CurrentQuotes[d][c] \in Rate /\ (CurrentQuotes[d][c] # 0 => Traded(official, d))
  <2> PICK P : P = {p \in Visible : d \in DOMAIN snaps[p[2]].body /\ snaps[p[2]].body[d][c] # 0}
    OBVIOUS
  <2>1. CASE P = {}
    <3>1. CurrentQuotes[d][c] = 0
      BY <1>1, <2>1, QuoteShown
    <3> QED BY <1>1, <3>1, ScenarioFacts
  <2>2. CASE P # {}
    <3>0. /\ Latest(P) \in P /\ CurrentQuotes[d][c] = snaps[Latest(P)[2]].body[d][c]
      BY <1>1, <2>2, QuoteShown
    <3>1. PICK p \in P : CurrentQuotes[d][c] = snaps[p[2]].body[d][c]
      BY ONLY <3>0
    <3> PICK s : s = p[2]
      OBVIOUS
    <3>2. s \in 1..Len(snaps) /\ d \in DOMAIN snaps[s].body /\ snaps[s].body[d][c] # 0
      BY <1>1, VisibleRows
    <3>3. Traded(snaps[s].body, d)
      BY <3>2 DEF Traded
    <3>4. Traded(official, d)
      BY <1>1, <3>2, <3>3 DEF QuotesTrue
    <3>5. snaps[s].body[d] \in DayRates
      BY <1>1, <3>2, QuoteTypes
    <3> QED BY <3>1, <3>4, <3>5 DEF DayRates
  <2> QED BY <2>1, <2>2
<1>3. ASSUME NEW d \in Days
      PROVE  /\ CurrentDays[d] \in {"OPEN", "NON_TRADING", "UNKNOWN"}
             /\ CurrentDays[d] = "OPEN" => Traded(official, d)
             /\ CurrentDays[d] = "NON_TRADING" => Closed(d)
  <2> PICK P : P = {p \in Visible : StatusIn(snaps[p[2]], d) # "UNKNOWN"}
    OBVIOUS
  <2>1. CASE P = {}
    <3>1. CurrentDays[d] = "UNKNOWN"
      BY <1>1, <2>1, DayShown
    <3> QED BY <3>1
  <2>2. CASE P # {}
    <3>1. PICK p \in P : CurrentDays[d] = StatusIn(snaps[p[2]], d)
      BY <1>1, <2>2, DayShown
    <3> PICK s : s = p[2]
      OBVIOUS
    <3>2. s \in 1..Len(snaps) /\ CurrentDays[d] = StatusIn(snaps[s], d)
      BY <1>1, <3>1, VisibleRows
    <3>3. CASE d \in DOMAIN snaps[s].body /\ Traded(snaps[s].body, d)
      BY <1>1, <3>2, <3>3 DEF QuotesTrue, StatusIn
    <3>4. CASE ~(d \in DOMAIN snaps[s].body /\ Traded(snaps[s].body, d)) /\ d \in snaps[s].absent
      BY <1>1, <3>2, <3>4 DEF QuotesTrue, StatusIn
    <3>5. CASE ~(d \in DOMAIN snaps[s].body /\ Traded(snaps[s].body, d)) /\ d \notin snaps[s].absent
      BY <3>2, <3>5 DEF StatusIn
    <3> QED BY <3>3, <3>4, <3>5
  <2> QED BY <2>1, <2>2
<1>4. CurrentQuotes \in [Days -> DayRates]
  BY <1>2 DEF CurrentQuotes, DayRates
<1>5. CurrentDays \in [Days -> {"OPEN", "NON_TRADING", "UNKNOWN"}]
  BY <1>3 DEF CurrentDays
<1> QED BY <1>2, <1>3, <1>4, <1>5 DEF Traded

-----------------------------------------------------------------------------
(* Steps of the official rates.                                             *)

(* Time goes on, what was published stays so, and what is closed too.       *)
MarketGoesOn ==
  /\ today <= today' /\ overnight \subseteq overnight'
  /\ \A d \in Days : (Traded(official, d) => Traded(official, d)') /\ (Closed(d) => Closed(d)')

(* No step changes the scenario.                                            *)
LEMMA SameScenario ==
  ASSUME UNCHANGED scenario
  PROVE  /\ Days' = Days /\ Currencies' = Currencies /\ LastDay' = LastDay /\ SliceDays' = SliceDays
         /\ DayRates' = DayRates /\ SnapRows' = SnapRows /\ RunRows' = RunRows /\ JobRows' = JobRows
         /\ PageRows' = PageRows /\ MaxBoots' = MaxBoots /\ MaxFaults' = MaxFaults /\ RetryLimit' = RetryLimit
         /\ Keys' = Keys /\ Ranges' = Ranges /\ Requests' = Requests
<1>1. /\ Days' = Days /\ Currencies' = Currencies /\ LastDay' = LastDay /\ SliceDays' = SliceDays
      /\ MaxBoots' = MaxBoots /\ MaxFaults' = MaxFaults /\ RetryLimit' = RetryLimit
      /\ Keys' = Keys /\ Ranges' = Ranges /\ Requests' = Requests /\ Quotations' = Quotations
  BY DEF Days, Currencies, LastDay, SliceDays, MaxBoots, MaxFaults, RetryLimit, Keys, Ranges, Requests, Quotations
<1>2. DayRates' = DayRates
  BY <1>1 DEF DayRates, Rate
<1>3. SnapRows' = SnapRows /\ PageRows' = PageRows /\ RunRows' = RunRows /\ JobRows' = JobRows
  BY <1>1, <1>2 DEF SnapRows, Bodies, PageRows, RunRows, JobRows
<1> QED BY <1>1, <1>2, <1>3

(* Answers that are kept stay true.                                         *)
LEMMA AnswersStayTrue ==
  ASSUME QuoteInv, UNCHANGED <<scenario, snaps>>, MarketGoesOn,
         \A d \in Days : Traded(official, d)' => d <= today'
  PROVE  QuotesTrue'
<1>1. scenario \in Scenarios /\ QuoteTypeOK /\ QuotesTrue
  BY DEF QuoteInv
<1>2. Days' = Days /\ Currencies' = Currencies
  BY SameScenario
<1>3. ASSUME NEW s \in 1..Len(snaps)
      PROVE  /\ \A d \in DOMAIN snaps[s].body : Traded(snaps[s].body, d)' => Traded(official, d)'
             /\ \A d \in snaps[s].absent :
                  Closed(d)' /\ d \in DOMAIN snaps[s].body /\ ~Traded(snaps[s].body, d)'
  <2>1. DOMAIN snaps[s].body \subseteq Days /\ snaps[s].absent \subseteq Days
    BY <1>1, QuoteTypes
  <2>2. ASSUME NEW d \in DOMAIN snaps[s].body, Traded(snaps[s].body, d)' PROVE Traded(official, d)'
    <3>1. Traded(snaps[s].body, d)
      BY <1>2, <2>2 DEF Traded
    <3> QED BY <1>1, <2>1, <3>1 DEF QuotesTrue, MarketGoesOn
  <2>3. ASSUME NEW d \in snaps[s].absent PROVE Closed(d)'
    BY <1>1, <2>1 DEF QuotesTrue, MarketGoesOn
  <2>4. \A d \in snaps[s].absent : d \in DOMAIN snaps[s].body /\ ~Traded(snaps[s].body, d)'
    BY <1>1, <1>2 DEF QuotesTrue, Traded
  <2> QED BY <2>2, <2>3, <2>4
<1> QED BY <1>2, <1>3 DEF QuotesTrue

(* Runs whose answers are kept, and runs that have none yet.                *)
LEMMA PagesStayApart ==
  ASSUME QuoteInv, UNCHANGED scenario,
         \A s \in 1..Len(snaps) : snaps'[s].body = snaps[s].body,
         \A r \in 1..Len(runs') :
           \/ runs'[r].links = <<>>
           \/ r \in 1..Len(runs) /\ runs'[r].links = runs[r].links /\ runs'[r].from = runs[r].from
  PROVE  PagesApart'
<1>1. scenario \in Scenarios /\ QuoteTypeOK /\ PagesApart /\ SliceDays' = SliceDays
  BY SameScenario DEF QuoteInv
<1>2. ASSUME NEW r \in 1..Len(runs'), NEW i \in 1..Len(runs'[r].links)
      PROVE  /\ \A d \in PageDays(r, i)' : d < PageFrom(r)'
             /\ \A j \in 1..Len(runs'[r].links) : i # j => (PageDays(r, i) \cap PageDays(r, j) = {})'
  <2>1. runs'[r].links # <<>>
    BY <1>2
  <2>2. r \in 1..Len(runs) /\ runs'[r].links = runs[r].links /\ runs'[r].from = runs[r].from
    BY <2>1
  <2>3. \A j \in 1..Len(runs[r].links) : PageDays(r, j)' = PageDays(r, j)
    <3>1. \A j \in 1..Len(runs[r].links) : runs[r].links[j] \in 1..Len(snaps)
      BY <1>1, <2>2, QuoteTypes
    <3> QED BY <2>2, <3>1 DEF PageDays
  <2>4. PageFrom(r)' = PageFrom(r)
    BY <1>1, <2>2 DEF PageFrom
  <2>5. i \in 1..Len(runs[r].links)
    BY <2>2
  <2> QED BY <1>1, <2>2, <2>3, <2>4, <2>5 DEF PagesApart
<1> QED BY <1>2 DEF PagesApart

(* A run that keeps its row, but for the verdict and a dropped answer.      *)
SameRun(r) ==
  /\ r \in 1..Len(runs) /\ runs'[r].links = runs[r].links
  /\ runs'[r].from = runs[r].from /\ runs'[r].to = runs[r].to

(* Answers that wait stay true when every day that ends over them is        *)
(* recorded.                                                                *)
LEMMA PendingStaysTrue ==
  ASSUME QuoteInv, UNCHANGED scenario, MarketGoesOn,
         \A d \in Days : Awaited(d) /\ today <= d /\ d < today' => Closed(d)',
         \A r \in 1..Len(runs') : runs'[r].page # <<>> =>
           \/ SameRun(r) /\ runs'[r].page = runs[r].page
           \/ PageTrue(r, runs[r].page[1])'
  PROVE  PendingTrue'
<1>1. /\ scenario \in Scenarios /\ QuoteTypeOK /\ PendingTrue
      /\ Days' = Days /\ Currencies' = Currencies /\ SliceDays' = SliceDays /\ today \in Nat
  BY SameScenario, QuoteTypes DEF QuoteInv
<1>2. ASSUME NEW r \in 1..Len(runs'), runs'[r].page # <<>>, SameRun(r), runs'[r].page = runs[r].page
      PROVE  PageTrue(r, runs[r].page[1])'
  <2> PICK p : p = runs[r].page[1]
    OBVIOUS
  <2>1. r \in 1..Len(runs) /\ runs[r].page # <<>> /\ PageTrue(r, p)
    BY <1>1, <1>2 DEF PendingTrue, SameRun
  <2>2. /\ HasMore(r)' = HasMore(r) /\ PageFrom(r)' = PageFrom(r) /\ PageTo(r)' = PageTo(r)
        /\ runs'[r].page[1] = p
    BY <1>1, <1>2 DEF SameRun, HasMore, PageFrom, PageTo
  <2>3. DOMAIN p.body \subseteq Days /\ Days \subseteq Nat
    <3>1. p.body \in Bodies
      BY <1>1, <2>1, QuoteTypes
    <3> QED BY <3>1 DEF Bodies, Days
  <2>4. \A d \in DOMAIN p.body : Traded(p.body, d)' <=> Traded(p.body, d)
    BY <1>1 DEF Traded
  <2>5. ASSUME NEW d \in DOMAIN p.body
        PROVE  /\ Traded(p.body, d) => Traded(official, d)'
               /\ ~p.dated /\ d < today' /\ ~Traded(p.body, d) => Closed(d)'
               /\ p.dated /\ d <= p.cutoff /\ ~Traded(p.body, d) => Closed(d)'
    <3>1. /\ Traded(p.body, d) => Traded(official, d)
          /\ ~p.dated /\ d < today /\ ~Traded(p.body, d) => Closed(d)
          /\ p.dated /\ d <= p.cutoff /\ ~Traded(p.body, d) => Closed(d)
      BY <2>1 DEF PageTrue
    <3>2. (Traded(official, d) => Traded(official, d)') /\ (Closed(d) => Closed(d)')
      BY <2>3 DEF MarketGoesOn
    <3>3. ~p.dated /\ ~Traded(p.body, d) => Awaited(d)
      BY <2>1 DEF Awaited
    <3>4. d \in Nat /\ d \in Days
      BY <2>3
    <3>5. d < today \/ today <= d
      BY ONLY <1>1, <3>4
    <3>6. Awaited(d) /\ today <= d /\ d < today' => Closed(d)'
      BY <3>4
    <3> QED BY ONLY <3>1, <3>2, <3>3, <3>5, <3>6
  <2> QED BY <2>1, <2>2, <2>4, <2>5 DEF PageTrue
<1> QED BY <1>2 DEF PendingTrue

(* The queue and the script work on; the answers stay as they are.          *)
LEMMA RowsStay ==
  ASSUME QuoteInv, UNCHANGED <<scenario, official, today, snaps, overnight>>, QuoteTypeOK',
         \A r \in 1..Len(runs') :
           \/ runs'[r].links = <<>> /\ runs'[r].page = <<>>
           \/ SameRun(r) /\ \/ runs'[r].page \in {<<>>, runs[r].page}
                            \/ PageTrue(r, runs[r].page[1])'
  PROVE  QuoteInv' /\ MarketGoesOn
<1>1. scenario \in Scenarios /\ QuoteTypeOK /\ QuotesTrue
  BY DEF QuoteInv
<1>2. Days' = Days /\ Currencies' = Currencies /\ today \in Nat
  BY <1>1, SameScenario, QuoteTypes
<1>3. MarketGoesOn
  BY <1>2 DEF MarketGoesOn, Traded, Closed
<1>4. \A d \in Days : Traded(official, d)' => d <= today'
  BY <1>1, <1>2 DEF QuotesTrue, Traded
<1>5. QuotesTrue'
  BY <1>3, <1>4, AnswersStayTrue
<1>6. PagesApart'
  BY PagesStayApart DEF SameRun
<1>7. PendingTrue'
  <2>1. \A d \in Days : ~(today <= d /\ d < today')
    BY <1>2 DEF Days
  <2> QED BY <1>3, <2>1, PendingStaysTrue
<1> QED BY <1>1, <1>3, <1>5, <1>6, <1>7 DEF QuoteInv

(* A step that touches no official rate.                                    *)
LEMMA QuotesStay ==
  ASSUME QuoteInv, UNCHANGED <<scenario, quoteVars>>
  PROVE  QuoteInv' /\ MarketGoesOn
<1>1. UNCHANGED <<today, official, snaps, runs, finished, job, manual, boots, faults, overnight>>
  BY DEF quoteVars
<1>2. QuoteTypeOK /\ QuoteTypeOK'
  BY <1>1, SameScenario DEF QuoteInv, QuoteTypeOK
<1> QED BY <1>1, <1>2, RowsStay DEF SameRun

(* A new job is well typed.                                                 *)
LEMMA NewJobTyped ==
  ASSUME scenario \in Scenarios, NEW kind \in {"FULL_HISTORY", "RECENT_SEVEN_DAYS"}
  PROVE  NewJob(kind) \in AtMostOne(JobRows) /\ NewJob(kind)[1].run = 0
<1>1. [kind |-> kind, retries |-> 0, run |-> 0] \in JobRows
  BY ScenarioFacts DEF JobRows
<1> QED BY <1>1, JustOne DEF NewJob

(* A day passes, or the source publishes or corrects rates.                 *)
LEMMA MarketStep ==
  ASSUME QuoteInv, UNCHANGED scenario,
         NewDay \/ \E q \in Quotations : Publish(q) \/ \E d \in Days : Correct(d, q)
  PROVE  QuoteInv' /\ MarketGoesOn
<1>1. scenario \in Scenarios /\ QuoteTypeOK /\ QuotesTrue
  BY DEF QuoteInv
<1>2. Days' = Days /\ Currencies' = Currencies /\ DayRates' = DayRates
  BY SameScenario
<1>3. LastDay \in Nat /\ today \in 1..LastDay /\ official \in [Days -> DayRates] /\ Days = 1..LastDay
  BY <1>1, QuoteTypes DEF QuoteTypeOK, Days
<1>4. UNCHANGED <<snaps, runs, finished, manual, boots, faults>>
  BY DEF NewDay, Publish, Correct
<1>5. /\ today' \in Days /\ official' \in [Days -> DayRates] /\ MarketGoesOn
      /\ \A d \in Days : Traded(official, d)' => d <= today'
      /\ job' = job \/ job' = NewJob("RECENT_SEVEN_DAYS")
      /\ overnight' \subseteq Days
      /\ \A d \in Days : Awaited(d) /\ today <= d /\ d < today' => Closed(d)'
  <2>1. CASE NewDay
    <3>1. today' = today + 1 /\ today < LastDay /\ official' = official
          /\ (job' = job \/ job' = NewJob("RECENT_SEVEN_DAYS"))
          /\ overnight' = overnight \cup {d \in {today} : Traded(official, d) /\ Awaited(d)}
      BY <2>1 DEF NewDay
    <3>4. overnight \subseteq overnight' /\ overnight' \subseteq Days
      BY <1>1, <1>3, <3>1 DEF QuoteTypeOK
    <3>5. ASSUME NEW d \in Days, Awaited(d), today <= d, d < today' PROVE Closed(d)'
      <4>1. d = today
        BY ONLY <1>3, <3>1, <3>5
      <4>2. Traded(official, d)' => d \in overnight'
        BY <1>2, <3>1, <3>5, <4>1 DEF Traded
      <4> QED BY <3>5, <4>2 DEF Closed
    <3>2. today' \in Days /\ today <= today' /\ \A d \in Days : d <= today => d <= today'
      BY ONLY <1>3, <3>1
    <3>3. \A d \in Days : d < today => d < today'
      BY ONLY <1>3, <3>1
    <3>6. MarketGoesOn
      BY <1>2, <3>1, <3>2, <3>3, <3>4 DEF MarketGoesOn, Closed, Traded
    <3>7. \A d \in Days : Traded(official, d)' => d <= today'
      BY <1>1, <1>2, <3>1, <3>2 DEF Traded, QuotesTrue
    <3> QED BY <1>3, <3>1, <3>2, <3>4, <3>5, <3>6, <3>7
  <2>2. ASSUME NEW q \in Quotations, NEW e \in Days, official' = [official EXCEPT ![e] = q], today' = today,
               job' = job, overnight' = overnight, e = today \/ Traded(official, e)
        PROVE  /\ today' \in Days /\ official' \in [Days -> DayRates] /\ MarketGoesOn
               /\ \A d \in Days : Traded(official, d)' => d <= today'
               /\ job' = job \/ job' = NewJob("RECENT_SEVEN_DAYS")
               /\ overnight' \subseteq Days
               /\ \A d \in Days : Awaited(d) /\ today <= d /\ d < today' => Closed(d)'
    <3>1. q \in DayRates /\ \E c \in Currencies : q[c] # 0
      BY <1>1, ScenarioFacts
    <3>2. \A d \in Days : official'[d] = IF d = e THEN q ELSE official[d]
      BY <1>3, <2>2
    <3>3. \A d \in Days : Traded(official, d)' <=> d = e \/ Traded(official, d)
      BY <1>2, <3>1, <3>2 DEF Traded
    <3>4. today \in Nat /\ \A d \in Days : ~(d < today) \/ Traded(official, d) \/ d # e
      BY <1>3, <2>2
    <3>5. MarketGoesOn
      <4>1. today <= today'
        BY <2>2, <3>4
      <4>2. ASSUME NEW d \in Days PROVE Closed(d) => Closed(d)'
        BY <2>2, <3>3, <3>4 DEF Closed
      <4>3. ASSUME NEW d \in Days PROVE Traded(official, d) => Traded(official, d)'
        BY <3>3
      <4> QED BY <2>2, <4>1, <4>2, <4>3 DEF MarketGoesOn
    <3>6. \A d \in Days : Traded(official, d)' => d <= today'
      BY <1>1, <1>3, <2>2, <3>3 DEF QuotesTrue
    <3>7. overnight' \subseteq Days /\ \A d \in Days : ~(today <= d /\ d < today')
      BY <1>1, <1>3, <2>2 DEF QuoteTypeOK
    <3> QED BY <1>3, <2>2, <3>1, <3>5, <3>6, <3>7
  <2>3. CASE \E q \in Quotations : Publish(q)
    BY <1>3, <2>2, <2>3 DEF Publish
  <2>4. CASE \E q \in Quotations : \E d \in Days : Correct(d, q)
    BY <2>2, <2>4 DEF Correct
  <2> QED BY <2>1, <2>3, <2>4
<1>6. job' \in AtMostOne(JobRows) /\ (job' # <<>> => job'[1].run \in 0..Len(runs))
  <2>1. NewJob("RECENT_SEVEN_DAYS") \in AtMostOne(JobRows) /\ NewJob("RECENT_SEVEN_DAYS")[1].run = 0
    BY <1>1, NewJobTyped
  <2>2. Len(runs) \in Nat
    BY <1>1, QuoteTypes
  <2> QED BY <1>1, <1>5, <2>1, <2>2 DEF QuoteTypeOK
<1>7. QuoteTypeOK'
  BY <1>1, <1>4, <1>5, <1>6, SameScenario DEF QuoteTypeOK
<1>8. QuotesTrue'
  BY <1>4, <1>5, AnswersStayTrue
<1>9. PagesApart'
  BY <1>4, PagesStayApart
<1>10. PendingTrue'
  BY <1>4, <1>5, PendingStaysTrue DEF SameRun
<1> QED BY <1>1, <1>5, <1>7, <1>8, <1>9, <1>10 DEF QuoteInv

(* A job that is tried again is well typed.                                 *)
LEMMA RetriedTyped ==
  ASSUME scenario \in Scenarios, QuoteTypeOK, job # <<>>
  PROVE  Retried \in AtMostOne(JobRows) /\ (Retried # <<>> => Retried[1].run = 0)
<1> PICK row : row = [job[1] EXCEPT !.retries = job[1].retries + 1, !.run = 0]
  OBVIOUS
<1>1. job[1] \in JobRows /\ RetryLimit \in Nat
  BY QuoteTypes, ScenarioFacts
<1>2. CASE job[1].retries < RetryLimit
  <2>1. PICK n : n = job[1].retries
    OBVIOUS
  <2>5. n \in 0..RetryLimit /\ n < RetryLimit
    BY <1>1, <1>2, <2>1 DEF JobRows
  <2>6. n + 1 \in 0..RetryLimit /\ 0 \in Nat
    BY ONLY <1>1, <2>5
  <2>4. row \in JobRows /\ row.run = 0
    BY <1>1, <2>1, <2>6 DEF JobRows
  <2>2. Retried = <<row>>
    BY <1>2 DEF Retried
  <2>3. <<row>> \in AtMostOne(JobRows) /\ <<row>>[1] = row
    BY ONLY <2>4, JustOne
  <2> QED BY <2>2, <2>3, <2>4
<1>3. CASE ~(job[1].retries < RetryLimit)
  <2>1. Retried = <<>>
    BY <1>3 DEF Retried
  <2>2. <<>> \in AtMostOne(JobRows)
    BY ONLY <1>1, JustOne
  <2> QED BY <2>1, <2>2
<1> QED BY <1>2, <1>3

(* A job that is given its run.                                             *)
LEMMA JobGivenRun ==
  ASSUME scenario \in Scenarios, QuoteTypeOK, job # <<>>, NEW n \in Nat
  PROVE  /\ <<[job[1] EXCEPT !.run = n]>> \in AtMostOne(JobRows)
         /\ <<[job[1] EXCEPT !.run = n]>>[1].run = n
<1> PICK row : row = [job[1] EXCEPT !.run = n]
  OBVIOUS
<1>1. job[1] \in JobRows
  BY QuoteTypes
<1>2. row \in JobRows /\ row.run = n
  BY <1>1 DEF JobRows
<1>3. <<row>> \in AtMostOne(JobRows) /\ <<row>>[1] = row
  BY ONLY <1>2, JustOne
<1> QED BY <1>2, <1>3

(* What remains to be shown of the types when the answers stay as they are. *)
LEMMA RowsTyped ==
  ASSUME scenario \in Scenarios, QuoteTypeOK, UNCHANGED <<scenario, official, today, snaps, overnight>>,
         runs' \in Seq(RunRows), Len(runs) <= Len(runs'),
         \A r \in 1..Len(runs) :
           /\ runs'[r].from = runs[r].from /\ runs'[r].to = runs[r].to /\ runs'[r].links = runs[r].links
           /\ runs[r].status = "SUCCEEDED" => runs'[r].status = "SUCCEEDED",
         \A r \in 1..Len(runs') :
           r \notin 1..Len(runs) => runs'[r].from <= runs'[r].to /\ runs'[r].links = <<>>,
         finished' \in Seq(Nat),
         \A i \in 1..Len(finished') :
           (i \in 1..Len(finished) /\ finished'[i] = finished[i])
             \/ (finished'[i] \in 1..Len(runs') /\ runs'[finished'[i]].status = "SUCCEEDED"),
         job' \in AtMostOne(JobRows), job' # <<>> => job'[1].run \in 0..Len(runs'),
         manual' \in 0..Len(runs'), boots' \in 0..MaxBoots, faults' \in 0..MaxFaults
  PROVE  QuoteTypeOK'
<1>1. Len(runs) \in Nat /\ Len(runs') \in Nat
  BY QuoteTypes, LenProperties
<1>2. ASSUME NEW r \in 1..Len(runs')
      PROVE  runs'[r].from <= runs'[r].to /\ ToSet(runs'[r].links) \subseteq 1..Len(snaps')
  <2>1. CASE r \in 1..Len(runs)
    BY <2>1 DEF QuoteTypeOK
  <2>2. CASE r \notin 1..Len(runs)
    <3>1. ToSet(<<>>) = {}
      BY DEF ToSet
    <3> QED BY <2>2, <3>1
  <2> QED BY <2>1, <2>2
<1>3. ASSUME NEW i \in 1..Len(finished')
      PROVE  finished'[i] \in 1..Len(runs') /\ runs'[finished'[i]].status = "SUCCEEDED"
  <2>1. CASE i \in 1..Len(finished) /\ finished'[i] = finished[i]
    <3> PICK r : r = finished[i]
      OBVIOUS
    <3>1. r \in 1..Len(runs) /\ runs[r].status = "SUCCEEDED"
      BY <2>1 DEF QuoteTypeOK
    <3>2. r \in 1..Len(runs') /\ runs'[r].status = "SUCCEEDED"
      <4>1. r \in 1..Len(runs')
        BY ONLY <1>1, <3>1, Len(runs) <= Len(runs')
      <4>2. runs'[r].status = "SUCCEEDED"
        BY <3>1
      <4> QED BY ONLY <4>1, <4>2
    <3> QED BY <2>1, <3>2
  <2> QED BY <2>1
<1>4. /\ today' \in Days /\ official' \in [Days -> DayRates] /\ snaps' \in Seq(SnapRows)
      /\ overnight' \subseteq Days
  BY DEF QuoteTypeOK
<1> QED BY <1>2, <1>3, <1>4, SameScenario DEF QuoteTypeOK

(* An answer comes in, is dated, or is dropped.                             *)
LEMMA PageReplaced ==
  ASSUME QuoteInv, NEW r \in 1..Len(runs), NEW page \in AtMostOne(PageRows),
         UNCHANGED <<scenario, today, official, snaps, finished, manual, boots, overnight>>,
         runs' = [runs EXCEPT ![r].page = page],
         job' \in AtMostOne(JobRows), job' # <<>> => job'[1].run \in 0..Len(runs), faults' \in 0..MaxFaults,
         page # <<>> => PageTrue(r, page[1])
  PROVE  QuoteInv' /\ MarketGoesOn
<1> PICK row : row = [runs[r] EXCEPT !.page = page]
  OBVIOUS
<1>1. /\ scenario \in Scenarios /\ QuoteTypeOK /\ runs \in Seq(RunRows) /\ Len(runs) \in Nat
      /\ finished \in Seq(Nat) /\ manual \in 0..Len(runs) /\ boots \in 0..MaxBoots
  BY QuoteTypes DEF QuoteInv, QuoteTypeOK
<1>2. /\ row \in RunRows /\ row.from = runs[r].from /\ row.to = runs[r].to /\ row.links = runs[r].links
      /\ row.status = runs[r].status /\ row.page = page
  <2>1. runs[r] \in RunRows
    BY <1>1, QuoteTypes
  <2> QED BY <2>1 DEF RunRows
<1>3. /\ runs' \in Seq(RunRows) /\ Len(runs') = Len(runs) /\ runs'[r] = row
      /\ \A s \in 1..Len(runs) : s # r => runs'[s] = runs[s]
  <2>1. runs' = [runs EXCEPT ![r] = row]
    OBVIOUS
  <2> QED BY <1>1, <1>2, <2>1, ExceptSeq
<1>4. \A s \in 1..Len(runs) :
        /\ SameRun(s) /\ runs'[s].status = runs[s].status
        /\ runs'[s].page = runs[s].page \/ (s = r /\ runs'[s].page = page)
  BY <1>2, <1>3 DEF SameRun
<1>5. QuoteTypeOK'
  <2>1. \A i \in 1..Len(finished) :
          finished'[i] \in 1..Len(runs') /\ runs'[finished'[i]].status = "SUCCEEDED"
    BY <1>1, <1>3, <1>4 DEF QuoteTypeOK
  <2>2. \A s \in 1..Len(runs) :
          /\ runs'[s].from = runs[s].from /\ runs'[s].to = runs[s].to /\ runs'[s].links = runs[s].links
          /\ runs[s].status = "SUCCEEDED" => runs'[s].status = "SUCCEEDED"
    BY <1>4 DEF SameRun
  <2>3. Len(runs) <= Len(runs') /\ \A s \in 1..Len(runs') : s \in 1..Len(runs)
    BY <1>1, <1>3
  <2> QED BY <1>1, <1>3, <2>1, <2>2, <2>3, RowsTyped
<1>6. ASSUME page # <<>> PROVE PageTrue(r, page[1])'
  <2> PICK p : p = page[1]
    OBVIOUS
  <2>1. PageTrue(r, p)
    BY <1>6
  <2>2. Days' = Days /\ Currencies' = Currencies /\ SliceDays' = SliceDays
    BY SameScenario
  <2>3. HasMore(r)' = HasMore(r) /\ PageFrom(r)' = PageFrom(r) /\ PageTo(r)' = PageTo(r)
    BY <1>4, <2>2 DEF SameRun, HasMore, PageFrom, PageTo
  <2>4. \A d : /\ Traded(p.body, d)' <=> Traded(p.body, d)
               /\ Traded(official, d)' <=> Traded(official, d)
               /\ Closed(d)' <=> Closed(d)
    BY <2>2 DEF Traded, Closed
  <2>5. PageTrue(r, p)'
    BY <2>1, <2>3, <2>4 DEF PageTrue
  <2> QED BY <2>5
<1>7. \A s \in 1..Len(runs') :
        SameRun(s) /\ \/ runs'[s].page \in {<<>>, runs[s].page}
                      \/ PageTrue(s, runs[s].page[1])'
  BY <1>3, <1>4, <1>6
<1> QED BY <1>5, <1>7, RowsStay

(* A job is asked for or completed, or its worker dies.                     *)
LEMMA JobStep ==
  ASSUME QuoteInv, UNCHANGED scenario, Boot \/ WorkerDies \/ CompleteJob
  PROVE  QuoteInv' /\ MarketGoesOn
<1>1. scenario \in Scenarios /\ QuoteTypeOK
  BY DEF QuoteInv
<1>2. UNCHANGED <<today, official, snaps, finished, manual, overnight>>
  BY DEF Boot, WorkerDies, CompleteJob
<1>3. /\ runs \in Seq(RunRows) /\ finished \in Seq(Nat) /\ manual \in 0..Len(runs) /\ Len(runs) \in Nat
      /\ boots \in 0..MaxBoots /\ faults \in 0..MaxFaults /\ MaxBoots \in Nat /\ MaxFaults \in Nat
  BY <1>1, QuoteTypes, ScenarioFacts DEF QuoteTypeOK
<1>4. job' \in AtMostOne(JobRows) /\ (job' # <<>> => job'[1].run \in 0..Len(runs))
  <2>1. CASE Boot
    <3>1. NewJob("FULL_HISTORY") \in AtMostOne(JobRows) /\ NewJob("FULL_HISTORY")[1].run = 0
      BY <1>1, NewJobTyped
    <3> QED BY <1>3, <2>1, <3>1 DEF Boot
  <2>2. CASE WorkerDies
    BY <1>1, <1>3, <2>2, RetriedTyped DEF WorkerDies
  <2>3. CASE CompleteJob
    <3>1. <<>> \in AtMostOne(JobRows)
      BY JustOne, <1>1, <2>3, QuoteTypes DEF CompleteJob
    <3> QED BY <2>3, <3>1 DEF CompleteJob
  <2> QED BY <2>1, <2>2, <2>3
<1>5. boots' \in 0..MaxBoots /\ faults' \in 0..MaxFaults
  BY <1>3 DEF Boot, WorkerDies, CompleteJob
<1>6. CASE Boot \/ CompleteJob
  <2>1. UNCHANGED runs
    BY <1>6 DEF Boot, CompleteJob
  <2>2. QuoteTypeOK'
    BY <1>1, <1>2, <1>3, <1>4, <1>5, <2>1, RowsTyped
  <2> QED BY <1>2, <2>1, <2>2, RowsStay DEF SameRun
<1>7. CASE WorkerDies
  <2>1. /\ job # <<>> /\ job[1].run # 0 /\ boots' = boots
        /\ runs' = [runs EXCEPT ![job[1].run].page = <<>>]
    BY <1>7 DEF WorkerDies
  <2>2. job[1].run \in 1..Len(runs)
    BY <1>1, <2>1, QuoteTypes
  <2>3. <<>> \in AtMostOne(PageRows)
    BY EmptySeq DEF AtMostOne
  <2> QED BY <1>2, <1>4, <1>5, <2>1, <2>2, <2>3, PageReplaced
<1> QED BY <1>6, <1>7

(* A run is added.                                                          *)
LEMMA RunAdded ==
  ASSUME QuoteInv, UNCHANGED <<scenario, today, official, snaps, finished, boots, faults, overnight>>,
         NEW range, range[1] \in Days, range[2] \in Days, range[1] <= range[2],
         runs' = Append(runs, NewRun(range)),
         job' \in AtMostOne(JobRows), job' # <<>> => job'[1].run \in 0..(Len(runs) + 1),
         manual' \in 0..(Len(runs) + 1)
  PROVE  QuoteInv' /\ MarketGoesOn
<1> PICK row : row = NewRun(range)
  OBVIOUS
<1>1. scenario \in Scenarios /\ QuoteTypeOK
  BY DEF QuoteInv
<1>2. <<>> \in Seq(Nat) /\ <<>> \in AtMostOne(PageRows)
  BY EmptySeq DEF AtMostOne
<1>3. row \in RunRows /\ row.links = <<>> /\ row.page = <<>> /\ row.from <= row.to
  <2> PICK from, to, links, page : from = range[1] /\ to = range[2] /\ links = <<>> /\ page = <<>>
    OBVIOUS
  <2>1. from \in Days /\ to \in Days /\ links \in Seq(Nat) /\ page \in AtMostOne(PageRows) /\ from <= to
    BY <1>2
  <2>2. row = [from |-> from, to |-> to, links |-> links, page |-> page, status |-> "RUNNING"]
    BY DEF NewRun
  <2>3. row.links = links /\ row.page = page /\ row.from = from /\ row.to = to /\ row \in RunRows
    BY ONLY <2>1, <2>2 DEF RunRows
  <2> QED BY <2>1, <2>3
<1>4. runs \in Seq(RunRows) /\ Len(runs) \in Nat /\ finished \in Seq(Nat)
  BY <1>1, QuoteTypes DEF QuoteTypeOK
<1>5. /\ runs' \in Seq(RunRows) /\ Len(runs') = Len(runs) + 1
      /\ \A r \in 1..Len(runs) : runs'[r] = runs[r]
      /\ runs'[Len(runs) + 1] = row
  BY <1>3, <1>4, AppendProperties
<1>6. \A r \in 1..Len(runs') : r \notin 1..Len(runs) => runs'[r] = row
  <2>1. \A r \in 1..(Len(runs) + 1) : r \notin 1..Len(runs) => r = Len(runs) + 1
    BY <1>4
  <2> QED BY <1>5, <2>1
<1>7. boots \in 0..MaxBoots /\ faults \in 0..MaxFaults
  BY <1>1 DEF QuoteTypeOK
<1>8. QuoteTypeOK'
  BY <1>1, <1>3, <1>4, <1>5, <1>6, <1>7, RowsTyped
<1>9. ASSUME NEW r \in 1..Len(runs')
      PROVE  (runs'[r].links = <<>> /\ runs'[r].page = <<>>) \/ (runs'[r] = runs[r] /\ SameRun(r))
  <2>1. CASE r \in 1..Len(runs)
    BY <1>5, <2>1 DEF SameRun
  <2>2. CASE r \notin 1..Len(runs)
    BY <1>3, <1>6, <2>2
  <2> QED BY <2>1, <2>2
<1> QED BY <1>8, <1>9, RowsStay

(* The job or the script starts a run.                                      *)
LEMMA StartStep ==
  ASSUME QuoteInv, UNCHANGED scenario, StartJob \/ \E range \in ManualRanges : StartManual(range)
  PROVE  QuoteInv' /\ MarketGoesOn
<1>1. scenario \in Scenarios /\ QuoteTypeOK /\ Len(runs) \in Nat /\ manual \in 0..Len(runs)
  BY QuoteTypes DEF QuoteInv, QuoteTypeOK
<1>2. CASE StartJob
  <2> PICK range : range = chinaMoneyRange(job[1].kind)
    OBVIOUS
  <2>1. job # <<>> /\ job[1] \in JobRows /\ job[1].kind \in {"FULL_HISTORY", "RECENT_SEVEN_DAYS"}
    BY <1>1, <1>2, QuoteTypes DEF StartJob, JobRows
  <2>2. range[1] \in Days /\ range[2] \in Days /\ range[1] <= range[2]
    <3>1. today \in 1..LastDay /\ LastDay \in Nat /\ RecentDays \in Nat \ {0} /\ Days = 1..LastDay
      BY <1>1, QuoteTypes, ScenarioFacts DEF Days
    <3>2. CASE job[1].kind = "FULL_HISTORY"
      <4>1. range = <<1, today>>
        BY <3>2 DEF chinaMoneyRange
      <4> QED BY <3>1, <4>1
    <3>3. CASE job[1].kind = "RECENT_SEVEN_DAYS"
      <4> PICK first : first = Max({1, today - RecentDays + 1})
        OBVIOUS
      <4>1. range = <<first, today>>
        BY <3>3 DEF chinaMoneyRange
      <4>2. today - RecentDays + 1 \in Int /\ 1 \in Int
        BY <3>1
      <4>3. first \in {1, today - RecentDays + 1} /\ first >= 1
        BY ONLY <4>2, OfTwo, first = Max({1, today - RecentDays + 1})
      <4>4. first \in 1..today
        BY ONLY <3>1, <4>3
      <4> QED BY <3>1, <4>1, <4>4
    <3> QED BY <2>1, <3>2, <3>3
  <2>3. /\ runs' = Append(runs, NewRun(range)) /\ job' = <<[job[1] EXCEPT !.run = Len(runs) + 1]>>
        /\ UNCHANGED <<today, official, snaps, finished, manual, boots, faults, overnight>>
    BY <1>2 DEF StartJob
  <2>4. Len(runs) + 1 \in Nat /\ manual \in 0..(Len(runs) + 1) /\ Len(runs) + 1 \in 0..(Len(runs) + 1)
    BY ONLY <1>1
  <2>5. job' \in AtMostOne(JobRows) /\ job'[1].run = Len(runs) + 1
    BY <1>1, <2>1, <2>3, <2>4, JobGivenRun
  <2> QED BY <2>2, <2>3, <2>4, <2>5, RunAdded
<1>3. ASSUME NEW range \in ManualRanges, StartManual(range) PROVE QuoteInv' /\ MarketGoesOn
  <2>1. range[1] \in Days /\ range[2] \in Days /\ range[1] <= range[2]
    BY <1>1, ScenarioFacts
  <2>2. /\ runs' = Append(runs, NewRun(range)) /\ manual' = Len(runs) + 1
        /\ UNCHANGED <<today, official, snaps, finished, job, boots, faults, overnight>>
    BY <1>3 DEF StartManual
  <2>3. job \in AtMostOne(JobRows) /\ (job # <<>> => job[1].run \in 0..(Len(runs) + 1))
    BY <1>1 DEF QuoteTypeOK
  <2>4. Len(runs) + 1 \in 0..(Len(runs) + 1)
    BY ONLY <1>1
  <2> QED BY <2>1, <2>2, <2>3, <2>4, RunAdded
<1> QED BY <1>2, <1>3

(* A run that failed or succeeded.                                          *)
LEMMA VerdictStep ==
  ASSUME QuoteInv, UNCHANGED scenario, NEW r \in Live, FailPage(r) \/ SucceedRun(r)
  PROVE  QuoteInv' /\ MarketGoesOn
<1> PICK st, page, row : /\ st = (IF FailPage(r) THEN "FAILED" ELSE "SUCCEEDED")
                         /\ page = (IF FailPage(r) THEN <<>> ELSE runs[r].page)
                         /\ row = [runs[r] EXCEPT !.status = st, !.page = page]
  OBVIOUS
<1>1. /\ scenario \in Scenarios /\ QuoteTypeOK /\ runs \in Seq(RunRows) /\ Len(runs) \in Nat
      /\ finished \in Seq(Nat) /\ Len(finished) \in Nat /\ job \in AtMostOne(JobRows)
      /\ job # <<>> => job[1].run \in 0..Len(runs)
      /\ manual \in 0..Len(runs) /\ boots \in 0..MaxBoots /\ faults \in 0..MaxFaults /\ MaxFaults \in Nat
  BY QuoteTypes, ScenarioFacts DEF QuoteInv, QuoteTypeOK
<1>2. r \in 1..Len(runs) /\ runs[r].status = "RUNNING" /\ r \in Nat
  BY <1>1 DEF Live
<1>3. /\ row \in RunRows /\ row.status = st /\ row.from = runs[r].from /\ row.to = runs[r].to
      /\ row.links = runs[r].links /\ row.page = page
  <2>1. runs[r] \in RunRows /\ st \in {"FAILED", "SUCCEEDED"}
    BY <1>1, <1>2, QuoteTypes
  <2>2. page \in AtMostOne(PageRows)
    BY <2>1, EmptySeq DEF RunRows, AtMostOne
  <2> QED BY <2>1, <2>2 DEF RunRows
<1>4. runs' = [runs EXCEPT ![r] = row]
  <2>1. CASE FailPage(r)
    BY <2>1 DEF FailPage
  <2>2. CASE ~FailPage(r)
    <3>1. runs' = [runs EXCEPT ![r].status = "SUCCEEDED"] /\ runs[r] \in RunRows
      BY <1>1, <1>2, <2>2, QuoteTypes DEF SucceedRun
    <3>2. row = [runs[r] EXCEPT !.status = "SUCCEEDED"]
      BY <2>2, <3>1 DEF RunRows
    <3> QED BY <3>1, <3>2
  <2> QED BY <2>1, <2>2
<1>5. /\ runs' \in Seq(RunRows) /\ Len(runs') = Len(runs) /\ runs'[r] = row
      /\ \A s \in 1..Len(runs) : s # r => runs'[s] = runs[s]
  BY ONLY <1>1, <1>2, <1>3, <1>4, ExceptSeq
<1>6. \A s \in 1..Len(runs) :
        /\ runs'[s].from = runs[s].from /\ runs'[s].to = runs[s].to /\ runs'[s].links = runs[s].links
        /\ runs[s].status = "SUCCEEDED" => runs'[s].status = "SUCCEEDED"
  BY <1>2, <1>3, <1>5
<1>7. UNCHANGED <<today, official, snaps, boots, overnight>>
  BY DEF FailPage, SucceedRun
<1>8. /\ finished' \in Seq(Nat) /\ job' \in AtMostOne(JobRows) /\ (job' # <<>> => job'[1].run \in 0..Len(runs))
      /\ manual' \in 0..Len(runs) /\ faults' \in 0..MaxFaults
      /\ \A i \in 1..Len(finished') :
           (i \in 1..Len(finished) /\ finished'[i] = finished[i])
             \/ (finished'[i] = r /\ runs'[r].status = "SUCCEEDED")
  <2>1. CASE FailPage(r)
    <3>1. finished' = finished /\ faults' = faults + 1 /\ faults < MaxFaults
      BY <2>1 DEF FailPage
    <3>2. faults' \in 0..MaxFaults /\ 0 \in 0..Len(runs)
      BY ONLY <1>1, <3>1
    <3>3. /\ job' \in AtMostOne(JobRows) /\ (job' # <<>> => job'[1].run \in 0..Len(runs))
          /\ manual' \in 0..Len(runs)
      <4>1. CASE r = manual
        BY <1>1, <2>1, <3>2, <4>1 DEF FailPage
      <4>2. CASE r # manual
        <5>1. job # <<>> /\ job' = Retried /\ manual' = manual
          BY <2>1, <4>2 DEF FailPage, Live
        <5>2. Retried \in AtMostOne(JobRows) /\ (Retried # <<>> => Retried[1].run = 0)
          BY <1>1, <5>1, RetriedTyped
        <5> QED BY <1>1, <3>2, <5>1, <5>2
      <4> QED BY <4>1, <4>2
    <3> QED BY <1>1, <3>1, <3>2, <3>3
  <2>2. CASE ~FailPage(r)
    <3>1. /\ finished' = Append(finished, r) /\ manual' = (IF r = manual THEN 0 ELSE manual)
          /\ job' = job /\ faults' = faults /\ st = "SUCCEEDED"
      BY <2>2 DEF SucceedRun
    <3>2. /\ finished' \in Seq(Nat) /\ Len(finished') = Len(finished) + 1
          /\ \A i \in 1..Len(finished) : finished'[i] = finished[i]
          /\ finished'[Len(finished) + 1] = r
      BY <1>1, <1>2, <3>1, AppendProperties
    <3>3. \A i \in 1..(Len(finished) + 1) : i \in 1..Len(finished) \/ i = Len(finished) + 1
      BY <1>1
    <3>4. manual' \in 0..Len(runs)
      BY <1>1, <3>1
    <3> QED BY <1>1, <1>3, <1>5, <3>1, <3>2, <3>3, <3>4
  <2> QED BY <2>1, <2>2
<1>9. /\ \A i \in 1..Len(finished') :
           (i \in 1..Len(finished) /\ finished'[i] = finished[i])
             \/ (finished'[i] \in 1..Len(runs') /\ runs'[finished'[i]].status = "SUCCEEDED")
      /\ \A s \in 1..Len(runs') :
           s \notin 1..Len(runs) => runs'[s].from <= runs'[s].to /\ runs'[s].links = <<>>
      /\ job' # <<>> => job'[1].run \in 0..Len(runs')
      /\ manual' \in 0..Len(runs') /\ boots' \in 0..MaxBoots /\ Len(runs) <= Len(runs')
  <2>1. ASSUME NEW i \in 1..Len(finished'), ~(i \in 1..Len(finished) /\ finished'[i] = finished[i])
        PROVE  finished'[i] \in 1..Len(runs') /\ runs'[finished'[i]].status = "SUCCEEDED"
    <3>1. finished'[i] = r /\ runs'[r].status = "SUCCEEDED"
      BY <1>8, <2>1
    <3> QED BY <1>2, <1>5, <3>1
  <2>2. \A s \in 1..Len(runs') : s \in 1..Len(runs)
    BY <1>5
  <2>3. boots' \in 0..MaxBoots /\ Len(runs) <= Len(runs')
    BY <1>1, <1>5, <1>7
  <2> QED BY <1>5, <1>8, <2>1, <2>2, <2>3
<1>10. QuoteTypeOK'
  BY <1>1, <1>5, <1>6, <1>7, <1>8, <1>9, RowsTyped
<1>11. \A s \in 1..Len(runs') : SameRun(s) /\ runs'[s].page \in {<<>>, runs[s].page}
  BY <1>3, <1>5, <1>6 DEF SameRun
<1> QED BY <1>7, <1>10, <1>11, RowsStay

(* The days of the next request are days of history, and the request after  *)
(* it starts after them.                                                    *)
LEMMA NextPage ==
  ASSUME scenario \in Scenarios, QuoteTypeOK, NEW r \in 1..Len(runs), HasMore(r)
  PROVE  /\ PageFrom(r) \in Nat /\ PageTo(r) \in Nat /\ PageFrom(r)..PageTo(r) \subseteq Days
         /\ runs[r].from + (Len(runs[r].links) + 1) * SliceDays > PageTo(r)
         /\ runs[r].from + (Len(runs[r].links) + 1) * SliceDays >= PageFrom(r)
<1> PICK n, f, t, k : n = Len(runs[r].links) /\ f = runs[r].from /\ t = runs[r].to /\ k = SliceDays
  OBVIOUS
<1>1. n \in Nat /\ f \in 1..LastDay /\ t \in 1..LastDay /\ k \in Nat \ {0} /\ LastDay \in Nat
  BY QuoteTypes, ScenarioFacts DEF Days
<1> PICK x, y : x = f + n * k /\ y = Min({x + k - 1, t})
  OBVIOUS
<1>2. n * k \in Nat /\ (n + 1) * k = n * k + k
  BY ONLY <1>1
<1>3. PageFrom(r) = x /\ PageTo(r) = y /\ x <= t
  BY DEF PageFrom, PageTo, HasMore
<1>4. x \in Nat /\ x >= 1 /\ x + k - 1 \in Int /\ f + (n + 1) * k = x + k
  BY ONLY <1>1, <1>2, x = f + n * k
<1>5. y \in {x + k - 1, t} /\ y <= x + k - 1 /\ y <= t
  <2>1. t \in Int
    BY ONLY <1>1
  <2> PICK z : z = x + k - 1
    OBVIOUS
  <2> QED BY ONLY <1>4, <2>1, OfTwo, z = x + k - 1, y = Min({x + k - 1, t})
<1>6. y \in Nat /\ x..y \subseteq 1..LastDay /\ x + k > y /\ x + k >= x
  BY ONLY <1>1, <1>3, <1>4, <1>5
<1> QED BY <1>3, <1>4, <1>6 DEF Days

(* The day up to which an absence counts is over, or a later day already    *)
(* has rates.                                                               *)
LEMMA AbsenceProven ==
  ASSUME QuoteInv, NEW from \in Nat, NEW to \in Nat, from..to \subseteq Days,
         NEW body, DOMAIN body = from..to,
         \A e \in from..to : /\ Traded(body, e) => Traded(official, e)
                             /\ e < today /\ ~Traded(body, e) => Closed(e),
         NEW d \in from..to, d <= safeAbsenceCutoff(body, to), ~Traded(body, d)
  PROVE  Closed(d)
<1>1. scenario \in Scenarios /\ QuoteTypeOK /\ QuotesTrue
  BY DEF QuoteInv
<1>2. today \in Nat /\ d \in Nat /\ d # 0 /\ LastDay \in Nat
  BY <1>1, QuoteTypes DEF Days
<1>4. CASE to < today
  <2>1. d <= to
    OBVIOUS
  <2>2. d < today
    BY ONLY <1>2, <1>4, <2>1, to \in Nat
  <2> QED BY <2>2
<1>5. CASE ~(to < today)
  <2> PICK S : S = {0} \cup {e \in DOMAIN body : Traded(body, e)}
    OBVIOUS
  <2>1. S \in SUBSET (0..LastDay) /\ S # {}
    BY <1>2 DEF Days
  <2>2. Max(S) \in S
    BY ONLY <1>2, <2>1, NatMax
  <2> PICK e : e = Max(S)
    OBVIOUS
  <2>3. d <= e /\ e \in S
    BY <1>5, <2>2 DEF safeAbsenceCutoff
  <2>4. e # 0
    BY ONLY <1>2, <2>3
  <2>5. e \in from..to /\ Traded(body, e)
    BY <1>2, <2>3, <2>4
  <2>6. e <= today /\ e # d /\ e \in Nat
    BY <1>1, <2>5 DEF QuotesTrue
  <2>7. d < today
    BY ONLY <1>2, <2>3, <2>6
  <2> QED BY <2>7
<1> QED BY <1>4, <1>5

(* The cutoff is a day, or 0.                                               *)
LEMMA CutoffTyped ==
  ASSUME scenario \in Scenarios, QuoteTypeOK, NEW to \in Nat, NEW body, DOMAIN body \subseteq Days
  PROVE  safeAbsenceCutoff(body, to) \in Nat
<1> PICK S : S = {0} \cup {d \in DOMAIN body : Traded(body, d)}
  OBVIOUS
<1>1. LastDay \in Nat
  BY QuoteTypes
<1>2. S \in SUBSET (0..LastDay) /\ S # {}
  BY <1>1 DEF Days
<1>3. Max(S) \in S
  BY ONLY <1>1, <1>2, NatMax
<1>4. Max(S) \in Nat
  BY <1>2, <1>3
<1> QED BY <1>4 DEF safeAbsenceCutoff

(* The source answers with what it has published.                           *)
LEMMA AnswerStep ==
  ASSUME QuoteInv, UNCHANGED scenario, NEW r \in Live, AnswerPage(r)
  PROVE  QuoteInv' /\ MarketGoesOn
<1> PICK from, to : from = PageFrom(r) /\ to = PageTo(r)
  OBVIOUS
<1> PICK body : body = [d \in from..to |-> official[d]]
  OBVIOUS
<1> PICK p : p = [body |-> body, dated |-> FALSE, cutoff |-> 0]
  OBVIOUS
<1>1. /\ scenario \in Scenarios /\ QuoteTypeOK /\ official \in [Days -> DayRates] /\ Len(runs) \in Nat
      /\ job \in AtMostOne(JobRows) /\ (job # <<>> => job[1].run \in 0..Len(runs)) /\ faults \in 0..MaxFaults
  BY QuoteTypes DEF QuoteInv, QuoteTypeOK
<1>2. /\ r \in 1..Len(runs) /\ HasMore(r) /\ runs' = [runs EXCEPT ![r].page = <<p>>]
      /\ UNCHANGED <<today, official, snaps, finished, job, manual, boots, faults, overnight>>
  BY DEF Live, AnswerPage, parseChinaMoneyPage
<1>3. from \in Nat /\ to \in Nat /\ from..to \subseteq Days
  BY <1>1, <1>2, NextPage
<1>4. p.body = body /\ p.dated = FALSE /\ DOMAIN body = from..to
  OBVIOUS
<1>5. p \in PageRows
  <2>1. body \in [from..to -> DayRates]
    BY <1>1, <1>3
  <2>2. body \in Bodies
    BY <1>3, <2>1 DEF Bodies
  <2> QED BY <2>2 DEF PageRows
<1>6. PageTrue(r, p)
  <2>1. \A d \in from..to : Traded(body, d) <=> Traded(official, d)
    BY DEF Traded
  <2> QED BY <1>2, <1>4, <2>1 DEF PageTrue, Closed
<1>7. <<p>> \in AtMostOne(PageRows) /\ <<p>>[1] = p
  BY ONLY <1>5, JustOne
<1> QED BY <1>1, <1>2, <1>6, <1>7, PageReplaced

(* The clock decides what the gaps of an answer prove.                      *)
LEMMA ClockStep ==
  ASSUME QuoteInv, UNCHANGED scenario, NEW r \in Live, ReadClock(r)
  PROVE  QuoteInv' /\ MarketGoesOn
<1> PICK from, to, body : from = PageFrom(r) /\ to = PageTo(r) /\ body = runs[r].page[1].body
  OBVIOUS
<1> PICK p : p = [body |-> body, dated |-> TRUE, cutoff |-> safeAbsenceCutoff(body, to)]
  OBVIOUS
<1>1. /\ scenario \in Scenarios /\ QuoteTypeOK /\ PendingTrue /\ Len(runs) \in Nat
      /\ job \in AtMostOne(JobRows) /\ (job # <<>> => job[1].run \in 0..Len(runs)) /\ faults \in 0..MaxFaults
  BY QuoteTypes DEF QuoteInv, QuoteTypeOK
<1>2. /\ r \in 1..Len(runs) /\ runs' = [runs EXCEPT ![r].page = <<p>>]
      /\ runs[r].page # <<>> /\ ~runs[r].page[1].dated
      /\ UNCHANGED <<today, official, snaps, finished, job, manual, boots, faults, overnight>>
  BY DEF Live, ReadClock
<1>3. /\ HasMore(r) /\ DOMAIN body = from..to
      /\ \A d \in from..to : /\ Traded(body, d) => Traded(official, d)
                             /\ d < today /\ ~Traded(body, d) => Closed(d)
  BY <1>1, <1>2 DEF PendingTrue, PageTrue
<1>4. from \in Nat /\ to \in Nat /\ from..to \subseteq Days
  BY <1>1, <1>2, <1>3, NextPage
<1>5. p.body = body /\ p.dated = TRUE /\ p.cutoff = safeAbsenceCutoff(body, to)
  OBVIOUS
<1>6. p \in PageRows
  <2>1. body \in Bodies
    BY <1>1, <1>2, QuoteTypes
  <2>2. safeAbsenceCutoff(body, to) \in Nat
    BY <1>1, <1>3, <1>4, CutoffTyped
  <2>3. \A n \in Nat : [body |-> body, dated |-> TRUE, cutoff |-> n] \in PageRows
    BY <2>1 DEF PageRows
  <2> QED BY ONLY <2>2, <2>3, p = [body |-> body, dated |-> TRUE, cutoff |-> safeAbsenceCutoff(body, to)]
<1>7. PageTrue(r, p)
  <2>1. \A d \in from..to : d <= safeAbsenceCutoff(body, to) /\ ~Traded(body, d) => Closed(d)
    BY <1>3, <1>4, AbsenceProven
  <2> QED BY <1>3, <1>5, <2>1 DEF PageTrue
<1>8. <<p>> \in AtMostOne(PageRows) /\ <<p>>[1] = p
  BY ONLY <1>6, JustOne
<1> QED BY <1>1, <1>2, <1>7, <1>8, PageReplaced

(* An answer is stored.                                                     *)
LEMMA StoreStep ==
  ASSUME QuoteInv, UNCHANGED scenario, NEW r \in Live, StorePage(r)
  PROVE  QuoteInv' /\ MarketGoesOn
<1> PICK from, to : from = PageFrom(r) /\ to = PageTo(r)
  OBVIOUS
<1> PICK body, cutoff : body = runs[r].page[1].body /\ cutoff = runs[r].page[1].cutoff
  OBVIOUS
<1> PICK absent : absent = {d \in DOMAIN body : d <= cutoff /\ ~Traded(body, d)}
  OBVIOUS
<1> PICK same : same = {s \in 1..Len(snaps) : snaps[s].body = body}
  OBVIOUS
<1> PICK snap : snap = IF same = {} THEN Len(snaps) + 1 ELSE Min(same)
  OBVIOUS
<1>1. /\ scenario \in Scenarios /\ QuoteTypeOK /\ QuotesTrue /\ PendingTrue /\ PagesApart
      /\ runs \in Seq(RunRows) /\ Len(runs) \in Nat /\ Len(snaps) \in Nat
      /\ today \in Days /\ official \in [Days -> DayRates] /\ SliceDays \in Nat \ {0}
      /\ snaps \in Seq(SnapRows)
  BY QuoteTypes DEF QuoteInv, QuoteTypeOK
<1>2. /\ r \in 1..Len(runs) /\ HasMore(r) /\ DOMAIN body = from..to /\ body \in Bodies
      /\ \A d \in from..to : /\ Traded(body, d) => Traded(official, d)
                             /\ d <= cutoff /\ ~Traded(body, d) => Closed(d)
  <2>1. r \in 1..Len(runs) /\ runs[r].page # <<>> /\ runs[r].page[1].dated
    BY DEF Live, StorePage
  <2>2. PageTrue(r, runs[r].page[1]) /\ body \in Bodies
    BY <1>1, <2>1, QuoteTypes DEF PendingTrue
  <2> QED BY <2>1, <2>2 DEF PageTrue
<1>3. /\ from \in Nat /\ to \in Nat /\ from..to \subseteq Days
      /\ runs[r].from + (Len(runs[r].links) + 1) * SliceDays > to
      /\ runs[r].from + (Len(runs[r].links) + 1) * SliceDays >= from
  BY <1>1, <1>2, NextPage
<1>4. UNCHANGED <<today, official, finished, job, manual, boots, faults, overnight>>
  BY DEF StorePage
<1>5. /\ snaps' = IF same = {}
                    THEN Append(snaps, [body |-> body, absent |-> absent])
                    ELSE [snaps EXCEPT ![snap].absent = snaps[snap].absent \cup absent]
      /\ runs' = [runs EXCEPT ![r].links = Append(runs[r].links, snap), ![r].page = <<>>]
  BY DEF StorePage, persistPage
<1>6. body \in Bodies /\ DOMAIN body = from..to /\ absent \in SUBSET Days
  BY <1>2, <1>3
<1>7. /\ snaps' \in Seq(SnapRows) /\ Len(snaps) <= Len(snaps')
      /\ \A s \in 1..Len(snaps) : snaps'[s].body = snaps[s].body
      /\ snap \in 1..Len(snaps') /\ snaps'[snap].body = body
      /\ \A s \in 1..Len(snaps') :
           /\ s \in 1..Len(snaps) \/ s = snap
           /\ \A d \in snaps'[s].absent :
                (s = snap /\ d \in absent) \/ (s \in 1..Len(snaps) /\ d \in snaps[s].absent)
  <2> PICK stored : stored = IF same = {} THEN [body |-> body, absent |-> absent]
                             ELSE [snaps[snap] EXCEPT !.absent = snaps[snap].absent \cup absent]
    OBVIOUS
  <2>1. CASE same = {}
    <3>1. stored \in SnapRows /\ stored.body = body /\ stored.absent \subseteq absent
      BY <1>6, <2>1 DEF SnapRows
    <3>2. snap = Len(snaps) + 1 /\ snaps' = Append(snaps, stored)
      BY <1>5, <2>1
    <3>3. /\ snaps' \in Seq(SnapRows) /\ Len(snaps') = Len(snaps) + 1
          /\ \A s \in 1..Len(snaps) : snaps'[s] = snaps[s]
          /\ snaps'[Len(snaps) + 1] = stored
      BY ONLY <1>1, <3>1, <3>2, AppendProperties
    <3>4. /\ \A s \in 1..(Len(snaps) + 1) : s \in 1..Len(snaps) \/ s = Len(snaps) + 1
          /\ Len(snaps) + 1 \in 1..(Len(snaps) + 1) /\ Len(snaps) <= Len(snaps) + 1
      BY ONLY <1>1
    <3> QED BY ONLY <3>1, <3>2, <3>3, <3>4
  <2>2. CASE same # {}
    <3>1. same \in SUBSET Nat
      BY <1>1
    <3>2. snap \in same
      BY <2>2, <3>1, NatMin
    <3>3. snap \in 1..Len(snaps) /\ snaps[snap].body = body /\ snaps[snap] \in SnapRows
      BY <1>1, <3>2, QuoteTypes
    <3>4. /\ stored \in SnapRows /\ stored.body = body
          /\ stored.absent \subseteq snaps[snap].absent \cup absent
      BY <1>6, <2>2, <3>3 DEF SnapRows
    <3>5. snaps' = [snaps EXCEPT ![snap] = stored]
      BY <1>5, <2>2
    <3>6. /\ snaps' \in Seq(SnapRows) /\ Len(snaps') = Len(snaps) /\ snaps'[snap] = stored
          /\ \A s \in 1..Len(snaps) : s # snap => snaps'[s] = snaps[s]
      BY ONLY <1>1, <3>3, <3>4, <3>5, ExceptSeq
    <3>7. \A s \in 1..Len(snaps') :
            /\ s \in 1..Len(snaps) \/ s = snap
            /\ \A d \in snaps'[s].absent :
                 (s = snap /\ d \in absent) \/ (s \in 1..Len(snaps) /\ d \in snaps[s].absent)
      BY ONLY <3>3, <3>4, <3>6
    <3>8. \A s \in 1..Len(snaps) : snaps'[s].body = snaps[s].body
      BY ONLY <3>3, <3>4, <3>6
    <3>9. snap \in 1..Len(snaps') /\ snaps'[snap].body = body /\ Len(snaps) <= Len(snaps')
      BY ONLY <1>1, <3>3, <3>4, <3>6
    <3> QED BY ONLY <3>6, <3>7, <3>8, <3>9
  <2> QED BY <2>1, <2>2
<1>8. Len(snaps') \in Nat /\ snap \in Nat
  BY <1>7, LenProperties
<1> PICK old, links : old = runs[r].links /\ links = Append(old, snap)
  OBVIOUS
<1>9. old \in Seq(Nat) /\ Len(old) \in Nat /\ \A i \in 1..Len(old) : old[i] \in 1..Len(snaps)
  BY <1>1, <1>2, QuoteTypes
<1>10. /\ links \in Seq(Nat) /\ Len(links) = Len(old) + 1
       /\ \A i \in 1..Len(old) : links[i] = old[i]
       /\ links[Len(old) + 1] = snap
  BY ONLY <1>8, <1>9, AppendProperties, links = Append(old, snap)
<1>11. \A i \in 1..Len(links) : i \in 1..Len(old) \/ i = Len(old) + 1
  BY <1>9, <1>10
<1> PICK row : row = [runs[r] EXCEPT !.links = links, !.page = <<>>]
  OBVIOUS
<1>12. /\ row \in RunRows /\ row.from = runs[r].from /\ row.to = runs[r].to /\ row.status = runs[r].status
       /\ row.links = links /\ row.page = <<>>
  <2>1. runs[r] \in RunRows
    BY <1>1, <1>2, QuoteTypes
  <2>2. <<>> \in AtMostOne(PageRows)
    BY EmptySeq DEF AtMostOne
  <2> QED BY ONLY <1>10, <2>1, <2>2, row = [runs[r] EXCEPT !.links = links, !.page = <<>>] DEF RunRows
<1>13. /\ runs' \in Seq(RunRows) /\ Len(runs') = Len(runs) /\ runs'[r] = row
       /\ \A s \in 1..Len(runs) : s # r => runs'[s] = runs[s]
  <2>1. runs' = [runs EXCEPT ![r] = row]
    BY <1>5
  <2> QED BY ONLY <1>1, <1>2, <1>12, <2>1, ExceptSeq
<1>14. QuoteTypeOK'
  <2>1. ASSUME NEW s \in 1..Len(runs')
        PROVE  runs'[s].from <= runs'[s].to /\ ToSet(runs'[s].links) \subseteq 1..Len(snaps')
    <3>1. runs[s].from <= runs[s].to /\ ToSet(runs[s].links) \subseteq 1..Len(snaps)
      BY <1>1, <1>13 DEF QuoteTypeOK
    <3>2. CASE s = r
      <4>1. \A i \in 1..Len(links) : links[i] \in 1..Len(snaps')
        <5>1. 1..Len(snaps) \subseteq 1..Len(snaps')
          BY ONLY <1>1, <1>7, <1>8
        <5> QED BY ONLY <1>7, <1>9, <1>10, <1>11, <5>1
      <4>2. DOMAIN links = 1..Len(links)
        BY ONLY <1>10, LenProperties
      <4>3. ToSet(links) \subseteq 1..Len(snaps')
        BY ONLY <4>1, <4>2 DEF ToSet
      <4> QED BY <1>12, <1>13, <3>1, <3>2, <4>3
    <3>3. CASE s # r
      <4>1. runs'[s] = runs[s]
        BY ONLY <1>13, <3>3, s \in 1..Len(runs')
      <4>2. 1..Len(snaps) \subseteq 1..Len(snaps')
        BY ONLY <1>1, <1>7, <1>8
      <4> QED BY ONLY <3>1, <4>1, <4>2
    <3> QED BY <3>2, <3>3
  <2>2. ASSUME NEW i \in 1..Len(finished)
        PROVE  finished[i] \in 1..Len(runs') /\ runs'[finished[i]].status = "SUCCEEDED"
    BY <1>1, <1>12, <1>13 DEF QuoteTypeOK
  <2> QED BY <1>1, <1>4, <1>7, <1>13, <2>1, <2>2, SameScenario DEF QuoteTypeOK
<1>15. Days' = Days /\ Currencies' = Currencies /\ SliceDays' = SliceDays /\ today \in Nat
  BY <1>1, SameScenario, QuoteTypes
<1>16. MarketGoesOn
  BY <1>4, <1>15 DEF MarketGoesOn, Traded, Closed
<1>17. QuotesTrue'
  <2>1. ASSUME NEW s \in 1..Len(snaps'), NEW d \in DOMAIN snaps'[s].body, Traded(snaps[s].body, d)'
        PROVE  Traded(official, d)'
    <3>1. CASE s = snap
      <4>1. snaps'[s].body = body /\ d \in from..to
        BY ONLY <1>6, <1>7, <2>1, <3>1
      <4>2. Traded(body, d)
        BY <1>15, <2>1, <4>1 DEF Traded
      <4>3. Traded(official, d)
        BY ONLY <1>2, <4>1, <4>2
      <4> QED BY <1>4, <1>15, <4>3 DEF Traded
    <3>2. CASE s \in 1..Len(snaps)
      <4>1. snaps'[s].body = snaps[s].body
        BY <1>7, <3>2
      <4>2. Traded(snaps[s].body, d)
        BY <1>15, <2>1, <4>1 DEF Traded
      <4>3. Traded(official, d)
        BY <1>1, <2>1, <3>2, <4>1, <4>2 DEF QuotesTrue
      <4> QED BY <1>4, <1>15, <4>3 DEF Traded
    <3> QED BY <1>7, <3>1, <3>2
  <2>2. ASSUME NEW s \in 1..Len(snaps'), NEW d \in snaps'[s].absent PROVE Closed(d)'
    <3>1. CASE d \in absent
      <4>1. d \in from..to /\ d <= cutoff /\ ~Traded(body, d)
        BY <1>6, <3>1
      <4>2. Closed(d)
        BY <1>2, <4>1
      <4> QED BY <1>4, <1>15, <4>2 DEF Closed, Traded
    <3>2. CASE s \in 1..Len(snaps) /\ d \in snaps[s].absent
      <4>1. Closed(d)
        BY <1>1, <3>2 DEF QuotesTrue
      <4> QED BY <1>4, <1>15, <4>1 DEF Closed, Traded
    <3> QED BY <1>7, <2>2, <3>1, <3>2
  <2>3. \A d \in Days' : Traded(official, d)' => d <= today'
    BY <1>1, <1>4, <1>15 DEF QuotesTrue, Traded
  <2>4. ASSUME NEW s \in 1..Len(snaps'), NEW d \in snaps'[s].absent
        PROVE  d \in DOMAIN snaps'[s].body /\ ~Traded(snaps[s].body, d)'
    <3>1. PICK b : b = snaps'[s].body
      OBVIOUS
    <3>2. d \in DOMAIN b /\ ~Traded(b, d)
      <4>1. CASE s \in 1..Len(snaps) /\ d \in snaps[s].absent
        <5>1. d \in DOMAIN snaps[s].body /\ ~Traded(snaps[s].body, d)
          BY <1>1, <4>1 DEF QuotesTrue
        <5>2. b = snaps[s].body
          BY <1>7, <3>1, <4>1
        <5> QED BY <5>1, <5>2
      <4>2. CASE s = snap /\ d \in absent
        <5>1. b = body
          BY <1>7, <3>1, <4>2
        <5> QED BY <4>2, <5>1
      <4> QED BY <1>7, <2>4, <4>1, <4>2
    <3> QED BY <1>15, <3>1, <3>2 DEF Traded
  <2>5. \A s \in 1..Len(snaps') :
          /\ \A d \in DOMAIN snaps'[s].body : Traded(snaps[s].body, d)' => Traded(official, d)'
          /\ \A d \in snaps'[s].absent :
               Closed(d)' /\ d \in DOMAIN snaps'[s].body /\ ~Traded(snaps[s].body, d)'
    BY <2>1, <2>2, <2>4
  <2> QED BY <2>3, <2>5 DEF QuotesTrue
<1>18. PagesApart'
  <2>1. PageFrom(r)' = runs[r].from + (Len(old) + 1) * SliceDays /\ PageFrom(r) = runs[r].from + Len(old) * SliceDays
    <3>1. runs'[r].from = runs[r].from /\ Len(runs'[r].links) = Len(old) + 1
      BY ONLY <1>10, <1>12, <1>13
    <3> QED BY <1>15, <3>1 DEF PageFrom
  <2>2. ASSUME NEW i \in 1..Len(old) PROVE PageDays(r, i)' = PageDays(r, i)
    <3>1. runs'[r].links[i] = old[i] /\ runs[r].links[i] = old[i] /\ old[i] \in 1..Len(snaps)
      BY ONLY <1>9, <1>10, <1>12, <1>13, old = runs[r].links
    <3>2. snaps'[old[i]].body = snaps[old[i]].body
      BY <1>7, <3>1
    <3> QED BY <3>1, <3>2 DEF PageDays
  <2>3. PageDays(r, Len(old) + 1)' = from..to
    <3>1. runs'[r].links[Len(old) + 1] = snap
      BY <1>10, <1>12, <1>13
    <3>2. DOMAIN snaps'[snap].body = from..to
      BY ONLY <1>6, <1>7
    <3> QED BY <3>1, <3>2 DEF PageDays
  <2>4. ASSUME NEW i \in 1..Len(old) PROVE PageDays(r, i) \subseteq Days /\ \A d \in PageDays(r, i) : d < from
    BY <1>1, <1>2, <1>9, QuoteTypes DEF PagesApart, PageDays
  <2>5. from..to \subseteq Nat /\ Days \subseteq Nat /\ PageFrom(r)' \in Int
    <3>1. runs[r].from \in Nat /\ Len(old) + 1 \in Nat
      BY <1>1, <1>2, <1>9, QuoteTypes DEF Days
    <3>2. (Len(old) + 1) * SliceDays \in Nat
      <4> PICK a, k : a = Len(old) + 1 /\ k = SliceDays
        OBVIOUS
      <4>1. a \in Nat /\ k \in Nat
        BY <1>1, <3>1
      <4>2. a * k \in Nat
        BY ONLY <4>1
      <4> QED BY <4>2
    <3>3. from..to \subseteq Nat /\ Days \subseteq Nat
      BY ONLY <1>3 DEF Days
    <3> QED BY ONLY <2>1, <3>1, <3>2, <3>3
  <2>6. \A d \in from..to : d < PageFrom(r)'
    <3> PICK n : n = runs[r].from + (Len(old) + 1) * SliceDays
      OBVIOUS
    <3>1. n \in Int /\ n > to
      BY <1>3, <2>1, <2>5
    <3> QED BY <1>3, <2>1, <3>1
  <2>7. ASSUME NEW i \in 1..Len(old) PROVE \A d \in PageDays(r, i) : d < PageFrom(r)'
    <3> PICK n : n = runs[r].from + (Len(old) + 1) * SliceDays
      OBVIOUS
    <3>1. n \in Int /\ n >= from
      BY <1>3, <2>1, <2>5
    <3>2. \A d \in PageDays(r, i) : d \in Nat /\ d < from
      BY <2>4, <2>5
    <3> QED BY <1>3, <2>1, <3>1, <3>2
  <2>8. ASSUME NEW i \in 1..Len(old) PROVE PageDays(r, i) \cap (from..to) = {}
    <3>1. \A d \in PageDays(r, i) : d \in Nat /\ d < from
      BY <2>4, <2>5
    <3> QED BY <1>3, <3>1
  <2>9. ASSUME NEW s \in 1..Len(runs'), NEW i \in 1..Len(runs'[s].links)
        PROVE  /\ \A d \in PageDays(s, i)' : d < PageFrom(s)'
               /\ \A j \in 1..Len(runs'[s].links) : i # j => (PageDays(s, i) \cap PageDays(s, j) = {})'
    <3>1. CASE s = r
      <4>1. runs'[s].links = links
        BY <1>12, <1>13, <3>1
      <4>2. \A d \in PageDays(s, i)' : d < PageFrom(s)'
        BY <1>11, <2>2, <2>3, <2>6, <2>7, <3>1, <4>1
      <4>3. ASSUME NEW j \in 1..Len(links), i # j PROVE (PageDays(s, i) \cap PageDays(s, j) = {})'
        <5>1. CASE i \in 1..Len(old) /\ j \in 1..Len(old)
          <6>1. PageDays(r, i) \cap PageDays(r, j) = {}
            BY <1>1, <1>2, <4>3, <5>1 DEF PagesApart
          <6> QED BY <2>2, <3>1, <5>1, <6>1
        <5>2. CASE i \in 1..Len(old) /\ j = Len(old) + 1
          <6>1. PageDays(s, i)' = PageDays(r, i)
            BY ONLY <2>2, <3>1, <5>2
          <6>2. PageDays(s, j)' = from..to
            BY ONLY <2>3, <3>1, <5>2
          <6>3. PageDays(r, i) \cap (from..to) = {}
            BY ONLY <2>8, <5>2
          <6> QED BY ONLY <6>1, <6>2, <6>3
        <5>3. CASE i = Len(old) + 1 /\ j \in 1..Len(old)
          <6>1. PageDays(s, j)' = PageDays(r, j)
            BY ONLY <2>2, <3>1, <5>3
          <6>2. PageDays(s, i)' = from..to
            BY ONLY <2>3, <3>1, <5>3
          <6>3. (from..to) \cap PageDays(r, j) = {}
            BY ONLY <2>8, <5>3
          <6> QED BY ONLY <6>1, <6>2, <6>3
        <5>4. i \in 1..Len(links)
          BY <4>1
        <5> QED BY <1>11, <4>3, <5>1, <5>2, <5>3, <5>4
      <4> QED BY <4>1, <4>2, <4>3
    <3>2. CASE s # r
      <4>1. s \in 1..Len(runs) /\ runs'[s] = runs[s]
        BY <1>13, <3>2
      <4>2. i \in 1..Len(runs[s].links) /\ PageFrom(s)' = PageFrom(s)
        BY <1>15, <4>1 DEF PageFrom
      <4>3. \A j \in 1..Len(runs[s].links) : PageDays(s, j)' = PageDays(s, j)
        <5>1. \A j \in 1..Len(runs[s].links) : runs[s].links[j] \in 1..Len(snaps)
          BY <1>1, <4>1, QuoteTypes
        <5> QED BY <1>7, <4>1, <5>1 DEF PageDays
      <4> QED BY <1>1, <4>1, <4>2, <4>3 DEF PagesApart
    <3> QED BY <3>1, <3>2
  <2> QED BY <2>9 DEF PagesApart
<1>19. PendingTrue'
  <2>1. \A s \in 1..Len(runs') : runs'[s].page # <<>> => SameRun(s) /\ runs'[s].page = runs[s].page
    BY <1>12, <1>13 DEF SameRun
  <2>2. \A d \in Days : ~(today <= d /\ d < today')
    BY <1>4, <1>15 DEF Days
  <2> QED BY <1>16, <2>1, <2>2, PendingStaysTrue
<1> QED BY <1>1, <1>14, <1>16, <1>17, <1>18, <1>19 DEF QuoteInv

(* Every step of the official rates.                                        *)
LEMMA QuoteStep ==
  ASSUME QuoteInv, UNCHANGED scenario, QuoteNext
  PROVE  QuoteInv' /\ MarketGoesOn
<1>1. CASE NewDay \/ \E q \in Quotations : Publish(q) \/ \E d \in Days : Correct(d, q)
  BY <1>1, MarketStep
<1>2. CASE Boot \/ WorkerDies \/ CompleteJob
  BY <1>2, JobStep
<1>3. CASE StartJob \/ \E range \in ManualRanges : StartManual(range)
  BY <1>3, StartStep
<1>4. ASSUME NEW r \in Live, FailPage(r) \/ SucceedRun(r) PROVE QuoteInv' /\ MarketGoesOn
  BY <1>4, VerdictStep
<1>5. ASSUME NEW r \in Live, AnswerPage(r) \/ ReadClock(r) \/ StorePage(r) PROVE QuoteInv' /\ MarketGoesOn
  BY <1>5, AnswerStep, ClockStep, StoreStep
<1> QED BY <1>1, <1>2, <1>3, <1>4, <1>5 DEF QuoteNext, SyncStep

-----------------------------------------------------------------------------
(* The parts of the invariant that overrides, reports and conversions keep. *)

(* The overrides and the writes under way.                                  *)
Book ==
  /\ overrides \in Seq(OverrideRows)
  /\ \A o \in 1..Len(overrides) : overrides[o].supersedes < o
  /\ writes \in [Keys -> AtMostOne(WriteRows)]
  /\ setLock \in Keys \cup {"free", "publish"}
  /\ \A k \in Keys : setLock = k <=> (writes[k] # <<>> /\ writes[k][1].inserted)
  /\ rejected \subseteq [key : Keys, again : BOOLEAN]
  /\ OverridesDisjoint /\ ReplaysAnswered /\ WritesFit /\ KeysOnce

(* The report.                                                              *)
Reports ==
  /\ setLock = "publish" <=> (report # <<>> /\ report[1].status = "CHECKED")
  /\ report \in AtMostOne(ReportRows) /\ published \subseteq 1..Len(overrides)
  /\ CheckedFits

(* The conversions.                                                         *)
Reads == reader \in AtMostOne(ReaderRows) /\ ReaderTrue /\ AnswersOnTradingDays

(* The invariant is these parts.                                            *)
LEMMA Parts == FxInv <=> QuoteInv /\ Book /\ Reports /\ Reads
  BY DEF FxInv, QuoteInv, Book, Reports, Reads, TypeOK

(* They are so after a step, too.                                           *)
LEMMA PartsNext == FxInv' <=> QuoteInv' /\ Book' /\ Reports' /\ Reads'
  BY DEF FxInv, QuoteInv, Book, Reports, Reads, TypeOK

(* The rows of the overrides and of the writes.                             *)
LEMMA BookRows ==
  ASSUME Book
  PROVE  /\ Len(overrides) \in Nat
         /\ \A o \in 1..Len(overrides) :
              /\ overrides[o] \in OverrideRows
              /\ overrides[o].supersedes \in Nat /\ overrides[o].supersedes < o
         /\ \A k \in Keys : writes[k] # <<>> =>
              /\ writes[k][1] \in WriteRows /\ writes[k] = <<writes[k][1]>>
              /\ writes[k][1].request \in WriteRequests /\ writes[k][1].inserted \in BOOLEAN
<1>1. Len(overrides) \in Nat
  BY LenProperties DEF Book
<1>2. \A o \in 1..Len(overrides) : overrides[o] \in OverrideRows
  BY ElementOfSeq DEF Book
<1>3. \A o \in 1..Len(overrides) : overrides[o].supersedes \in Nat /\ overrides[o].supersedes < o
  BY <1>2 DEF Book, OverrideRows
<1>4. ASSUME NEW k \in Keys, writes[k] # <<>>
      PROVE  /\ writes[k][1] \in WriteRows /\ writes[k] = <<writes[k][1]>>
             /\ writes[k][1].request \in WriteRequests /\ writes[k][1].inserted \in BOOLEAN
  <2>1. writes[k] \in AtMostOne(WriteRows)
    BY DEF Book
  <2>2. writes[k][1] \in WriteRows /\ writes[k] = <<writes[k][1]>>
    BY <1>4, <2>1, NoneOrOne
  <2> QED BY <2>2 DEF WriteRows
<1> QED BY <1>1, <1>2, <1>3, <1>4

(* What the steps that leave the overrides alone do not change.             *)
LEMMA SameBook ==
  ASSUME UNCHANGED <<scenario, overrides>>
  PROVE  /\ OverrideRows' = OverrideRows /\ WriteRequests' = WriteRequests /\ WriteRows' = WriteRows
         /\ ReportRows' = ReportRows /\ Current' = Current /\ KeysOnce' = KeysOnce
         /\ OverridesDisjoint' = OverridesDisjoint
  BY SameScenario DEF OverrideRows, WriteRequests, WriteRows, ReportRows, Current, KeysOnce, OverridesDisjoint

(* The steps that touch no override and no write.                           *)
LEMMA BookStays ==
  ASSUME Book, UNCHANGED <<scenario, overrides, writes, rejected>>,
         setLock' \in Keys \cup {"free", "publish"}, \A k \in Keys : setLock' = k <=> setLock = k
  PROVE  Book'
<1>1. Keys' = Keys
  BY SameScenario
<1>2. WritesFit'
  BY <1>1, SameBook DEF Book, WritesFit, WrittenUnder, StillAccepted
<1>3. ReplaysAnswered'
  BY DEF Book, ReplaysAnswered
<1> QED BY <1>1, <1>2, <1>3, SameBook DEF Book

(* The steps that touch neither overrides nor the report.                   *)
LEMMA ReportsStay ==
  ASSUME Reports, UNCHANGED <<scenario, overrides, report, published>>,
         setLock' = "publish" <=> setLock = "publish"
  PROVE  Reports'
  BY SameBook DEF Reports, CheckedFits

(* The rows of conversions keep their type.                                 *)
LEMMA SameReaders ==
  ASSUME UNCHANGED scenario
  PROVE  ReaderRows' = ReaderRows
  BY SameScenario DEF ReaderRows

(* What a conversion knows stays true as the market goes on.                *)
LEMMA ReadsStay ==
  ASSUME Reads, QuoteInv, MarketGoesOn, UNCHANGED <<scenario, reader, answers>>
  PROVE  Reads'
<1>1. Days' = Days /\ Currencies' = Currencies
  BY SameScenario
<1>2. ReaderTrue'
  <2>1. SUFFICES ASSUME reader # <<>>, NEW d \in Days
        PROVE  /\ Traded(reader[1].quotes, d)' => Traded(official, d)'
               /\ reader[1].days # <<>> =>
                    /\ reader[1].days[d] = "OPEN" => Traded(official, d)'
                    /\ reader[1].days[d] = "NON_TRADING" => Closed(d)'
    BY <1>1 DEF ReaderTrue
  <2>2. Traded(reader[1].quotes, d)' <=> Traded(reader[1].quotes, d)
    BY <1>1 DEF Traded
  <2> QED BY <2>1, <2>2 DEF Reads, ReaderTrue, MarketGoesOn
<1>3. AnswersOnTradingDays'
  BY DEF Reads, AnswersOnTradingDays, MarketGoesOn
<1> QED BY <1>2, <1>3, SameReaders DEF Reads

-----------------------------------------------------------------------------
(* Steps of the overrides.                                                  *)

(* A request is refused rightly when the key has been used for another one  *)
(* or not at all.                                                           *)
LEMMA RejectedRightly ==
  ASSUME Book, NEW k \in Keys, NEW w, Reject(k, w),
         \A o \in WrittenUnder(k, w) : ~SameRequest(o, w)
  PROVE  ReplaysAnswered' /\ rejected' \subseteq [key : Keys, again : BOOLEAN]
<1> PICK x : x = [key |-> k, again |-> \E o \in WrittenUnder(k, w) : SameRequest(o, w)]
  OBVIOUS
<1>1. rejected' = rejected \cup {x}
  BY DEF Reject
<1>2. (\E o \in WrittenUnder(k, w) : SameRequest(o, w)) = FALSE
  OBVIOUS
<1>3. x = [key |-> k, again |-> FALSE]
  BY <1>2, Zenon
<1>4. x \in [key : Keys, again : BOOLEAN] /\ ~x.again
  BY ONLY <1>3, k \in Keys
<1> QED BY <1>1, <1>4 DEF Book, ReplaysAnswered

(* A write that begins, or is refused at once.                              *)
LEMMA BeginStep ==
  ASSUME Book, UNCHANGED scenario, NEW k \in Keys, NEW w \in WriteRequests, BeginWrite(k, w)
  PROVE  Book'
<1>1. writes[k] = <<>> /\ UNCHANGED <<overrides, setLock>>
  BY DEF BeginWrite
<1>2. Keys' = Keys
  BY SameScenario
<1>3. CASE Reject(k, w) /\ UNCHANGED writes /\ (Done(k, w) # {} => \E o \in Done(k, w) : ~SameRequest(o, w))
  <2>1. \A o \in WrittenUnder(k, w) : ~SameRequest(o, w)
    <3>1. SUFFICES ASSUME NEW o \in WrittenUnder(k, w), SameRequest(o, w) PROVE FALSE
      OBVIOUS
    <3>2. PICK p \in WrittenUnder(k, w) : ~SameRequest(p, w)
      BY <1>3, <3>1 DEF Done
    <3>3. o = p
      BY DEF WrittenUnder, Book, KeysOnce
    <3> QED BY <3>1, <3>2, <3>3
  <2>2. ReplaysAnswered' /\ rejected' \subseteq [key : Keys, again : BOOLEAN]
    BY <1>3, <2>1, RejectedRightly
  <2>3. WritesFit'
    BY <1>1, <1>2, <1>3, SameBook DEF Book, WritesFit, WrittenUnder, StillAccepted
  <2> QED BY <1>1, <1>2, <1>3, <2>2, <2>3, SameBook DEF Book
<1>4. CASE /\ Done(k, w) = {}
           /\ writes' = [writes EXCEPT ![k] = <<[request |-> w, inserted |-> FALSE]>>] /\ UNCHANGED rejected
  <2> PICK x : x = [request |-> w, inserted |-> FALSE]
    OBVIOUS
  <2>1. x \in WriteRows /\ x.request = w /\ ~x.inserted
    BY DEF WriteRows
  <2>2. <<x>> \in AtMostOne(WriteRows) /\ <<x>>[1] = x
    BY ONLY <2>1, JustOne
  <2>3. writes \in [Keys -> AtMostOne(WriteRows)]
    BY DEF Book
  <2>4. /\ writes' \in [Keys -> AtMostOne(WriteRows)] /\ writes'[k][1] = x
        /\ \A j \in Keys : j # k => writes'[j] = writes[j]
    BY <1>4, <2>2, <2>3
  <2>5. \A j \in Keys : setLock = j <=> (writes'[j] # <<>> /\ writes'[j][1].inserted)
    BY <1>1, <2>1, <2>4 DEF Book
  <2>6. ASSUME NEW j \in Keys, writes'[j] # <<>>
        PROVE  /\ WrittenUnder(j, writes'[j][1].request) = {}
               /\ writes'[j][1].inserted => StillAccepted(writes'[j][1].request)
    <3>1. CASE j = k
      BY <1>4, <2>1, <2>4, <3>1 DEF Done
    <3>2. CASE j # k
      BY <2>4, <2>6, <3>2 DEF Book, WritesFit
    <3> QED BY <3>1, <3>2
  <2>7. WritesFit'
    BY <1>1, <1>2, <2>6, SameBook DEF WritesFit, WrittenUnder, StillAccepted
  <2>8. ReplaysAnswered'
    BY <1>4 DEF Book, ReplaysAnswered
  <2> QED BY <1>1, <1>2, <1>4, <2>4, <2>5, <2>7, <2>8, SameBook DEF Book
<1> QED BY <1>3, <1>4 DEF BeginWrite

(* The lock is never held under the names "free" and "publish" by a write.  *)
LEMMA KeysAreNotLocks ==
  ASSUME scenario \in Scenarios
  PROVE  "free" \notin Keys /\ "publish" \notin Keys
  BY FxAssumption DEF Keys

(* The insert and its trigger.                                              *)
LEMMA InsertStep ==
  ASSUME scenario \in Scenarios, Book, UNCHANGED scenario, NEW k \in Keys, InsertOverride(k)
  PROVE  Book' /\ (setLock' = "publish" <=> setLock = "publish")
<1> PICK w : w = writes[k][1].request
  OBVIOUS
<1>1. /\ writes[k] # <<>> /\ ~writes[k][1].inserted /\ w \in WriteRequests /\ setLock = "free"
      /\ UNCHANGED overrides
  BY BookRows DEF InsertOverride, TakeSetLock
<1>2. Keys' = Keys /\ "free" \notin Keys /\ "publish" \notin Keys
  BY SameScenario, KeysAreNotLocks
<1>3. writes \in [Keys -> AtMostOne(WriteRows)] /\ WrittenUnder(k, w) = {}
  BY <1>1 DEF Book, WritesFit
<1>4. \A j \in Keys : writes[j] # <<>> => ~writes[j][1].inserted
  BY <1>1, <1>2 DEF Book
<1>5. CASE TriggerAccepts(w)
  <2> PICK x : x = [request |-> w, inserted |-> TRUE]
    OBVIOUS
  <2>1. setLock' = k /\ writes' = [writes EXCEPT ![k] = <<x>>] /\ UNCHANGED rejected
    BY <1>5 DEF InsertOverride, TakeSetLock
  <2>2. x \in WriteRows /\ x.request = w /\ x.inserted
    BY <1>1 DEF WriteRows
  <2>3. <<x>> \in AtMostOne(WriteRows) /\ <<x>>[1] = x /\ <<x>> # <<>>
    BY ONLY <2>2, JustOne
  <2>4. /\ writes' \in [Keys -> AtMostOne(WriteRows)] /\ writes'[k][1] = x /\ writes'[k] # <<>>
        /\ \A j \in Keys : j # k => writes'[j] = writes[j]
    BY <1>3, <2>1, <2>3
  <2>5. \A j \in Keys : setLock' = j <=> (writes'[j] # <<>> /\ writes'[j][1].inserted)
    BY <1>4, <2>1, <2>2, <2>4
  <2>6. StillAccepted(w)
    BY <1>5 DEF TriggerAccepts, StillAccepted
  <2>7. ASSUME NEW j \in Keys, writes'[j] # <<>>
        PROVE  /\ WrittenUnder(j, writes'[j][1].request) = {}
               /\ writes'[j][1].inserted => StillAccepted(writes'[j][1].request)
    <3>1. CASE j = k
      BY <1>3, <2>2, <2>4, <2>6, <3>1
    <3>2. CASE j # k
      BY <2>4, <2>7, <3>2 DEF Book, WritesFit
    <3> QED BY <3>1, <3>2
  <2>8. WritesFit'
    BY <1>1, <1>2, <2>7, SameBook DEF WritesFit, WrittenUnder, StillAccepted
  <2>9. ReplaysAnswered'
    BY <2>1 DEF Book, ReplaysAnswered
  <2>10. Book'
    BY <1>1, <1>2, <2>1, <2>4, <2>5, <2>8, <2>9, SameBook DEF Book
  <2> QED BY <1>1, <1>2, <2>1, <2>10
<1>6. CASE ~TriggerAccepts(w)
  <2>1. setLock' = setLock /\ writes' = [writes EXCEPT ![k] = <<>>] /\ Reject(k, w)
    BY <1>6 DEF InsertOverride
  <2>2. ReplaysAnswered' /\ rejected' \subseteq [key : Keys, again : BOOLEAN]
    BY <1>3, <2>1, RejectedRightly
  <2>3. <<>> \in AtMostOne(WriteRows)
    BY EmptySeq DEF AtMostOne
  <2>4. /\ writes' \in [Keys -> AtMostOne(WriteRows)] /\ writes'[k] = <<>>
        /\ \A j \in Keys : j # k => writes'[j] = writes[j]
    BY <1>3, <2>1, <2>3
  <2>5. \A j \in Keys : setLock' = j <=> (writes'[j] # <<>> /\ writes'[j][1].inserted)
    BY <1>1, <1>2, <1>4, <2>1, <2>4
  <2>6. ASSUME NEW j \in Keys, writes'[j] # <<>>
        PROVE  /\ WrittenUnder(j, writes'[j][1].request) = {}
               /\ writes'[j][1].inserted => StillAccepted(writes'[j][1].request)
    BY <2>4, <2>6 DEF Book, WritesFit
  <2>7. WritesFit'
    BY <1>1, <1>2, <2>6, SameBook DEF WritesFit, WrittenUnder, StillAccepted
  <2>8. Book'
    BY <1>1, <1>2, <2>1, <2>2, <2>4, <2>5, <2>7, SameBook DEF Book
  <2> QED BY <2>1, <2>8
<1> QED BY <1>5, <1>6

(* A larger set of rows has room for what was there.                        *)
LEMMA RowsGrow ==
  ASSUME NEW S, NEW T, S \subseteq T, NEW x \in AtMostOne(S)
  PROVE  x \in AtMostOne(T)
<1>1. x = <<>> \/ (x[1] \in T /\ x = <<x[1]>>)
  BY NoneOrOne
<1>2. CASE x = <<>>
  BY <1>2, EmptySeq DEF AtMostOne
<1>3. CASE x[1] \in T /\ x = <<x[1]>>
  BY <1>3, JustOne
<1> QED BY <1>1, <1>2, <1>3

(* An override that is committed takes the place of its predecessor.        *)
LEMMA OverrideAdded ==
  ASSUME scenario \in Scenarios, Book, UNCHANGED scenario, NEW k \in Keys, CommitWrite(k),
         NEW w, w = writes[k][1].request, NEW n, n = Len(overrides) + 1,
         NEW row, row = [currency |-> w.currency, range |-> w.range, rate |-> w.rate,
                         supersedes |-> w.supersedes, key |-> k]
  PROVE  /\ w \in WriteRequests /\ writes[k][1].inserted
         /\ row \in OverrideRows /\ row.supersedes = w.supersedes /\ row.key = k /\ row.currency = w.currency
         /\ row.range = w.range /\ w.supersedes \in Nat /\ w.supersedes < n
         /\ overrides' \in Seq(OverrideRows) /\ Len(overrides') = n /\ overrides'[n] = row
         /\ \A o \in 1..Len(overrides) : overrides'[o] = overrides[o] /\ o # n
         /\ \A o \in 1..n : o \in 1..Len(overrides) \/ o = n
         /\ n \in 1..n /\ 1..Len(overrides) \subseteq 1..n
         /\ Current' = (Current \ {w.supersedes}) \cup {n}
<1>1. writes[k] # <<>> /\ writes[k][1].inserted /\ w \in WriteRequests /\ Len(overrides) \in Nat
  BY BookRows DEF CommitWrite
<1>2. /\ w.currency \in Currencies /\ w.range \in Ranges /\ w.rate \in ManualRates
      /\ w.supersedes \in 0..Len(overrides)
  BY <1>1 DEF WriteRequests
<1>3. /\ row \in OverrideRows /\ row.supersedes = w.supersedes /\ row.key = k /\ row.currency = w.currency
      /\ row.range = w.range
  <2>1. w.supersedes \in Nat
    BY <1>1, <1>2
  <2> QED BY <1>2, <2>1 DEF OverrideRows
<1>4. w.supersedes \in Nat /\ w.supersedes < n /\ n \in 1..n /\ 1..Len(overrides) \subseteq 1..n /\ n \in Nat
  BY <1>1, <1>2
<1>5. overrides' = Append(overrides, row) /\ overrides \in Seq(OverrideRows)
  BY DEF CommitWrite, Book
<1>6. /\ overrides' \in Seq(OverrideRows) /\ Len(overrides') = n /\ overrides'[n] = row
      /\ \A o \in 1..Len(overrides) : overrides'[o] = overrides[o]
  BY ONLY <1>3, <1>5, AppendProperties, n = Len(overrides) + 1
<1>7. /\ \A o \in 1..n : o \in 1..Len(overrides) \/ o = n
      /\ \A o \in 1..Len(overrides) : o # n
  BY ONLY <1>1, n = Len(overrides) + 1
<1>8. ASSUME NEW o \in 1..n PROVE o \in Current' <=> o \in (Current \ {w.supersedes}) \cup {n}
  <2>1. o \in Current' <=> \A p \in 1..n : overrides'[p].supersedes # o
    BY <1>6 DEF Current
  <2>2. (\A p \in 1..n : overrides'[p].supersedes # o)
          <=> (\A p \in 1..Len(overrides) : overrides[p].supersedes # o) /\ w.supersedes # o
    BY <1>3, <1>4, <1>6, <1>7
  <2>3. CASE o = n
    <3>1. \A p \in 1..Len(overrides) : overrides[p].supersedes # n
      <4>1. ASSUME NEW p \in 1..Len(overrides) PROVE overrides[p].supersedes # n
        <5> PICK s : s = overrides[p].supersedes
          OBVIOUS
        <5>1. s \in Nat /\ s < p
          BY BookRows
        <5> QED BY <1>1, <5>1
      <4> QED BY <4>1
    <3> QED BY <1>4, <2>1, <2>2, <2>3, <3>1
  <2>4. CASE o # n
    BY <1>7, <2>1, <2>2, <2>4 DEF Current
  <2> QED BY <2>3, <2>4
<1>9. Current' \subseteq 1..n /\ Current \subseteq 1..Len(overrides)
  BY <1>6 DEF Current
<1>10. Current' = (Current \ {w.supersedes}) \cup {n}
  BY <1>4, <1>8, <1>9
<1> QED BY <1>1, <1>3, <1>4, <1>6, <1>7, <1>10

(* The commit of an override.                                               *)
LEMMA CommitStep ==
  ASSUME scenario \in Scenarios, Book, Reports, UNCHANGED scenario, NEW k \in Keys, CommitWrite(k)
  PROVE  Book' /\ Reports'
<1> PICK w, n : w = writes[k][1].request /\ n = Len(overrides) + 1
  OBVIOUS
<1> PICK row : row = [currency |-> w.currency, range |-> w.range, rate |-> w.rate,
                      supersedes |-> w.supersedes, key |-> k]
  OBVIOUS
<1>1. /\ w \in WriteRequests /\ writes[k][1].inserted
      /\ row \in OverrideRows /\ row.supersedes = w.supersedes /\ row.key = k /\ row.currency = w.currency
      /\ row.range = w.range /\ w.supersedes \in Nat /\ w.supersedes < n
      /\ overrides' \in Seq(OverrideRows) /\ Len(overrides') = n /\ overrides'[n] = row
      /\ \A o \in 1..Len(overrides) : overrides'[o] = overrides[o] /\ o # n
      /\ \A o \in 1..n : o \in 1..Len(overrides) \/ o = n
      /\ n \in 1..n /\ 1..Len(overrides) \subseteq 1..n
      /\ Current' = (Current \ {w.supersedes}) \cup {n}
  BY OverrideAdded
<1>2. /\ writes[k] # <<>> /\ writes' = [writes EXCEPT ![k] = <<>>]
      /\ setLock' = IF setLock = k THEN "free" ELSE setLock
      /\ UNCHANGED <<rejected, report, published>>
  BY DEF CommitWrite
<1>3. setLock = k /\ setLock' = "free"
  BY <1>1, <1>2 DEF Book
<1>4. Keys' = Keys /\ "free" \notin Keys /\ "publish" \notin Keys /\ OverrideRows' = OverrideRows
      /\ Currencies' = Currencies /\ Ranges' = Ranges
  BY SameScenario, KeysAreNotLocks DEF OverrideRows
<1>5. Current \subseteq 1..Len(overrides)
  BY DEF Current
<1>6. \A o \in 1..n : overrides'[o].supersedes < o
  BY <1>1, BookRows
<1>7. /\ writes' \in [Keys -> AtMostOne(WriteRows)] /\ writes'[k] = <<>>
      /\ \A j \in Keys : j # k => writes'[j] = writes[j]
  <2>1. <<>> \in AtMostOne(WriteRows)
    BY EmptySeq DEF AtMostOne
  <2> QED BY <1>2, <2>1 DEF Book
<1>8. writes' \in [Keys -> AtMostOne(WriteRows')]
  <2>1. WriteRequests \subseteq WriteRequests'
    <3>1. 0..Len(overrides) \subseteq 0..n
      BY BookRows
    <3> QED BY <1>1, <1>4, <3>1 DEF WriteRequests
  <2>2. WriteRows \subseteq WriteRows'
    BY <2>1 DEF WriteRows
  <2>3. \A j \in Keys : writes'[j] \in AtMostOne(WriteRows')
    BY <1>7, <2>2, RowsGrow
  <2> QED BY <1>7, <2>3
<1>9. \A j \in Keys : setLock' = j <=> (writes'[j] # <<>> /\ writes'[j][1].inserted)
  BY <1>3, <1>4, <1>7 DEF Book
<1>10. \A j \in Keys : writes'[j] # <<>> => j # k /\ ~writes'[j][1].inserted
  <2>1. SUFFICES ASSUME NEW j \in Keys, writes'[j] # <<>>
        PROVE  j # k /\ ~writes'[j][1].inserted
    OBVIOUS
  <2>2. j # k
    BY ONLY <1>7, <2>1
  <2>3. setLock' # j
    BY ONLY <1>3, <1>4, j \in Keys
  <2>4. ~writes'[j][1].inserted
    BY ONLY <1>9, <2>1, <2>3
  <2> QED BY <2>2, <2>4
<1>11. StillAccepted(w) /\ WrittenUnder(k, w) = {}
  BY <1>1, <1>2 DEF Book, WritesFit
<1>12. OverridesDisjoint'
  <2>1. SUFFICES ASSUME NEW o \in Current', NEW p \in Current', o # p,
                        overrides'[o].currency = overrides'[p].currency
        PROVE  ~Overlap(overrides'[o].range, overrides'[p].range)
    BY DEF OverridesDisjoint, Overlap
  <2>2. CASE o # n /\ p # n
    BY <1>1, <1>5, <2>1, <2>2 DEF Book, OverridesDisjoint
  <2>3. CASE o = n /\ p # n
    <3>1. ~Overlap(overrides[p].range, w.range)
      BY <1>1, <1>5, <1>11, <2>1, <2>3 DEF StillAccepted
    <3> QED BY <1>1, <1>5, <2>3, <3>1 DEF Overlap
  <2>4. CASE o # n /\ p = n
    <3>1. ~Overlap(overrides[o].range, w.range)
      BY <1>1, <1>5, <1>11, <2>1, <2>4 DEF StillAccepted
    <3> QED BY <1>1, <1>5, <2>4, <3>1
  <2> QED BY <2>1, <2>2, <2>3, <2>4
<1>13. KeysOnce'
  <2>1. SUFFICES ASSUME NEW o \in 1..n, NEW p \in 1..n, overrides'[o].key = overrides'[p].key,
                        overrides'[o].supersedes = overrides'[p].supersedes
        PROVE  o = p
    BY <1>1 DEF KeysOnce
  <2>2. \A q \in 1..Len(overrides) : ~(overrides[q].key = k /\ overrides[q].supersedes = w.supersedes)
    BY <1>11 DEF WrittenUnder
  <2>3. CASE o # n /\ p # n
    <3>1. o \in 1..Len(overrides) /\ p \in 1..Len(overrides)
      BY ONLY <1>1, <2>1, <2>3
    <3> QED BY <1>1, <2>1, <3>1 DEF Book, KeysOnce
  <2>4. CASE o = n /\ p # n
    BY ONLY <1>1, <2>1, <2>2, <2>4
  <2>5. CASE o # n /\ p = n
    BY ONLY <1>1, <2>1, <2>2, <2>5
  <2> QED BY <2>3, <2>4, <2>5
<1>14. WritesFit'
  <2>1. ASSUME NEW j \in Keys, writes'[j] # <<>>
        PROVE  /\ \A o \in 1..Len(overrides') :
                    ~(overrides'[o].key = j /\ overrides'[o].supersedes = writes'[j][1].request.supersedes)
               /\ ~writes'[j][1].inserted
    <3>1. j # k /\ writes'[j] = writes[j] /\ ~writes'[j][1].inserted
      BY <1>7, <1>10, <2>1
    <3>2. WrittenUnder(j, writes[j][1].request) = {}
      BY <2>1, <3>1 DEF Book, WritesFit
    <3>3. \A o \in 1..Len(overrides) :
            ~(overrides[o].key = j /\ overrides[o].supersedes = writes[j][1].request.supersedes)
      BY <3>2 DEF WrittenUnder
    <3>4. ASSUME NEW o \in 1..n
          PROVE  ~(overrides'[o].key = j /\ overrides'[o].supersedes = writes'[j][1].request.supersedes)
      BY ONLY <1>1, <3>1, <3>3, o \in 1..n
    <3> QED BY ONLY <1>1, <3>1, <3>4
  <2> QED BY <1>4, <2>1 DEF WritesFit, WrittenUnder
<1>15. ReplaysAnswered' /\ rejected' \subseteq [key : Keys, again : BOOLEAN]
  BY <1>2 DEF Book, ReplaysAnswered
<1>16. Book'
  BY <1>1, <1>3, <1>4, <1>6, <1>8, <1>9, <1>12, <1>13, <1>14, <1>15 DEF Book
<1>17. ~(report # <<>> /\ report[1].status = "CHECKED")
  BY <1>3, <1>4 DEF Reports
<1>18. report' \in AtMostOne(ReportRows') /\ published' \subseteq 1..n
  <2>1. ReportRows \subseteq ReportRows'
    BY <1>1 DEF ReportRows
  <2> QED BY <1>1, <1>2, <2>1, RowsGrow DEF Reports
<1>19. Reports'
  BY <1>1, <1>2, <1>3, <1>17, <1>18 DEF Reports, CheckedFits
<1> QED BY <1>16, <1>19

-----------------------------------------------------------------------------
(* Steps of conversions and reports.                                        *)

(* The day that a rate is found on, and the days before it.                 *)
LEMMA HitIsFirstOpen ==
  ASSUME NEW book, NEW q, q[1] \in Nat, q[2] # q[3], scenario \in Scenarios,
         convertCurrency(book, q).status = "OK",
         NEW hit, hit = convertCurrency(book, q).hit
  PROVE  /\ hit \in Days /\ ~Unproven(book, hit) /\ StatusOf(book, hit) # "NON_TRADING"
         /\ \A d \in q[1]..(hit - 1) : StatusOf(book, d) = "NON_TRADING"
<1> PICK open : open = {d \in q[1]..(q[1] + MaxFallback) : StatusOf(book, d) # "NON_TRADING"}
  OBVIOUS
<1> PICK h : h = Min(open)
  OBVIOUS
<1>1. /\ convertCurrency(book, q) =
           (IF open = {} THEN Answer("NO_AVAILABLE_QUOTE", 0, {})
            ELSE IF h \notin Days \/ Unproven(book, h) THEN Answer("NO_AVAILABLE_QUOTE", h, {})
            ELSE IF locateCurrency(book, q[2], h) = <<>> \/ locateCurrency(book, q[3], h) = <<>>
              THEN Answer("DATA_GAP", h, {})
              ELSE Answer("OK", h, {<<q[2], locateCurrency(book, q[2], h)[1].source>>,
                                    <<q[3], locateCurrency(book, q[3], h)[1].source>>}))
  BY DEF convertCurrency
<1>2. open # {} /\ h \in Days /\ ~Unproven(book, h) /\ hit = h
  BY <1>1 DEF Answer
<1>3. MaxFallback \in Nat /\ open \in SUBSET Nat
  BY FxAssumption
<1>4. h \in open /\ \A d \in open : h <= d
  BY <1>2, <1>3, NatMin
<1>5. ASSUME NEW d \in q[1]..(h - 1) PROVE StatusOf(book, d) = "NON_TRADING"
  <2>1. h \in q[1]..(q[1] + MaxFallback)
    BY <1>4
  <2>2. d \in q[1]..(q[1] + MaxFallback) /\ ~(h <= d)
    BY ONLY <1>3, <2>1, d \in q[1]..(h - 1), q[1] \in Nat
  <2> QED BY <1>4, <2>2
<1> QED BY <1>2, <1>4, <1>5

(* The queries of a conversion.                                             *)
LEMMA ReadStep ==
  ASSUME QuoteInv, Reads, UNCHANGED <<scenario, quoteVars>>,
         (\E q \in Requests : ReadQuotes(q)) \/ ReadDays \/ ReadOverrides
  PROVE  Reads'
<1>1. /\ Days' = Days /\ Currencies' = Currencies /\ ReaderRows' = ReaderRows
      /\ UNCHANGED <<official, today, overnight>> /\ scenario \in Scenarios
  BY SameScenario, SameReaders DEF quoteVars, QuoteInv
<1>2. \A d \in Days : (Traded(official, d)' <=> Traded(official, d)) /\ (Closed(d)' <=> Closed(d))
  BY <1>1 DEF Traded, Closed
<1>3. /\ CurrentQuotes \in [Days -> DayRates]
      /\ CurrentDays \in [Days -> {"OPEN", "NON_TRADING", "UNKNOWN"}]
      /\ \A d \in Days :
           /\ Traded(CurrentQuotes, d) => Traded(official, d)
           /\ CurrentDays[d] = "OPEN" => Traded(official, d)
           /\ CurrentDays[d] = "NON_TRADING" => Closed(d)
  BY ViewsTrue
<1>4. ASSUME NEW x \in ReaderRows, reader' = <<x>>,
             \A d \in Days : Traded(x.quotes, d) => Traded(official, d),
             x.days # <<>> =>
               \A d \in Days : /\ x.days[d] = "OPEN" => Traded(official, d)
                               /\ x.days[d] = "NON_TRADING" => Closed(d)
      PROVE  reader' \in AtMostOne(ReaderRows') /\ ReaderTrue'
  <2>1. <<x>> \in AtMostOne(ReaderRows) /\ reader'[1] = x
    BY <1>4, JustOne
  <2>2. \A d \in Days : Traded(reader[1].quotes, d)' <=> Traded(x.quotes, d)
    BY <1>1, <2>1 DEF Traded
  <2> QED BY <1>1, <1>2, <1>4, <2>1, <2>2 DEF ReaderTrue
<1>5. ASSUME NEW q \in Requests, ReadQuotes(q) PROVE Reads'
  <2> PICK x : x = [request |-> q, quotes |-> CurrentQuotes, days |-> <<>>]
    OBVIOUS
  <2>1. reader' = <<x>> /\ UNCHANGED answers
    BY <1>5 DEF ReadQuotes
  <2>2. x \in ReaderRows /\ x.quotes = CurrentQuotes /\ x.days = <<>>
    BY <1>3 DEF ReaderRows
  <2>3. \A d \in Days : Traded(x.quotes, d) => Traded(official, d)
    BY <1>3, <2>2
  <2>4. reader' \in AtMostOne(ReaderRows') /\ ReaderTrue'
    BY <1>4, <2>1, <2>2, <2>3
  <2> QED BY <1>1, <2>1, <2>4 DEF Reads, AnswersOnTradingDays
<1>6. CASE ReadDays
  <2> PICK x : x = [reader[1] EXCEPT !.days = CurrentDays]
    OBVIOUS
  <2>1. reader' = <<x>> /\ reader # <<>> /\ UNCHANGED answers
    BY <1>6 DEF ReadDays
  <2>2. reader[1] \in ReaderRows
    BY <2>1, NoneOrOne DEF Reads
  <2>3. x \in ReaderRows /\ x.quotes = reader[1].quotes /\ x.days = CurrentDays
    BY <1>3, <2>2 DEF ReaderRows
  <2>4. \A d \in Days : Traded(x.quotes, d) => Traded(official, d)
    BY <2>1, <2>3 DEF Reads, ReaderTrue
  <2>5. reader' \in AtMostOne(ReaderRows') /\ ReaderTrue'
    BY <1>3, <1>4, <2>1, <2>3, <2>4
  <2> QED BY <1>1, <2>1, <2>5 DEF Reads, AnswersOnTradingDays
<1>7. CASE ReadOverrides
  <2> PICK q, book : /\ q = reader[1].request
                     /\ book = [quotes |-> reader[1].quotes, days |-> reader[1].days, overrides |-> Current]
    OBVIOUS
  <2> PICK a : a = convertCurrency(book, q)
    OBVIOUS
  <2> PICK x : x = [request |-> q, answer |-> a, traded |-> {d \in Days : Traded(official, d)}]
    OBVIOUS
  <2>1. reader # <<>> /\ reader[1].days # <<>> /\ reader' = <<>> /\ answers' = answers \cup {x}
    BY <1>7 DEF ReadOverrides
  <2>2. reader[1] \in ReaderRows
    BY <2>1, NoneOrOne DEF Reads
  <2>3. q \in Requests /\ q[1] \in Nat
    BY <1>1, <2>2, FxAssumption DEF ReaderRows, Requests
  <2>4. x.request = q /\ x.answer = a /\ x.traded = {d \in Days : Traded(official, d)}
    OBVIOUS
  <2>5. \A d \in Days : /\ Traded(book.quotes, d) => Traded(official, d)
                        /\ book.days[d] = "OPEN" => Traded(official, d)
                        /\ book.days[d] = "NON_TRADING" => Closed(d)
    BY <2>1 DEF Reads, ReaderTrue
  <2>6. \A d \in Days : book.days[d] \in {"OPEN", "NON_TRADING", "UNKNOWN"}
    BY <2>1, <2>2 DEF ReaderRows
  <2>7. ASSUME a.status = "OK", q[2] # q[3]
        PROVE  a.hit \in x.traded /\ (q[1]..(a.hit - 1)) \cap x.traded \subseteq overnight
    <3> PICK hit : hit = a.hit
      OBVIOUS
    <3>1. /\ hit \in Days /\ ~Unproven(book, hit) /\ StatusOf(book, hit) # "NON_TRADING"
          /\ \A d \in q[1]..(hit - 1) : StatusOf(book, d) = "NON_TRADING"
      BY ONLY <1>1, <2>3, <2>7, HitIsFirstOpen, a = convertCurrency(book, q), hit = a.hit
    <3>2. Traded(official, hit)
      BY <2>5, <2>6, <3>1 DEF StatusOf, Unproven
    <3>3. \A d \in q[1]..(hit - 1) : d \in Days /\ Traded(official, d) => d \in overnight
      BY <2>5, <3>1 DEF StatusOf, Closed
    <3> QED BY <2>4, <3>1, <3>2, <3>3
  <2>8. AnswersOnTradingDays'
    <3>1. ASSUME NEW y \in answers'
          PROVE  y.answer.status = "OK" /\ y.request[2] # y.request[3] =>
                   /\ y.answer.hit \in y.traded
                   /\ (y.request[1]..(y.answer.hit - 1)) \cap y.traded \subseteq overnight'
      BY <1>1, <2>1, <2>4, <2>7 DEF Reads, AnswersOnTradingDays
    <3> QED BY <3>1 DEF AnswersOnTradingDays
  <2>9. <<>> \in AtMostOne(ReaderRows)
    BY EmptySeq DEF AtMostOne
  <2> QED BY <1>1, <2>1, <2>8, <2>9 DEF Reads, ReaderTrue
<1> QED BY <1>5, <1>6, <1>7

(* The steps of a report.                                                   *)
LEMMA ReportStep ==
  ASSUME Reports, UNCHANGED <<scenario, overrides>>, setLock \in Keys \cup {"free", "publish"},
         scenario \in Scenarios,
         RequestReport \/ CalculateReport \/ CheckOverrides \/ SwitchPointer
  PROVE  /\ Reports' /\ setLock' \in Keys \cup {"free", "publish"}
         /\ \A k \in Keys : setLock' = k <=> setLock = k
<1>1. ReportRows' = ReportRows /\ Current' = Current /\ "free" \notin Keys /\ "publish" \notin Keys
  BY SameBook, KeysAreNotLocks
<1>2. report # <<>> => report[1] \in ReportRows
  BY NoneOrOne DEF Reports
<1>3. Current \in SUBSET (1..Len(overrides)) /\ <<>> \in AtMostOne(ReportRows)
  BY EmptySeq DEF Current, AtMostOne
<1>4. CASE RequestReport
  <2> PICK x : x = [frozen |-> Current, status |-> "QUEUED"]
    OBVIOUS
  <2>1. report' = <<x>> /\ report = <<>> /\ UNCHANGED <<setLock, published>>
    BY <1>4 DEF RequestReport
  <2>2. x \in ReportRows /\ x.status = "QUEUED"
    BY <1>3 DEF ReportRows
  <2>3. <<x>> \in AtMostOne(ReportRows) /\ report'[1] = x
    BY ONLY <2>1, <2>2, JustOne
  <2> QED BY <1>1, <2>1, <2>2, <2>3 DEF Reports, CheckedFits
<1>5. CASE CalculateReport
  <2> PICK x : x = [report[1] EXCEPT !.status = "READY"]
    OBVIOUS
  <2>1. report' = <<x>> /\ report # <<>> /\ report[1].status = "QUEUED" /\ UNCHANGED <<setLock, published>>
    BY <1>5 DEF CalculateReport
  <2>2. x \in ReportRows /\ x.status = "READY"
    BY <1>2, <2>1 DEF ReportRows
  <2>3. <<x>> \in AtMostOne(ReportRows) /\ report'[1] = x
    BY ONLY <2>1, <2>2, JustOne
  <2> QED BY <1>1, <2>1, <2>2, <2>3 DEF Reports, CheckedFits
<1>6. CASE CheckOverrides
  <2>1. report # <<>> /\ report[1].status = "READY" /\ setLock = "free" /\ UNCHANGED published
    BY <1>6 DEF CheckOverrides, TakePublishLock
  <2>2. CASE report[1].frozen = Current
    <3> PICK x : x = [report[1] EXCEPT !.status = "CHECKED"]
      OBVIOUS
    <3>1. report' = <<x>> /\ setLock' = "publish"
      BY <1>6, <2>2 DEF CheckOverrides, TakePublishLock
    <3>2. x \in ReportRows /\ x.status = "CHECKED" /\ x.frozen = Current
      BY <1>2, <2>1, <2>2 DEF ReportRows
    <3>3. <<x>> \in AtMostOne(ReportRows) /\ report'[1] = x /\ <<x>> # <<>>
      BY ONLY <3>1, <3>2, JustOne
    <3> QED BY <1>1, <2>1, <3>1, <3>2, <3>3 DEF Reports, CheckedFits
  <2>3. CASE report[1].frozen # Current
    <3>1. report' = <<>> /\ setLock' = setLock
      BY <1>6, <2>3 DEF CheckOverrides
    <3> QED BY <1>1, <1>3, <2>1, <3>1 DEF Reports, CheckedFits
  <2> QED BY <2>2, <2>3
<1>7. CASE SwitchPointer
  <2>1. /\ report # <<>> /\ report[1].status = "CHECKED" /\ published' = report[1].frozen /\ report' = <<>>
        /\ setLock' = IF setLock = "publish" THEN "free" ELSE setLock
    BY <1>7 DEF SwitchPointer
  <2>2. setLock = "publish" /\ setLock' = "free"
    BY <2>1 DEF Reports
  <2>3. report[1].frozen \in SUBSET (1..Len(overrides))
    BY <1>2, <2>1 DEF ReportRows
  <2> QED BY <1>1, <1>3, <2>1, <2>2, <2>3 DEF Reports, CheckedFits
<1> QED BY <1>4, <1>5, <1>6, <1>7

-----------------------------------------------------------------------------
(* The invariant holds throughout.                                          *)

(* It holds at the start,                                                   *)
LEMMA FxInit == Init => FxInv
<1> SUFFICES ASSUME Init PROVE FxInv
  OBVIOUS
<1> USE DEF Init, QuoteInit
<1>1. /\ scenario \in Scenarios /\ LastDay \in Nat \ {0} /\ 0 \in Rate /\ MaxBoots \in Nat /\ MaxFaults \in Nat
      /\ "free" \notin Keys /\ "publish" \notin Keys
  BY ScenarioFacts, KeysAreNotLocks
<1>2. official \in [Days -> DayRates] /\ today \in Days /\ \A d \in Days : ~Traded(official, d)
  BY <1>1 DEF DayRates, Days, Traded
<1>3. job \in AtMostOne(JobRows) /\ job[1].run = 0
  BY <1>1, NewJobTyped
<1>4. <<>> \in Seq(SnapRows) /\ <<>> \in Seq(RunRows) /\ <<>> \in Seq(Nat) /\ <<>> \in Seq(OverrideRows)
      /\ Len(<<>>) = 0 /\ 1..0 = {}
  BY EmptySeq
<1>5. <<>> \in AtMostOne(WriteRows) /\ <<>> \in AtMostOne(ReaderRows) /\ <<>> \in AtMostOne(ReportRows)
  BY EmptySeq DEF AtMostOne
<1>6. QuoteInv
  <2>1. Len(snaps) = 0 /\ Len(runs) = 0 /\ Len(finished) = 0 /\ 1..0 = {} /\ 0 \in 0..0
    BY <1>4
  <2>2. boots \in 0..MaxBoots /\ faults \in 0..MaxFaults
    BY <1>1
  <2>3. QuoteTypeOK
    BY <1>1, <1>2, <1>3, <1>4, <2>1, <2>2 DEF QuoteTypeOK
  <2>4. QuotesTrue /\ PendingTrue /\ PagesApart
    BY <1>2, <2>1 DEF QuotesTrue, PendingTrue, PagesApart
  <2> QED BY <1>1, <2>3, <2>4 DEF QuoteInv
<1>7. Book
  BY <1>1, <1>4, <1>5 DEF Book, OverridesDisjoint, ReplaysAnswered, WritesFit, KeysOnce, Current
<1>8. Reports /\ Reads
  BY <1>5 DEF Reports, Reads, CheckedFits, ReaderTrue, AnswersOnTradingDays
<1> QED BY <1>6, <1>7, <1>8, Parts

(* and every step keeps it.                                                 *)
LEMMA FxNext == FxInv /\ [Next]_vars => FxInv'
<1> SUFFICES ASSUME FxInv, [Next]_vars PROVE FxInv'
  OBVIOUS
<1>1. QuoteInv /\ Book /\ Reports /\ Reads /\ scenario \in Scenarios
  BY Parts DEF QuoteInv
<1>2. UNCHANGED scenario /\ Keys' = Keys /\ "publish" \notin Keys /\ setLock \in Keys \cup {"free", "publish"}
  BY <1>1, SameScenario, KeysAreNotLocks DEF Next, vars, Book
<1>3. CASE UNCHANGED fxVars /\ (QuoteNext \/ UNCHANGED quoteVars)
  <2>1. UNCHANGED <<overrides, writes, setLock, rejected, reader, answers, report, published>>
    BY <1>3 DEF fxVars
  <2>2. QuoteInv' /\ MarketGoesOn
    BY <1>1, <1>2, <1>3, QuoteStep, QuotesStay
  <2>3. Book' /\ Reports' /\ Reads'
    BY <1>1, <1>2, <2>1, <2>2, BookStays, ReportsStay, ReadsStay
  <2> QED BY <2>2, <2>3, PartsNext
<1>4. ASSUME UNCHANGED quoteVars,
             \/ \E k \in Keys : (\E w \in WriteRequests : BeginWrite(k, w)) \/ InsertOverride(k) \/ CommitWrite(k)
             \/ (\E q \in Requests : ReadQuotes(q)) \/ ReadDays \/ ReadOverrides
             \/ RequestReport \/ CalculateReport \/ CheckOverrides \/ SwitchPointer
      PROVE  FxInv'
  <2>1. QuoteInv' /\ MarketGoesOn
    BY <1>1, <1>2, <1>4, QuotesStay
  <2>2. ASSUME NEW k \in Keys, (\E w \in WriteRequests : BeginWrite(k, w)) \/ InsertOverride(k) \/ CommitWrite(k)
        PROVE  FxInv'
    <3>1. UNCHANGED <<reader, answers, report, published>>
      BY <2>2 DEF BeginWrite, InsertOverride, CommitWrite
    <3>2. Reads'
      BY <1>1, <1>2, <2>1, <3>1, ReadsStay
    <3>3. ASSUME NEW w \in WriteRequests, BeginWrite(k, w) PROVE Book' /\ Reports'
      <4>1. UNCHANGED <<overrides, setLock>>
        BY <3>3 DEF BeginWrite
      <4>2. Book'
        BY ONLY <1>1, <1>2, <3>3, k \in Keys, w \in WriteRequests, BeginStep
      <4>3. Reports'
        BY <1>1, <1>2, <3>1, <4>1, ReportsStay
      <4> QED BY <4>2, <4>3
    <3>4. ASSUME InsertOverride(k) PROVE Book' /\ Reports'
      <4>1. UNCHANGED overrides
        BY <3>4 DEF InsertOverride
      <4>2. Book' /\ (setLock' = "publish" <=> setLock = "publish")
        BY <1>1, <1>2, <3>4, InsertStep
      <4>3. Reports'
        BY <1>1, <1>2, <3>1, <4>1, <4>2, ReportsStay
      <4> QED BY <4>2, <4>3
    <3>5. ASSUME CommitWrite(k) PROVE Book' /\ Reports'
      BY <1>1, <1>2, <3>5, CommitStep
    <3>6. ASSUME \E w \in WriteRequests : BeginWrite(k, w) PROVE Book' /\ Reports'
      <4>1. PICK w \in WriteRequests : BeginWrite(k, w)
        BY <3>6
      <4> QED BY <3>3, <4>1
    <3>7. Book' /\ Reports'
      BY <2>2, <3>4, <3>5, <3>6
    <3> QED BY <2>1, <3>2, <3>7, PartsNext
  <2>3. CASE (\E q \in Requests : ReadQuotes(q)) \/ ReadDays \/ ReadOverrides
    <3>1. UNCHANGED <<overrides, writes, setLock, rejected, report, published>>
      BY <2>3 DEF ReadQuotes, ReadDays, ReadOverrides
    <3>2. Reads'
      BY <1>1, <1>2, <1>4, <2>3, ReadStep
    <3>3. Book' /\ Reports'
      BY <1>1, <1>2, <3>1, BookStays, ReportsStay
    <3> QED BY <2>1, <3>2, <3>3, PartsNext
  <2>4. CASE RequestReport \/ CalculateReport \/ CheckOverrides \/ SwitchPointer
    <3>1. UNCHANGED <<overrides, writes, rejected, reader, answers>>
      BY <2>4 DEF RequestReport, CalculateReport, CheckOverrides, SwitchPointer
    <3>2. /\ Reports' /\ setLock' \in Keys \cup {"free", "publish"}
          /\ \A k \in Keys : setLock' = k <=> setLock = k
      BY <1>1, <1>2, <2>4, <3>1, ReportStep
    <3>3. Book'
      BY <1>1, <1>2, <3>1, <3>2, BookStays
    <3>4. Reads'
      BY <1>1, <1>2, <2>1, <3>1, ReadsStay
    <3> QED BY <2>1, <3>2, <3>3, <3>4, PartsNext
  <2> QED BY <1>4, <2>2, <2>3, <2>4
<1>5. CASE Step
  <2>1. ASSUME NEW k \in Keys, (\E w \in WriteRequests : BeginWrite(k, w)) \/ InsertOverride(k) \/ CommitWrite(k)
        PROVE  FxInv'
    <3>1. UNCHANGED quoteVars
      BY <2>1 DEF BeginWrite, InsertOverride, CommitWrite
    <3> QED BY <1>4, <2>1, <3>1
  <2>2. CASE (\E q \in Requests : ReadQuotes(q)) \/ ReadDays \/ ReadOverrides
    <3>1. UNCHANGED quoteVars
      BY <2>2 DEF ReadQuotes, ReadDays, ReadOverrides
    <3> QED BY <1>4, <2>2, <3>1
  <2>3. CASE RequestReport \/ CalculateReport \/ CheckOverrides \/ SwitchPointer
    <3>1. UNCHANGED quoteVars
      BY <2>3 DEF RequestReport, CalculateReport, CheckOverrides, SwitchPointer
    <3> QED BY <1>4, <2>3, <3>1
  <2> QED BY <1>3, <1>5, <2>1, <2>2, <2>3 DEF Step
<1>6. Step \/ (UNCHANGED fxVars /\ UNCHANGED quoteVars)
  BY DEF Next, vars
<1> QED BY <1>3, <1>5, <1>6

(* A conversion finds what the last successful sync brought.                *)
LEMMA LatestCounts ==
  ASSUME QuoteInv
  PROVE  LatestAnswerCurrent
<1> PICK n, r : n = Len(finished) /\ r = finished[n]
  OBVIOUS
<1>1. scenario \in Scenarios /\ QuoteTypeOK /\ QuotesTrue /\ PagesApart
  BY DEF QuoteInv
<1>2. SUFFICES ASSUME finished # <<>>, NEW s \in ToSet(runs[r].links), NEW d \in DOMAIN snaps[s].body,
                      Traded(snaps[s].body, d)
      PROVE  /\ CurrentDays[d] = "OPEN"
             /\ \A c \in Currencies :
                  snaps[s].body[d][c] # 0 => CurrentQuotes[d][c] = snaps[s].body[d][c]
  BY DEF LatestAnswerCurrent, Last
<1>3. n \in 1..n /\ n \in Nat
  <2>1. finished \in Seq(Nat)
    BY <1>1 DEF QuoteTypeOK
  <2>2. n \in Nat /\ n # 0
    BY <1>2, <2>1, LenProperties, EmptySeq
  <2> QED BY ONLY <2>2
<1>4. r \in 1..Len(runs)
  BY <1>1, <1>3, QuoteTypes
<1>5. /\ runs[r].links \in Seq(Nat) /\ DOMAIN runs[r].links = 1..Len(runs[r].links)
      /\ \A i \in 1..Len(runs[r].links) : runs[r].links[i] \in 1..Len(snaps)
  BY <1>1, <1>4, QuoteTypes, LenProperties
<1>6. \A x \in ToSet(runs[r].links) : x \in 1..Len(snaps) /\ \E i \in 1..Len(runs[r].links) : runs[r].links[i] = x
  BY <1>5 DEF ToSet
<1>7. s \in 1..Len(snaps) /\ d \in Days
  BY <1>1, <1>2, <1>6, QuoteTypes
<1>8. <<n, s>> \in Visible
  BY <1>2, <1>3, <1>7 DEF Visible
<1>9. \A p \in Visible : p[1] \in 1..n /\ p[2] \in 1..Len(snaps) /\ (p[1] = n => p[2] \in ToSet(runs[r].links))
  BY <1>1, VisibleRows
<1>10. ASSUME NEW t \in ToSet(runs[r].links), d \in DOMAIN snaps[t].body PROVE t = s
  <2>1. PICK i, j \in 1..Len(runs[r].links) : runs[r].links[i] = s /\ runs[r].links[j] = t
    <3>1. PICK i \in 1..Len(runs[r].links) : runs[r].links[i] = s
      BY <1>2, <1>6
    <3>2. PICK j \in 1..Len(runs[r].links) : runs[r].links[j] = t
      BY <1>6
    <3> QED BY <3>1, <3>2
  <2>2. d \in PageDays(r, i) /\ d \in PageDays(r, j)
    BY <1>2, <1>10, <2>1 DEF PageDays
  <2>3. i = j
    BY <1>1, <1>4, <2>2 DEF PagesApart
  <2> QED BY <2>1, <2>3
<1>11. CurrentDays[d] = "OPEN"
  <2> PICK P : P = {p \in Visible : StatusIn(snaps[p[2]], d) # "UNKNOWN"}
    OBVIOUS
  <2>1. StatusIn(snaps[s], d) = "OPEN"
    BY <1>1, <1>2, <1>7 DEF StatusIn, QuotesTrue
  <2>2. <<n, s>> \in P
    BY <1>8, <2>1
  <2>3. /\ Latest(P) \in P /\ CurrentDays[d] = StatusIn(snaps[Latest(P)[2]], d)
        /\ \A q \in P : q[1] < Latest(P)[1] \/ (q[1] = Latest(P)[1] /\ q[2] <= Latest(P)[2])
    BY <1>1, <1>7, <2>2, DayShown
  <2> PICK m, t : m = Latest(P)[1] /\ t = Latest(P)[2]
    OBVIOUS
  <2>4. /\ m \in 1..n /\ t \in 1..Len(snaps) /\ StatusIn(snaps[t], d) # "UNKNOWN"
        /\ m = n => t \in ToSet(runs[r].links)
    BY <1>9, <2>3
  <2>5. n < m \/ n = m
    BY <2>2, <2>3
  <2>6. m = n
    BY ONLY <1>3, <2>4, <2>5
  <2>7. d \in DOMAIN snaps[t].body
    BY <1>1, <2>4 DEF StatusIn, QuotesTrue
  <2>8. t = s
    BY <1>10, <2>4, <2>6, <2>7
  <2> QED BY <2>1, <2>3, <2>8
<1>12. ASSUME NEW c \in Currencies, snaps[s].body[d][c] # 0
       PROVE  CurrentQuotes[d][c] = snaps[s].body[d][c]
  <2> PICK P : P = {p \in Visible : d \in DOMAIN snaps[p[2]].body /\ snaps[p[2]].body[d][c] # 0}
    OBVIOUS
  <2>1. <<n, s>> \in P
    BY <1>2, <1>8, <1>12
  <2>2. /\ Latest(P) \in P /\ CurrentQuotes[d][c] = snaps[Latest(P)[2]].body[d][c]
        /\ \A q \in P : q[1] < Latest(P)[1] \/ (q[1] = Latest(P)[1] /\ q[2] <= Latest(P)[2])
    BY <1>1, <1>7, <2>1, QuoteShown
  <2> PICK m, t : m = Latest(P)[1] /\ t = Latest(P)[2]
    OBVIOUS
  <2>3. m \in 1..n /\ d \in DOMAIN snaps[t].body /\ (m = n => t \in ToSet(runs[r].links))
    BY <1>9, <2>2
  <2>4. n < m \/ n = m
    BY <2>1, <2>2
  <2>5. m = n
    BY ONLY <1>3, <2>3, <2>4
  <2>6. t = s
    BY <1>10, <2>3, <2>5
  <2> QED BY <2>2, <2>6
<1> QED BY <1>11, <1>12

-----------------------------------------------------------------------------
(* The theorems.                                                            *)

(* The invariant holds in every state.                                      *)
THEOREM FxInvHolds == Spec => []FxInv
<1>1. Spec => Init /\ [][Next]_vars
  BY PTL DEF Spec
<1> QED BY <1>1, FxInit, FxNext, PTL

(* Overrides written at the same time stay unambiguous, and a request that  *)
(* has been done is never refused under its key (writeOverride, the trigger *)
(* and its lock), with the types of all variables.                          *)
THEOREM OverridesSoundHolds == Spec => []OverridesSound
<1>1. FxInv => OverridesSound
  BY DEF FxInv, OverridesSound
<1> QED BY <1>1, FxInvHolds, PTL

(* No day with rates is taken for a closed one, in the recorded days        *)
(* (safeAbsenceCutoff) or by a conversion that reads quotes and days at     *)
(* different moments (convertCurrency), but for the days that ended while   *)
(* an answer without their rates waited for the look at the clock           *)
(* (fetchPage).                                                             *)
THEOREM NoTradingDaySkippedHolds == Spec => []NoTradingDaySkipped
<1>1. FxInv => NoTradingDaySkipped
  <2> SUFFICES ASSUME FxInv PROVE NoTradingDaySkipped
    OBVIOUS
  <2>1. QuoteInv /\ AnswersOnTradingDays
    BY DEF FxInv, TypeOK, QuoteInv
  <2>2. TradingDayNeverClosed
    BY <2>1, ViewsTrue DEF TradingDayNeverClosed, Closed
  <2> QED BY <2>1, <2>2 DEF NoTradingDaySkipped
<1> QED BY <1>1, FxInvHolds, PTL

(* What the last successful sync was answered is what conversions see,      *)
(* whichever earlier run had stored the answer (persistPage, the views).    *)
THEOREM LatestAnswerCurrentHolds == Spec => []LatestAnswerCurrent
<1>1. FxInv => LatestAnswerCurrent
  BY Parts, LatestCounts
<1> QED BY <1>1, FxInvHolds, PTL

(* A report is published with the overrides that are current then           *)
(* (getCurrentFxOverrideIds under the lock, migration 0046).                *)
THEOREM PublishedSetCurrentHolds == Spec => PublishedSetCurrent
<1>1. FxInv /\ [Next]_vars => [SwitchPointer => published' = Current']_vars
  <2> SUFFICES ASSUME FxInv, SwitchPointer PROVE published' = Current'
    OBVIOUS
  <2>1. report # <<>> /\ report[1].status = "CHECKED" /\ published' = report[1].frozen /\ overrides' = overrides
    BY DEF SwitchPointer
  <2>2. report[1].frozen = Current
    BY <2>1 DEF FxInv, CheckedFits
  <2>3. Current' = Current
    BY <2>1 DEF Current
  <2> QED BY <2>1, <2>2, <2>3
<1>2. Spec => Init /\ [][Next]_vars
  BY PTL DEF Spec
<1> QED BY <1>1, <1>2, FxInvHolds, PTL DEF PublishedSetCurrent

=============================================================================
