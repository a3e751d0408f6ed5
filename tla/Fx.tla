--------------------------------- MODULE Fx ---------------------------------
(***************************************************************************)
(* Manual exchange rates, conversions, and the rates of a report           *)
(* (fx/postgres-service.ts, fx/convert.ts, migrations 0045 and 0046,       *)
(* calculation/postgres-runner.ts, publishing/postgres-service.ts), on top *)
(* of the official rates of FxQuotes.                                      *)
(*                                                                         *)
(* A write of an override is a transaction of three steps: the look at the *)
(* idempotency record and the predecessor, the insert with the trigger     *)
(* that takes the advisory lock `fx-override:set`, the commit.  A reader   *)
(* of rates makes three queries, each of which sees what is committed at   *)
(* that moment.  A report freezes the current overrides when it is asked   *)
(* for, is valued with those, and is published under the lock.             *)
(***************************************************************************)
EXTENDS FxQuotes

CONSTANTS
  ManualRates,   \* rates that overrides are asked for
  MaxFallback    \* DEFAULT_FALLBACK_DAYS (10 in the code)

Keys         == scenario.keys          \* idempotency keys of one administrator
Ranges       == scenario.ranges        \* <<from, to>> that overrides are asked for
Requests     == scenario.requests      \* conversions: <<day, from, to>>
Reporting    == scenario.reporting     \* whether reports are asked for
MaxOverrides == scenario.maxOverrides  \* bound on committed overrides
MaxAnswers   == scenario.maxAnswers    \* bound on answered conversions

ASSUME FxAssumption ==
  /\ MaxFallback \in Nat
  /\ \A s \in Scenarios :
       /\ {"free", "publish"} \cap s.keys = {}
       /\ \A q \in s.requests : q[1] \in Nat

VARIABLES
  overrides,  \* fx_override, with the key of the idempotency record
  writes,     \* write transactions under way, by key
  setLock,    \* holder of the lock fx-override:set: a key, "publish" or "free"
  rejected,   \* [key, again]: answers 409; again: that very request had been done
  reader,     \* a conversion between its queries: <<>> or one record
  answers,    \* conversions answered
  report,     \* the report: <<>> or one record
  published   \* overrides of the published report, or {} for none

fxVars == <<overrides, writes, setLock, rejected, reader, answers, report, published>>
vars == <<scenario, quoteVars, fxVars>>

-----------------------------------------------------------------------------
(* The view fx_current_override: rows without a successor.                 *)
Current == {o \in 1..Len(overrides) : \A p \in 1..Len(overrides) : overrides[p].supersedes # o}

Overlap(a, b) == a[1] <= b[2] /\ b[1] <= a[2]

(* A request to write: a new override, or the revision of an older one     *)
(* (supersedes = 0 for none).                                              *)
WriteRequests ==
  [currency : Currencies, range : Ranges, rate : ManualRates, supersedes : 0..Len(overrides)]

(* The rows written under a key; the scope of its idempotency record names *)
(* the predecessor.                                                        *)
WrittenUnder(k, w) ==
  {o \in 1..Len(overrides) : overrides[o].key = k /\ overrides[o].supersedes = w.supersedes}

SameRequest(o, w) ==
  /\ overrides[o].currency = w.currency /\ overrides[o].range = w.range
  /\ overrides[o].rate = w.rate

(* The idempotency record of a key.                                        *)
Done(k, w) == WrittenUnder(k, w)

Reject(k, w) ==
  rejected' = rejected \cup
    {[key |-> k, again |-> \E o \in WrittenUnder(k, w) : SameRequest(o, w)]}

(* The first half of writeOverride, one transaction per key at a time.     *)
(* Under a key used before, the answer of that time is given again, or the *)
(* reuse is refused.                                                       *)
BeginWrite(k, w) ==
  /\ writes[k] = <<>>
  /\ Len(overrides) < MaxOverrides
  /\ IF Done(k, w) # {}
       THEN /\ \E o \in Done(k, w) : ~SameRequest(o, w)
            /\ Reject(k, w)
            /\ UNCHANGED writes
       ELSE IF w.supersedes # 0
               /\ (w.supersedes \notin Current \/ overrides[w.supersedes].currency # w.currency)
         THEN Reject(k, w) /\ UNCHANGED writes
         ELSE /\ writes' = [writes EXCEPT ![k] = <<[request |-> w, inserted |-> FALSE]>>]
              /\ UNCHANGED rejected
  /\ UNCHANGED <<quoteVars, overrides, setLock, reader, answers, report, published>>

(* A quote of the currency in the range, of any run, also one that failed. *)
OfficialIn(c, range) ==
  \E s \in ToSet(snaps) : \E d \in DOMAIN s.body :
    d \in range[1]..range[2] /\ s.body[d][c] # 0

(* Mutated form: the insert does not take the lock.                        *)
Unlocked(k) == setLock' = setLock

TakeSetLock(k) == setLock = "free" /\ setLock' = k

(* The trigger reject_fx_override_when_official_exists.                    *)
TriggerAccepts(w) ==
  /\ w.supersedes # 0 => w.supersedes \in Current
  /\ ~OfficialIn(w.currency, w.range)
  /\ \A o \in Current \ {w.supersedes} :
       overrides[o].currency = w.currency => ~Overlap(overrides[o].range, w.range)

InsertOverride(k) ==
  /\ writes[k] # <<>> /\ ~writes[k][1].inserted
  /\ LET w == writes[k][1].request
     IN IF TriggerAccepts(w)
          THEN /\ TakeSetLock(k)
               /\ writes' = [writes EXCEPT ![k] = <<[request |-> w, inserted |-> TRUE]>>]
               /\ UNCHANGED rejected
          ELSE /\ setLock = "free"
               /\ writes' = [writes EXCEPT ![k] = <<>>]
               /\ Reject(k, w)
               /\ UNCHANGED setLock
  /\ UNCHANGED <<quoteVars, overrides, reader, answers, report, published>>

(* Audit, idempotency record, commit; the locks are released.              *)
CommitWrite(k) ==
  /\ writes[k] # <<>> /\ writes[k][1].inserted
  /\ LET w == writes[k][1].request
     IN overrides' = Append(overrides,
          [currency |-> w.currency, range |-> w.range, rate |-> w.rate,
           supersedes |-> w.supersedes, key |-> k])
  /\ writes' = [writes EXCEPT ![k] = <<>>]
  /\ setLock' = IF setLock = k THEN "free" ELSE setLock
  /\ UNCHANGED <<quoteVars, rejected, reader, answers, report, published>>

-----------------------------------------------------------------------------
(* convertCurrency: book has quotes, days and overrides.                   *)

StatusOf(book, d) == IF d \in Days THEN book.days[d] ELSE "UNKNOWN"

(* A rate of the currency on the day: official, else manual.               *)
locateCurrency(book, c, d) ==
  CASE c = "CNY"              -> <<[source |-> "IDENTITY", rate |-> 1]>>
    [] c # "CNY" /\ book.quotes[d][c] # 0
                              -> <<[source |-> "OFFICIAL", rate |-> book.quotes[d][c]]>>
    [] OTHER ->
         LET M == {o \in book.overrides : overrides[o].currency = c
                     /\ d \in overrides[o].range[1]..overrides[o].range[2]}
         IN IF M = {} THEN <<>> ELSE <<[source |-> "MANUAL", rate |-> overrides[Max(M)].rate]>>

Answer(status, hit, sources) == [status |-> status, hit |-> hit, sources |-> sources]

(* Nothing is known of the day: no conclusion may be drawn from a missing  *)
(* quote.                                                                  *)
Unproven(book, d) ==
  StatusOf(book, d) = "UNKNOWN" /\ (d \in Days => ~Traded(book.quotes, d))

(* The first day from the requested one that is not proven closed decides. *)
convertCurrency(book, q) ==
  LET open == {d \in q[1]..(q[1] + MaxFallback) : StatusOf(book, d) # "NON_TRADING"}
      hit  == Min(open)
      from == locateCurrency(book, q[2], hit)
      to   == locateCurrency(book, q[3], hit)
  IN CASE q[2] = q[3]         -> Answer("OK", q[1], {})
       [] q[2] # q[3] /\ open = {} -> Answer("NO_AVAILABLE_QUOTE", 0, {})
       [] q[2] # q[3] /\ open # {} /\ (hit \notin Days \/ Unproven(book, hit))
                              -> Answer("NO_AVAILABLE_QUOTE", hit, {})
       [] OTHER               ->
            IF from = <<>> \/ to = <<>>
              THEN Answer("DATA_GAP", hit, {})
              ELSE Answer("OK", hit, {<<q[2], from[1].source>>, <<q[3], to[1].source>>})

(* The queries of convertBatch: quotes, days, overrides.                   *)
ReadQuotes(q) ==
  /\ reader = <<>> /\ Cardinality(answers) < MaxAnswers
  /\ reader' = <<[request |-> q, quotes |-> CurrentQuotes, days |-> <<>>]>>
  /\ UNCHANGED <<quoteVars, overrides, writes, setLock, rejected, answers, report, published>>

ReadDays ==
  /\ reader # <<>> /\ reader[1].days = <<>>
  /\ reader' = <<[reader[1] EXCEPT !.days = CurrentDays]>>
  /\ UNCHANGED <<quoteVars, overrides, writes, setLock, rejected, answers, report, published>>

(* The last query and the answer; `traded` records on which days the       *)
(* source had published rates by then.                                     *)
ReadOverrides ==
  /\ reader # <<>> /\ reader[1].days # <<>>
  /\ LET book == [quotes |-> reader[1].quotes, days |-> reader[1].days, overrides |-> Current]
         a    == convertCurrency(book, reader[1].request)
     IN answers' = answers \cup
          {[request |-> reader[1].request, answer |-> a,
            traded |-> {d \in Days : Traded(official, d)}]}
  /\ reader' = <<>>
  /\ UNCHANGED <<quoteVars, overrides, writes, setLock, rejected, report, published>>

-----------------------------------------------------------------------------
(* The rates of a report.                                                  *)

(* requestCalculation freezes the overrides in the input manifest.         *)
RequestReport ==
  /\ Reporting /\ report = <<>>
  /\ report' = <<[frozen |-> Current, status |-> "QUEUED"]>>
  /\ UNCHANGED <<quoteVars, overrides, writes, setLock, rejected, reader, answers, published>>

(* calculateRun values the facts with the frozen overrides.                *)
CalculateReport ==
  /\ report # <<>> /\ report[1].status = "QUEUED"
  /\ report' = <<[report[1] EXCEPT !.status = "READY"]>>
  /\ UNCHANGED <<quoteVars, overrides, writes, setLock, rejected, reader, answers, published>>

(* Mutated form: the current overrides are read without the lock.          *)
PublishUnlocked == setLock' = setLock

TakePublishLock == setLock = "free" /\ setLock' = "publish"

(* The publication transaction compares the overrides, under the lock; a   *)
(* report with other ones is not published and a new one is asked for.     *)
CheckOverrides ==
  /\ report # <<>> /\ report[1].status = "READY"
  /\ IF report[1].frozen = Current
       THEN TakePublishLock /\ report' = <<[report[1] EXCEPT !.status = "CHECKED"]>>
       ELSE setLock = "free" /\ report' = <<>> /\ UNCHANGED setLock
  /\ UNCHANGED <<quoteVars, overrides, writes, rejected, reader, answers, published>>

(* The pointer to the current snapshot is switched and the lock released.  *)
SwitchPointer ==
  /\ report # <<>> /\ report[1].status = "CHECKED"
  /\ published' = report[1].frozen
  /\ report' = <<>>
  /\ setLock' = IF setLock = "publish" THEN "free" ELSE setLock
  /\ UNCHANGED <<quoteVars, overrides, writes, rejected, reader, answers>>

-----------------------------------------------------------------------------

Init ==
  /\ scenario \in Scenarios
  /\ QuoteInit
  /\ overrides = <<>> /\ writes = [k \in Keys |-> <<>>] /\ setLock = "free"
  /\ rejected = {} /\ reader = <<>> /\ answers = {} /\ report = <<>> /\ published = {}

Step ==
  \/ QuoteNext /\ UNCHANGED fxVars
  \/ \E k \in Keys : \/ \E w \in WriteRequests : BeginWrite(k, w)
                     \/ InsertOverride(k) \/ CommitWrite(k)
  \/ \E q \in Requests : ReadQuotes(q)
  \/ ReadDays \/ ReadOverrides
  \/ RequestReport \/ CalculateReport \/ CheckOverrides \/ SwitchPointer

Next == Step /\ UNCHANGED scenario

(* Time passes, and the worker goes on with its job and its requests.      *)
Fairness ==
  /\ WF_vars(NewDay /\ UNCHANGED <<scenario, fxVars>>)
  /\ WF_vars(SyncStep /\ UNCHANGED <<scenario, fxVars>>)

Spec == Init /\ [][Next]_vars /\ Fairness

-----------------------------------------------------------------------------
(* Properties.                                                             *)

OverrideRows ==
  [currency : Currencies, range : Ranges, rate : ManualRates, supersedes : Nat, key : Keys]
WriteRows == [request : WriteRequests, inserted : BOOLEAN]
ReaderRows ==
  [request : Requests, quotes : [Days -> DayRates],
   days : {<<>>} \cup [Days -> {"OPEN", "NON_TRADING", "UNKNOWN"}]]
ReportRows == [frozen : SUBSET (1..Len(overrides)), status : {"QUEUED", "READY", "CHECKED"}]

(* The variables have their types; the lock is held by whoever is between  *)
(* its check and its commit.                                               *)
TypeOK ==
  /\ scenario \in Scenarios /\ QuoteTypeOK
  /\ overrides \in Seq(OverrideRows)
  /\ \A o \in 1..Len(overrides) : overrides[o].supersedes < o
  /\ writes \in [Keys -> AtMostOne(WriteRows)]
  /\ setLock \in Keys \cup {"free", "publish"}
  /\ \A k \in Keys : setLock = k <=> (writes[k] # <<>> /\ writes[k][1].inserted)
  /\ setLock = "publish" <=> (report # <<>> /\ report[1].status = "CHECKED")
  /\ rejected \subseteq [key : Keys, again : BOOLEAN]
  /\ reader \in AtMostOne(ReaderRows)
  /\ report \in AtMostOne(ReportRows)
  /\ published \subseteq 1..Len(overrides)

(* Two current overrides of a currency never share a day, so no conversion *)
(* is ambiguous, whatever administrators write at the same time (the       *)
(* trigger's lock and its overlap check).                                  *)
OverridesDisjoint ==
  \A o, p \in Current :
    o # p /\ overrides[o].currency = overrides[p].currency
      => ~Overlap(overrides[o].range, overrides[p].range)

(* A request that has been done is not refused when it is sent again under *)
(* its key, also when the range or the predecessor is taken by now, and not *)
(* while it is being done (the idempotency record and its lock).           *)
ReplaysAnswered == \A x \in rejected : ~x.again

(* Overrides written at the same time stay unambiguous, and sending a      *)
(* request again never fails because of its own first copy. The first part *)
(* is the type invariant.                                                  *)
OverridesSound == TypeOK /\ OverridesDisjoint /\ ReplaysAnswered

(* The overrides a report was valued with are the current ones when it is  *)
(* published: no override slips in between the check and the switch        *)
(* (migration 0046, getCurrentFxOverrideIds).                              *)
PublishedSetCurrent == [][SwitchPointer => published' = Current']_vars

(* A rate is found on a day on which the source has published rates, and   *)
(* no day on which it has is skipped on the way there, although quotes and *)
(* days are read at different moments (convertCurrency), but for the days  *)
(* that ended between an answer and its look at the clock.                 *)
AnswersOnTradingDays ==
  \A x \in answers :
    x.answer.status = "OK" /\ x.request[2] # x.request[3] =>
      /\ x.answer.hit \in x.traded
      /\ (x.request[1]..(x.answer.hit - 1)) \cap x.traded \subseteq overnight

(* No trading day is skipped, neither in the days that are recorded nor on *)
(* the way back of a conversion.                                           *)
NoTradingDaySkipped == TradingDayNeverClosed /\ AnswersOnTradingDays

=============================================================================
