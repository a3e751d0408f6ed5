------------------------------ MODULE FxQuotes ------------------------------
(***************************************************************************)
(* The official exchange rates (fx/sync.ts, fx/chinamoney-json.ts, the     *)
(* fx.sync queue of worker/register-handlers.ts, scripts/sync-fx.ts and    *)
(* the views fx_current_quote and fx_current_market_day).                  *)
(*                                                                         *)
(* `official` is what the source publishes: on a trading day its rates     *)
(* appear, and later they may be corrected.  A sync asks for a range of    *)
(* days, slice by slice.  An answer, the look at the clock after it and    *)
(* the transaction that stores it are three steps.  Every answer is stored *)
(* as an immutable snapshot, once per content, and linked to the run that  *)
(* asked.  Only the snapshots linked to a run that SUCCEEDED are visible.  *)
(* A rate is CNY per unit; 0 stands for a pair that is not quoted.         *)
(***************************************************************************)
EXTENDS Integers, Sequences, FiniteSets, FiniteSetsExt, SequencesExt

CONSTANT Scenarios                    \* sources, queues and bounds considered

VARIABLE scenario                     \* the one at hand

LastDay      == scenario.lastDay      \* the days are 1..LastDay; history starts on day 1
Currencies   == scenario.currencies   \* other than CNY
Quotations   == scenario.quotations   \* rates of one trading day: functions from Currencies to Nat
SliceDays    == scenario.sliceDays    \* days per request (21 in the code)
RecentDays   == scenario.recentDays   \* days that the daily job asks for (7 in the code)
RetryLimit   == scenario.retryLimit   \* of the queue fx.sync (5 in the code)
MaxBoots     == scenario.maxBoots     \* bound on restarts that ask for the whole history
MaxFaults    == scenario.maxFaults    \* bound on failed requests and worker deaths
ManualRanges == scenario.manualRanges \* ranges an operator syncs with the script, each once
SlowSyncs    == scenario.slowSyncs    \* whether syncs may last, with their retries, past midnight

VARIABLES
  today,
  official,   \* day |-> currency |-> rate, as the source publishes them
  snaps,      \* fx_raw_snapshot with its fx_quote and fx_market_day rows
  runs,       \* fx_sync_run with its fx_sync_run_snapshot rows
  finished,   \* runs that SUCCEEDED, by finished_at
  job,        \* the job of the exclusive queue fx.sync: <<>> or one record
  manual,     \* run of the script under way, or 0
  boots, faults,
  overnight   \* days with rates that ended while an answer without them waited for the clock

ASSUME QuotesAssumption ==
  \A s \in Scenarios :
    /\ s.lastDay \in Nat \ {0} /\ s.sliceDays \in Nat \ {0} /\ s.recentDays \in Nat \ {0}
    /\ s.retryLimit \in Nat /\ s.maxBoots \in Nat /\ s.maxFaults \in Nat
    /\ \A q \in s.quotations : q \in [s.currencies -> Nat] /\ \E c \in s.currencies : q[c] # 0
    /\ \A range \in s.manualRanges :
         range \in (1..s.lastDay) \X (1..s.lastDay) /\ range[1] <= range[2]

quoteVars == <<today, official, snaps, runs, finished, job, manual, boots, faults, overnight>>

Days == 1..LastDay

Traded(table, d) == \E c \in Currencies : table[d][c] # 0

-----------------------------------------------------------------------------
(* What the database shows of the stored snapshots.                        *)

(* Mutated form: a snapshot counts only for the run that first stored it.  *)
FirstStored ==
  {p \in (1..Len(finished)) \X (1..Len(snaps)) :
     /\ p[2] \in ToSet(runs[finished[p[1]]].links)
     /\ \A r \in 1..(finished[p[1]] - 1) : p[2] \notin ToSet(runs[r].links)}

(* Positions <<i, s>>: snapshot s is linked to the i-th run that succeeded.*)
Visible ==
  {p \in (1..Len(finished)) \X (1..Len(snaps)) : p[2] \in ToSet(runs[finished[p[1]]].links)}

(* The latest position: by finished_at of the run, then by fetched_at.     *)
Latest(P) == CHOOSE p \in P : \A q \in P : q[1] < p[1] \/ (q[1] = p[1] /\ q[2] <= p[2])

(* The view fx_current_quote.                                              *)
CurrentQuotes ==
  [d \in Days |-> [c \in Currencies |->
     LET P == {p \in Visible : d \in DOMAIN snaps[p[2]].body /\ snaps[p[2]].body[d][c] # 0}
     IN IF P = {} THEN 0 ELSE snaps[Latest(P)[2]].body[d][c]]]

(* The status that one snapshot gives to a day.                            *)
StatusIn(s, d) ==
  CASE d \in DOMAIN s.body /\ Traded(s.body, d) -> "OPEN"
    [] d \in s.absent                           -> "NON_TRADING"
    [] OTHER                                    -> "UNKNOWN"

(* The view fx_current_market_day.                                         *)
CurrentDays ==
  [d \in Days |->
     LET P == {p \in Visible : StatusIn(snaps[p[2]], d) # "UNKNOWN"}
     IN IF P = {} THEN "UNKNOWN" ELSE StatusIn(snaps[Latest(P)[2]], d)]

-----------------------------------------------------------------------------
(* The source (external) and the calendar.                                 *)

(* An answer without rates of the day waits for the look at the clock.     *)
Awaited(d) ==
  \E r \in 1..Len(runs) :
    /\ runs[r].page # <<>> /\ ~runs[r].page[1].dated
    /\ d \in DOMAIN runs[r].page[1].body /\ ~Traded(runs[r].page[1].body, d)

NewJob(kind) == <<[kind |-> kind, retries |-> 0, run |-> 0]>>

(* A new day; at 10:00 the schedule sends the daily job, which an          *)
(* exclusive queue refuses while it has another.                           *)
NewDay ==
  /\ today < LastDay
  /\ SlowSyncs \/ (job = <<>> /\ manual = 0)
  /\ today' = today + 1
  /\ job' = IF job = <<>> THEN NewJob("RECENT_SEVEN_DAYS") ELSE job
  /\ overnight' = overnight \cup {d \in {today} : Traded(official, d) /\ Awaited(d)}
  /\ UNCHANGED <<official, snaps, runs, finished, manual, boots, faults>>

(* The rates of a trading day appear on that day.                          *)
Publish(q) ==
  /\ ~Traded(official, today)
  /\ official' = [official EXCEPT ![today] = q]
  /\ UNCHANGED <<today, snaps, runs, finished, job, manual, boots, faults, overnight>>

(* The source corrects rates, or adds a pair, of a day already published.  *)
Correct(d, q) ==
  /\ Traded(official, d) /\ official[d] # q
  /\ official' = [official EXCEPT ![d] = q]
  /\ UNCHANGED <<today, snaps, runs, finished, job, manual, boots, faults, overnight>>

-----------------------------------------------------------------------------
(* The queue fx.sync.                                                      *)

(* A worker that starts and does not find the history from its first day.  *)
Boot ==
  /\ boots < MaxBoots
  /\ job = <<>>
  /\ \A c \in Currencies : CurrentQuotes[1][c] = 0
  /\ boots' = boots + 1
  /\ job' = NewJob("FULL_HISTORY")
  /\ UNCHANGED <<today, official, snaps, runs, finished, manual, faults, overnight>>

chinaMoneyRange(kind) ==
  CASE kind = "FULL_HISTORY"      -> <<1, today>>
    [] kind = "RECENT_SEVEN_DAYS" -> <<Max({1, today - RecentDays + 1}), today>>

(* page: the answer that is not stored yet, <<>> or one record.             *)
NewRun(range) ==
  [from |-> range[1], to |-> range[2], links |-> <<>>, page |-> <<>>, status |-> "RUNNING"]

StartJob ==
  /\ job # <<>> /\ job[1].run = 0
  /\ runs' = Append(runs, NewRun(chinaMoneyRange(job[1].kind)))
  /\ job' = <<[job[1] EXCEPT !.run = Len(runs) + 1]>>
  /\ UNCHANGED <<today, official, snaps, finished, manual, boots, faults, overnight>>

(* The operator's script, beside the queue; ranges end today at the latest.*)
StartManual(range) ==
  /\ manual = 0
  /\ range[2] <= today
  /\ \A r \in 1..Len(runs) : <<runs[r].from, runs[r].to>> # range
  /\ runs' = Append(runs, NewRun(range))
  /\ manual' = Len(runs) + 1
  /\ UNCHANGED <<today, official, snaps, finished, job, boots, faults, overnight>>

Live == {r \in 1..Len(runs) : /\ runs[r].status = "RUNNING"
                              /\ r = manual \/ (job # <<>> /\ r = job[1].run)}

(* Mutated form: a job that failed is not tried again.                     *)
GivenUp == <<>>

(* An attempt of the job that failed: the next one, or none is left.       *)
Retried == IF job[1].retries < RetryLimit
             THEN <<[job[1] EXCEPT !.retries = job[1].retries + 1, !.run = 0]>>
             ELSE <<>>

(* The job is acknowledged after its handler returned.                     *)
CompleteJob ==
  /\ job # <<>> /\ job[1].run # 0
  /\ runs[job[1].run].status = "SUCCEEDED"
  /\ job' = <<>>
  /\ UNCHANGED <<today, official, snaps, runs, finished, manual, boots, faults, overnight>>

(* The worker dies: its run stays RUNNING, its job is tried again.         *)
WorkerDies ==
  /\ faults < MaxFaults
  /\ job # <<>> /\ job[1].run # 0
  /\ faults' = faults + 1
  /\ job' = Retried
  /\ runs' = [runs EXCEPT ![job[1].run].page = <<>>]
  /\ UNCHANGED <<today, official, snaps, finished, manual, boots, overnight>>

-----------------------------------------------------------------------------
(* A sync: request, clock and transaction of every slice, then the verdict.*)

PageFrom(r) == runs[r].from + Len(runs[r].links) * SliceDays

HasMore(r) == PageFrom(r) <= runs[r].to

PageTo(r) == Min({PageFrom(r) + SliceDays - 1, runs[r].to})

(* Mutated form: every day of the slice that has no quotes is closed.      *)
WholeSlice(body, to) == to

(* The last day whose absence proves that it was closed (0 for none): a    *)
(* day of the past, or one before a day that is already quoted.            *)
safeAbsenceCutoff(body, to) ==
  IF to < today
    THEN to
    ELSE Max({0} \cup {d \in DOMAIN body : Traded(body, d)})

(* The answer to a request is stored unless its content is stored already. *)
persistPage(r, body, cutoff) ==
  LET absent == {d \in DOMAIN body : d <= cutoff /\ ~Traded(body, d)}
      same   == {s \in 1..Len(snaps) : snaps[s].body = body}
      snap   == IF same = {} THEN Len(snaps) + 1 ELSE Min(same)
  IN /\ snaps' = IF same = {}
                   THEN Append(snaps, [body |-> body, absent |-> absent])
                   ELSE [snaps EXCEPT ![snap].absent = snaps[snap].absent \cup absent]
     /\ runs' = [runs EXCEPT ![r].links = Append(runs[r].links, snap), ![r].page = <<>>]

(* The quotes that are read out of an answer.                              *)
parseChinaMoneyPage(from, to) == [d \in from..to |-> official[d]]

(* The source answers the request of the next slice.                       *)
AnswerPage(r) ==
  /\ r \in Live /\ HasMore(r) /\ runs[r].page = <<>>
  /\ LET body == parseChinaMoneyPage(PageFrom(r), PageTo(r))
     IN runs' = [runs EXCEPT ![r].page = <<[body |-> body, dated |-> FALSE, cutoff |-> 0]>>]
  /\ UNCHANGED <<today, official, snaps, finished, job, manual, boots, faults, overnight>>

(* With the whole answer at hand, shanghaiToday() decides what its gaps    *)
(* prove.                                                                  *)
ReadClock(r) ==
  /\ r \in Live /\ runs[r].page # <<>> /\ ~runs[r].page[1].dated
  /\ LET body == runs[r].page[1].body
     IN runs' = [runs EXCEPT ![r].page =
          <<[body |-> body, dated |-> TRUE, cutoff |-> safeAbsenceCutoff(body, PageTo(r))]>>]
  /\ UNCHANGED <<today, official, snaps, finished, job, manual, boots, faults, overnight>>

StorePage(r) ==
  /\ r \in Live /\ runs[r].page # <<>> /\ runs[r].page[1].dated
  /\ persistPage(r, runs[r].page[1].body, runs[r].page[1].cutoff)
  /\ UNCHANGED <<today, official, finished, job, manual, boots, faults, overnight>>

(* No answer, an answer that is refused, or a transaction that fails.      *)
FailPage(r) ==
  /\ faults < MaxFaults
  /\ r \in Live /\ HasMore(r)
  /\ faults' = faults + 1
  /\ runs' = [runs EXCEPT ![r].status = "FAILED", ![r].page = <<>>]
  /\ IF r = manual THEN manual' = 0 /\ UNCHANGED job
                   ELSE job' = Retried /\ UNCHANGED manual
  /\ UNCHANGED <<today, official, snaps, finished, boots, overnight>>

SucceedRun(r) ==
  /\ r \in Live /\ ~HasMore(r)
  /\ runs' = [runs EXCEPT ![r].status = "SUCCEEDED"]
  /\ finished' = Append(finished, r)
  /\ manual' = IF r = manual THEN 0 ELSE manual
  /\ UNCHANGED <<today, official, snaps, job, boots, faults, overnight>>

-----------------------------------------------------------------------------

QuoteInit ==
  /\ today = 1
  /\ official = [d \in Days |-> [c \in Currencies |-> 0]]
  /\ snaps = <<>> /\ runs = <<>> /\ finished = <<>>
  /\ job = NewJob("FULL_HISTORY") /\ manual = 0 /\ boots = 0 /\ faults = 0
  /\ overnight = {}

SyncStep ==
  \/ StartJob \/ CompleteJob
  \/ \E r \in Live : AnswerPage(r) \/ ReadClock(r) \/ StorePage(r) \/ SucceedRun(r)

QuoteNext ==
  \/ NewDay
  \/ \E q \in Quotations : Publish(q) \/ \E d \in Days : Correct(d, q)
  \/ Boot \/ WorkerDies
  \/ \E range \in ManualRanges : StartManual(range)
  \/ \E r \in Live : FailPage(r)
  \/ SyncStep

-----------------------------------------------------------------------------
(* Properties.                                                             *)

Rate == {0} \cup {q[c] : q \in Quotations, c \in Currencies}

(* Rows of fx_raw_snapshot and fx_sync_run, and the job.                   *)
AtMostOne(S) == {s \in Seq(S) : Len(s) <= 1}
DayRates == [Currencies -> Rate]
Bodies == UNION {[D -> DayRates] : D \in SUBSET Days}
SnapRows == [body : Bodies, absent : SUBSET Days]
PageRows == [body : Bodies, dated : BOOLEAN, cutoff : Nat]
RunRows == [from : Days, to : Days, links : Seq(Nat), page : AtMostOne(PageRows),
            status : {"RUNNING", "SUCCEEDED", "FAILED"}]
JobRows == [kind : {"FULL_HISTORY", "RECENT_SEVEN_DAYS"}, retries : 0..RetryLimit, run : Nat]

(* The variables have their types, and links and verdicts name runs and    *)
(* snapshots that exist.                                                   *)
QuoteTypeOK ==
  /\ today \in Days
  /\ official \in [Days -> DayRates]
  /\ snaps \in Seq(SnapRows)
  /\ runs \in Seq(RunRows)
  /\ \A r \in 1..Len(runs) :
       runs[r].from <= runs[r].to /\ ToSet(runs[r].links) \subseteq 1..Len(snaps)
  /\ finished \in Seq(Nat)
  /\ \A i \in 1..Len(finished) :
       finished[i] \in 1..Len(runs) /\ runs[finished[i]].status = "SUCCEEDED"
  /\ job \in AtMostOne(JobRows) /\ (job # <<>> => job[1].run \in 0..Len(runs))
  /\ manual \in 0..Len(runs)
  /\ boots \in 0..MaxBoots /\ faults \in 0..MaxFaults
  /\ overnight \subseteq Days

(* What the last successful sync was answered is what conversions see: the *)
(* rates it brought are the current ones and their days are open, also     *)
(* when a sync that failed had stored the same answer before (persistPage  *)
(* shares the snapshot, migration 0018 makes it visible by its links).     *)
LatestAnswerCurrent ==
  finished # <<>> =>
    \A s \in ToSet(runs[Last(finished)].links) : \A d \in DOMAIN snaps[s].body :
      Traded(snaps[s].body, d) =>
        /\ CurrentDays[d] = "OPEN"
        /\ \A c \in Currencies :
             snaps[s].body[d][c] # 0 => CurrentQuotes[d][c] = snaps[s].body[d][c]

(* A day on which the source has published rates is not taken for a day    *)
(* without trading, whatever was asked, answered or lost before it did     *)
(* (safeAbsenceCutoff, persistPage), unless the answer came before them    *)
(* and its look at the clock after midnight.                               *)
TradingDayNeverClosed ==
  \A d \in Days : Traded(official, d) /\ CurrentDays[d] = "NON_TRADING" => d \in overnight

(* When the failures are too few to use up the attempts of a job, and no   *)
(* sync lasts past midnight, the rates of every day but the last arrive     *)
(* (daily job, retries, worker deaths).                                    *)
RatesArrive ==
  \A d \in 1..(Max({s.lastDay : s \in Scenarios}) - 1) :
    (d < LastDay /\ Traded(official, d) /\ MaxFaults <= RetryLimit /\ ~SlowSyncs) ~> (d \in Days /\ CurrentDays[d] = "OPEN")
=============================================================================
