------------------------------ MODULE Datasets ------------------------------
(***************************************************************************)
(* The datasets of one shop: how an import batch becomes versions of its   *)
(* marketplace-month slices, how an administrator replays the sources the  *)
(* current versions are bound to, and which versions a calculation freezes *)
(* and publishes.                                                          *)
(*                                                                         *)
(* A commit is one transaction of several waits: it holds its batch while  *)
(* it copies the files, then takes the shop, then the slices it touches.   *)
(* A rollback takes a slice and then the shop; a resumed replay takes the  *)
(* shop and then its batch.  What such a transaction writes becomes        *)
(* visible in its last step.  The other transactions take the shop as      *)
(* their only lock and are one step each.                                  *)
(*                                                                         *)
(* Retries after a crash and failures of the queue are Pipeline's.         *)
(***************************************************************************)
EXTENDS Integers, Sequences, FiniteSets, FiniteSetsExt, SequencesExt

CONSTANTS Objects,       \* immutable source objects of the shop
          Kind,          \* [Objects -> SHIPMENT or TRANSACTION]
          Rows,          \* the rows of all objects: a function on row names
          Sites,         \* Amazon marketplaces
          Months,
          Scenarios      \* histories and workloads the shop is considered with

VARIABLE scenario        \* the one at hand

Legacy     == scenario.legacy       \* objects whose rows an older release committed, by its own date rule
Uploads    == scenario.uploads      \* what a user may upload: objects and the months to calculate
Keys       == scenario.keys         \* idempotency keys of replays
MaxBatches == scenario.maxBatches   \* bound: import batches
MaxMoves   == scenario.maxMoves     \* bound: rollbacks and resumed replays
AnyBatch   == 1..Max({s.maxBatches : s \in Scenarios})

VARIABLES batches,    \* import_batch rows in order of creation, with the run each led to
          versions,   \* dataset_version rows in order of creation
          current,    \* [Slices -> its current version, 0 before the slice exists]
          acks,       \* HARD_INCOMPLETE acknowledgements that belong to no run
          counted,    \* what import_file says was read, inserted, excluded and refused
          published,  \* <<the run of the current snapshot>>, <<>> before the first
          commit,     \* [1..MaxBatches -> where the batch's commit transaction waits]
          rollback,   \* <<v>> while a rollback to version v waits for the shop
          resume,     \* <<b>> while a resume of replay b holds the shop
          moves       \* rollbacks and resumes so far

dataVars == <<batches, versions, current, acks, counted, published>>
vars == <<scenario, dataVars, commit, rollback, resume, moves>>

Slices == Sites \X Months

(* The date rule a version was made under: an older release converted the  *)
(* instant to the marketplace's time zone, this one keeps the printed date.*)
Instant == 1
Literal == 2

NotCommitted == {"COMMITTING"}
Finished == {"RESULT_PUBLISHED", "FAILED"}
BatchStatus == NotCommitted \cup Finished \cup {"COMMITTED", "CALCULATING", "READY_FOR_REVIEW"}

ASSUME DatasetsAssumption ==
  /\ Kind \in [Objects -> {"SHIPMENT", "TRANSACTION"}]
  /\ IsFiniteSet(DOMAIN Rows) /\ IsFiniteSet(Slices)
  /\ \A r \in DOMAIN Rows :
       /\ Rows[r].obj \in Objects /\ Rows[r].amount \in BOOLEAN /\ Rows[r].date \in BOOLEAN
       /\ Rows[r].date => Rows[r].month[Instant] \in Months /\ Rows[r].month[Literal] \in Months
  /\ \A s \in Scenarios :
       /\ s.legacy \subseteq Objects /\ s.uploads \subseteq [objs : SUBSET Objects, period : SUBSET Months]
       /\ s.maxBatches \in Nat \ {0} /\ s.maxMoves \in Nat

-----------------------------------------------------------------------------
(* What becomes of a row.                                                  *)

RowsOf(o) == {r \in DOMAIN Rows : Rows[r].obj = o}

(* SingleSiteMarketplaceInference: the only Amazon marketplace among the   *)
(* rows of a transaction file, none when there are two.                    *)
Evidence(o) == {Rows[r].site : r \in RowsOf(o)} \cap Sites

InferredSites(r) ==
  IF Cardinality(Evidence(Rows[r].obj)) = 1 THEN Evidence(Rows[r].obj) ELSE {}

SitesOf(r) ==
  IF Rows[r].site = "BLANK" /\ Kind[Rows[r].obj] = "TRANSACTION" THEN InferredSites(r)
  ELSE {Rows[r].site} \cap (Sites \cup {"NON_AMAZON"})

(* normalizedDecimal understands every amount of the row.                   *)
AmountReadable(r) == Rows[r].amount

Excluded(r) == SitesOf(r) = {"NON_AMAZON"} /\ AmountReadable(r)

Errored(r) ==
  \/ SitesOf(r) = {}
  \/ ~AmountReadable(r)
  \/ SitesOf(r) # {"NON_AMAZON"} /\ ~Rows[r].date

Inserted(r) == ~Excluded(r) /\ ~Errored(r)

SliceOf(r, mode) == <<CHOOSE s \in SitesOf(r) : TRUE, Rows[r].month[mode]>>

(* The temporary table import_stage: the rows of a set of files by slice.  *)
Homes == UNION {{<<r, mode, SliceOf(r, mode)>> : mode \in {Instant, Literal}} :
                  r \in {q \in DOMAIN Rows : Inserted(q)}}
Stage(objs, mode) ==
  [s \in Slices |-> {r \in DOMAIN Rows : Rows[r].obj \in objs /\ <<r, mode, s>> \in Homes}]

Counters(b, objs) ==
  {[batch |-> b, obj |-> o, read |-> Cardinality(RowsOf(o)),
    inserted |-> Cardinality({r \in RowsOf(o) : Inserted(r)}),
    excluded |-> Cardinality({r \in RowsOf(o) : Excluded(r)}),
    errored |-> Cardinality({r \in RowsOf(o) : Errored(r)})] : o \in objs}

-----------------------------------------------------------------------------
(* Versions.                                                               *)

Kinds(facts) == {Kind[Rows[r].obj] : r \in facts}
Bound(facts) == {Rows[r].obj : r \in facts}
Orders(facts, mode) == {r \in facts : Rows[r].order = mode}

Complete(facts) ==
  \/ "SHIPMENT" \in Kinds(facts)
  \/ Orders(facts, "MERCHANT") # {} /\ Orders(facts, "OTHER") = {}

(* Every row has quantity one.                                             *)
Warning(facts) ==
  /\ Kinds(facts) = {"SHIPMENT", "TRANSACTION"}
  /\ Cardinality({r \in facts : Kind[Rows[r].obj] = "SHIPMENT"}) # Cardinality(Orders(facts, "OTHER"))

Version(s, b, mode, facts, prev) ==
  [slice |-> s, batch |-> b, mode |-> mode, facts |-> facts, prev |-> prev,
   status |-> IF Complete(facts) THEN "ACTIVE" ELSE "INCOMPLETE"]

Existing == {s \in Slices : current[s] # 0}
Facts(s) == IF current[s] = 0 THEN {} ELSE versions[current[s]].facts

(* Current slices of which every source object is read again.              *)
Replayed(objs) == {s \in Slices : Facts(s) # {} /\ Bound(Facts(s)) \subseteq objs}

Touched(objs, stage) == {s \in Slices : stage[s] # {}} \cup Replayed(objs)

(* Slices are taken in one order, as the inserts are.                      *)
InOrder(set) == SetToSeq(set)

(* The versions that follow the n there are, one for each slice of a       *)
(* sequence, and the pointers that select them.                            *)
NewVersions(seq, b, mode, stage, cur) ==
  [i \in 1..Len(seq) |-> Version(seq[i], b, mode, stage[seq[i]], cur[seq[i]])]

Pointers(seq, n, cur) ==
  [s \in Slices |-> IF Contains(seq, s) THEN n + CHOOSE i \in 1..Len(seq) : seq[i] = s ELSE cur[s]]

Superseded(set) ==
  [v \in 1..Len(versions) |->
     IF \E s \in set : current[s] = v THEN [versions[v] EXCEPT !.status = "SUPERSEDED"] ELSE versions[v]]

-----------------------------------------------------------------------------
(* Batches.                                                                *)

(* What a replay promises to read: the bindings of the current versions.   *)
Closure == UNION {{<<current[s], o>> : o \in Bound(Facts(s))} : s \in Existing}

(* The accounting period of a batch is a range of months, all of them      *)
(* unless the user chose one.                                              *)
Batch(objs, period, replay, key, closure, status) ==
  [objs |-> objs, period |-> period, replay |-> replay, key |-> key, closure |-> closure,
   status |-> status, code |-> "none", run |-> <<>>]

SetBatch(b, status, code) == batches' = [batches EXCEPT ![b].status = status, ![b].code = code]

(* What a calculation makes of the current version of a slice: it counts   *)
(* those included.                                                         *)
DispositionOf(v) ==
  IF versions[v].status = "INCOMPLETE" THEN "HARD_EXCLUDED"
  ELSE IF Warning(versions[v].facts) THEN "INCLUDED_WITH_WARNING" ELSE "INCLUDED"

(* Mutated form: the slices that are out of scope are calculated too. *)
DispositionAnyMonth(s, period) == DispositionOf(current[s])

Disposition(s, period) ==
  IF s[2] \in period THEN DispositionOf(current[s]) ELSE "OUT_OF_SCOPE"

CurrentRun(period) ==
  {[slice |-> s, version |-> current[s], disposition |-> Disposition(s, period)] : s \in Existing}

InScope(period) == {s \in Existing : s[2] \in period}

Acknowledged(v) == \E a \in acks : a.version = v
Pending(period) ==
  {s \in InScope(period) : versions[current[s]].status = "INCOMPLETE" /\ ~Acknowledged(current[s])}

(* The older release left its versions current, each incomplete one of     *)
(* them acknowledged, and nothing of this release has run yet.             *)
NoSlices == [s \in Slices |-> 0]
LegacyStage == Stage(Legacy, Instant)
LegacySeq == InOrder({s \in Slices : LegacyStage[s] # {}})

Init ==
  /\ scenario \in Scenarios
  /\ batches = IF Legacy = {} THEN <<>> ELSE <<Batch(Legacy, Months, FALSE, "", {}, "RESULT_PUBLISHED")>>
  /\ versions = NewVersions(LegacySeq, 1, Instant, LegacyStage, NoSlices)
  /\ current = Pointers(LegacySeq, 0, NoSlices)
  /\ acks = {[version |-> v, by |-> "person"] :
               v \in {n \in 1..Len(versions) : versions[n].status = "INCOMPLETE"}}
  /\ counted = {}
  /\ published = IF Legacy = {} THEN <<>> ELSE <<CurrentRun(Months)>>
  /\ commit = [b \in 1..MaxBatches |-> "idle"]
  /\ rollback = <<>> /\ resume = <<>> /\ moves = 0

-----------------------------------------------------------------------------
(* Locks.                                                                  *)

ShopHeld == resume # <<>> \/ \E b \in 1..MaxBatches : commit[b] = "locked"
BatchHeld(b) == commit[b] # "idle"
RolledBackSlice == {versions[rollback[i]].slice : i \in 1..Len(rollback)}

(* The slices a commit locks: all of them when it proves a closure.        *)
Locks(b) ==
  IF batches[b].replay THEN Existing
  ELSE Touched(batches[b].objs, Stage(batches[b].objs, Literal))

-----------------------------------------------------------------------------
(* The API.                                                                *)

(* A batch whose files were analysed commits without being asked.          *)
Upload(u) ==
  /\ Len(batches) < MaxBatches
  /\ batches' = Append(batches, Batch(u.objs, u.period, FALSE, "", {}, "COMMITTING"))
  /\ UNCHANGED <<versions, current, acks, counted, published, commit, rollback, resume, moves>>

(* PostgresImportService.acknowledge.  A warning needs none on this path:  *)
(* the calculation of an import acknowledges it by itself.                 *)
Acknowledge(v) ==
  /\ ~ShopHeld
  /\ versions[v].status = "INCOMPLETE" /\ ~Acknowledged(v)
  /\ acks' = acks \cup {[version |-> v, by |-> "person"]}
  /\ UNCHANGED <<batches, versions, current, counted, published, commit, rollback, resume, moves>>

(* confirmImportBatch once nothing incomplete of its period is pending.    *)
Confirm(b) ==
  /\ ~ShopHeld /\ ~BatchHeld(b)
  /\ batches[b].status = "FAILED" /\ batches[b].code = "hard" /\ Pending(batches[b].period) = {}
  /\ SetBatch(b, "COMMITTED", "none")
  /\ UNCHANGED <<versions, current, acks, counted, published, commit, rollback, resume, moves>>

(* rollback: the slice's pointer moves, and then the shop is touched.      *)
RollbackStart(v) ==
  /\ rollback = <<>> /\ moves < MaxMoves
  /\ v # current[versions[v].slice]
  /\ rollback' = <<v>> /\ moves' = moves + 1
  /\ UNCHANGED <<dataVars, commit, resume>>

RollbackEnd ==
  /\ rollback # <<>> /\ ~ShopHeld
  /\ current' = [current EXCEPT ![versions[rollback[1]].slice] = rollback[1]]
  /\ rollback' = <<>>
  /\ UNCHANGED <<batches, versions, acks, counted, published, commit, resume, moves>>

-----------------------------------------------------------------------------
(* Source replay.                                                          *)

(* assertShopIdle: a run that was never published counts as work under way.*)
Idle ==
  \A b \in 1..Len(batches) :
    /\ batches[b].status \in Finished
    /\ batches[b].run # <<>> => batches[b].status = "RESULT_PUBLISHED"

KnownKey(key) == \E b \in 1..Len(batches) : batches[b].key = key

(* Each object is read once, however many versions are bound to it.        *)
SourcesOf(closure) == {binding[2] : binding \in closure}

(* A key that is known returns its batch and changes nothing.              *)
ReplayCurrentShopSources(key) ==
  /\ ~ShopHeld /\ Len(batches) < MaxBatches
  /\ ~KnownKey(key)
  /\ Idle /\ Closure # {}
  /\ batches' = Append(batches, Batch(SourcesOf(Closure), Months, TRUE, key, Closure, "COMMITTING"))
  /\ UNCHANGED <<versions, current, acks, counted, published, commit, rollback, resume, moves>>

(* Mutated form: the policies are compared, the facts are not. *)
SamePolicy(vs, v) == vs[v].mode = vs[vs[v].prev].mode

(* The version and the one before it hold the same transactions of the     *)
(* same objects, and the marketplace's policy has not changed.             *)
SameFacts(vs, v) ==
  /\ Kinds(vs[v].facts) = {"TRANSACTION"}
  /\ vs[v].facts = vs[vs[v].prev].facts
  /\ vs[v].mode = vs[vs[v].prev].mode

(* inheritSourceReplayHardAcknowledgements: of the incomplete versions of  *)
(* a replay, those whose predecessor a person acknowledged.                *)
Inherited(b, vs, cur) ==
  {[version |-> v, by |-> "replay"] :
     v \in {n \in 1..Len(vs) :
              /\ batches[b].replay /\ vs[n].batch = b
              /\ vs[n].status = "INCOMPLETE" /\ cur[vs[n].slice] = n /\ ~Acknowledged(n)
              /\ vs[n].prev # 0
              /\ [version |-> vs[n].prev, by |-> "person"] \in acks
              /\ SameFacts(vs, n)}}

(* resumeFailedSourceReplay: the operator holds the shop and asks for the  *)
(* batch, whatever its state.                                              *)
ResumeStart(b) ==
  /\ ~ShopHeld /\ batches[b].replay /\ moves < MaxMoves
  /\ resume' = <<b>> /\ moves' = moves + 1
  /\ UNCHANGED <<dataVars, commit, rollback>>

AwaitsConfirmation(b) == batches[b].status = "FAILED" /\ batches[b].code = "hard" /\ Idle

(* Nothing has become current since the replay committed.                  *)
VersionsCurrent(b) ==
  /\ \E v \in 1..Len(versions) : versions[v].batch = b
  /\ \A v \in 1..Len(versions) : versions[v].batch = b => current[versions[v].slice] = v
  /\ \A s \in Existing : versions[current[s]].batch <= b

ResumeDone(b, inherited) ==
  /\ acks' = acks \cup inherited /\ SetBatch(b, "COMMITTED", "none")
  /\ resume' = <<>>

(* Mutated form: the transaction that was refused stays open. *)
ResumeLeftOpen == UNCHANGED <<batches, acks, resume>>

ResumeRefused == resume' = <<>> /\ UNCHANGED <<batches, acks>>

ResumeEnd ==
  LET b == resume[1]
      inherited == Inherited(b, versions, current)
      resumed == /\ AwaitsConfirmation(b) /\ VersionsCurrent(b)
                 /\ \A s \in Pending(batches[b].period) : \E a \in inherited : a.version = current[s]
  IN  /\ resume # <<>> /\ ~BatchHeld(b)
      /\ AwaitsConfirmation(b) => rollback = <<>>
      /\ \/ resumed /\ ResumeDone(b, inherited)
         \/ ~resumed /\ ResumeRefused
      /\ UNCHANGED <<versions, current, counted, published, commit, rollback, moves>>

-----------------------------------------------------------------------------
(* import.commit: commitImportBatch.                                       *)

CopyImportFiles(b) ==
  /\ batches[b].status = "COMMITTING" /\ commit[b] = "idle"
  /\ commit' = [commit EXCEPT ![b] = "copied"]
  /\ UNCHANGED <<dataVars, rollback, resume, moves>>

LockShop(b) ==
  /\ commit[b] = "copied" /\ ~ShopHeld
  /\ commit' = [commit EXCEPT ![b] = "locked"]
  /\ UNCHANGED <<dataVars, rollback, resume, moves>>

(* Mutated form: what became current since the replay was asked for is not looked at. *)
ClosureTrusted(b) == TRUE

ClosureCurrent(b) == batches[b].replay => batches[b].closure = Closure

CommitFails(b, code) ==
  /\ SetBatch(b, "FAILED", code)
  /\ UNCHANGED <<versions, current, acks, counted>>

MaterializeImportSlices(b) ==
  LET objs  == batches[b].objs
      stage == Stage(objs, Literal)
      seq   == InOrder(Touched(objs, stage))
  IN  /\ versions' = Superseded(Touched(objs, stage)) \o NewVersions(seq, b, Literal, stage, current)
      /\ current' = Pointers(seq, Len(versions), current)
      /\ acks' = acks \cup Inherited(b, versions', current')
      /\ counted' = counted \cup Counters(b, objs)
      /\ SetBatch(b, "COMMITTED", "none")

CommitImportBatch(b) ==
  LET usable == \E s \in Slices : Stage(batches[b].objs, Literal)[s] # {}
  IN  /\ commit[b] = "locked" /\ Locks(b) \cap RolledBackSlice = {}
      /\ \/ ~ClosureCurrent(b) /\ CommitFails(b, "closure")
         \/ ClosureCurrent(b) /\ ~usable /\ CommitFails(b, "unusable")
         \/ ClosureCurrent(b) /\ usable /\ MaterializeImportSlices(b)
      /\ commit' = [commit EXCEPT ![b] = "idle"]
      /\ UNCHANGED <<published, rollback, resume, moves>>

-----------------------------------------------------------------------------
(* A cycle of waits: PostgreSQL aborts one of the transactions in it.  A   *)
(* commit is tried again by its queue.                                     *)

CommitRollbackCycle(b) == commit[b] = "locked" /\ Locks(b) \cap RolledBackSlice # {}
ResumeCommitCycle(b)   == resume = <<b>> /\ commit[b] = "copied"
ResumeRollbackCycle    == resume # <<>> /\ rollback # <<>> /\ AwaitsConfirmation(resume[1])

CommitAborted(b) ==
  /\ CommitRollbackCycle(b) \/ ResumeCommitCycle(b)
  /\ commit' = [commit EXCEPT ![b] = "idle"]
  /\ UNCHANGED <<dataVars, rollback, resume, moves>>

RollbackAborted ==
  /\ ResumeRollbackCycle \/ \E b \in 1..MaxBatches : CommitRollbackCycle(b)
  /\ rollback' = <<>>
  /\ UNCHANGED <<dataVars, commit, resume, moves>>

ResumeAborted ==
  /\ ResumeRollbackCycle \/ \E b \in 1..MaxBatches : ResumeCommitCycle(b)
  /\ resume' = <<>>
  /\ UNCHANGED <<dataVars, commit, rollback, moves>>

-----------------------------------------------------------------------------
(* The calculation an import asks for, and its publication.                *)

(* Mutated form: versions of both date rules are calculated together. *)
AnyModes(period) == TRUE

OneMode(period) == Cardinality({versions[current[s]].mode : s \in InScope(period)}) = 1

(* The rules are compared, and acknowledgements required, within the       *)
(* accounting period; the run is of all slices.                            *)
RequestCalculation(b) ==
  LET period == batches[b].period
  IN  /\ ~ShopHeld /\ batches[b].status = "COMMITTED"
      /\ \/ InScope(period) = {} /\ SetBatch(b, "FAILED", "period")
         \/ InScope(period) # {} /\ ~OneMode(period) /\ SetBatch(b, "FAILED", "mixed")
         \/ /\ InScope(period) # {} /\ OneMode(period) /\ Pending(period) # {}
            /\ SetBatch(b, "FAILED", "hard")
         \/ /\ InScope(period) # {} /\ OneMode(period) /\ Pending(period) = {}
            /\ batches' = [batches EXCEPT ![b].status = "CALCULATING", ![b].run = <<CurrentRun(period)>>]
      /\ UNCHANGED <<versions, current, acks, counted, published, commit, rollback, resume, moves>>

(* validateManifest: the run is of exactly the current versions.           *)
StillCurrent(run) ==
  {<<row.slice, row.version>> : row \in run} = {<<s, current[s]>> : s \in Existing}

PublishSnapshot(b) ==
  /\ ~ShopHeld /\ batches[b].status = "CALCULATING"
  /\ \/ /\ StillCurrent(batches[b].run[1])
        /\ published' = batches[b].run
        /\ SetBatch(b, "RESULT_PUBLISHED", "none")
     \/ /\ ~StillCurrent(batches[b].run[1])
        /\ SetBatch(b, "READY_FOR_REVIEW", "AUTO_PUBLISH_FAILED")
        /\ UNCHANGED published
  /\ UNCHANGED <<versions, current, acks, counted, commit, rollback, resume, moves>>

-----------------------------------------------------------------------------
Step ==
  \/ \E u \in Uploads : Upload(u)
  \/ \E key \in Keys : ReplayCurrentShopSources(key)
  \/ \E v \in 1..Len(versions) : Acknowledge(v) \/ RollbackStart(v)
  \/ RollbackEnd \/ ResumeEnd \/ RollbackAborted \/ ResumeAborted
  \/ \E b \in 1..Len(batches) :
       \/ Confirm(b) \/ ResumeStart(b)
       \/ CopyImportFiles(b) \/ LockShop(b) \/ CommitImportBatch(b) \/ CommitAborted(b)
       \/ RequestCalculation(b) \/ PublishSnapshot(b)

Next == Step /\ UNCHANGED scenario

Spec == Init /\ [][Next]_vars

(* Running transactions go on, and the queue tries a commit again.  Locks  *)
(* are granted in the order they were asked for, so a rollback or a resume *)
(* is not passed over for ever by commits that try again; the database     *)
(* finds cycles of waits.                                                  *)
CommitStep(b) ==
  b <= Len(batches) /\ (CopyImportFiles(b) \/ LockShop(b) \/ CommitImportBatch(b))

FairSpec ==
  /\ Spec
  /\ SF_vars(RollbackEnd /\ UNCHANGED scenario) /\ SF_vars(ResumeEnd /\ UNCHANGED scenario)
  /\ WF_vars(/\ RollbackAborted \/ ResumeAborted \/ \E b \in 1..Len(batches) : CommitAborted(b)
             /\ UNCHANGED scenario)
  /\ \A b \in AnyBatch : WF_vars(CommitStep(b) /\ UNCHANGED scenario)

-----------------------------------------------------------------------------
Included == {"INCLUDED", "INCLUDED_WITH_WARNING"}
Dispositions == Included \cup {"HARD_EXCLUDED", "OUT_OF_SCOPE"}
Codes == {"none", "hard", "closure", "unusable", "period", "mixed", "AUTO_PUBLISH_FAILED"}
Runs == SUBSET [slice : Slices, version : Nat, disposition : Dispositions]
BatchRows ==
  [objs : SUBSET Objects, period : SUBSET Months, replay : BOOLEAN, key : Keys \cup {""},
   closure : SUBSET (Nat \X Objects), status : BatchStatus, code : Codes, run : Seq(Runs)]
VersionRows ==
  [slice : Slices, batch : Nat \ {0}, mode : {Instant, Literal}, facts : SUBSET DOMAIN Rows, prev : Nat,
   status : {"ACTIVE", "INCOMPLETE", "SUPERSEDED"}]
IsVersion(v) == v \in 1..Len(versions)
AtMostOne(S) == {<<>>} \cup {<<x>> : x \in S}

(* The values the rows of import_batch, dataset_version, dataset_slice,    *)
(* quality_acknowledgement and the transactions under way may hold.        *)
TypeOK ==
  /\ scenario \in Scenarios
  /\ batches \in Seq(BatchRows) /\ Len(batches) <= MaxBatches
  /\ versions \in Seq(VersionRows)
  /\ \A v \in 1..Len(versions) : versions[v].batch <= Len(batches) /\ versions[v].prev < v
  /\ current \in [Slices -> Nat]
  /\ \A s \in Existing : IsVersion(current[s]) /\ versions[current[s]].slice = s
  /\ acks \subseteq [version : Nat, by : {"person", "replay"}] /\ \A a \in acks : IsVersion(a.version)
  /\ published \in Seq(Runs)
  /\ commit \in [1..MaxBatches -> {"idle", "copied", "locked"}]
  /\ rollback \in AtMostOne(1..Len(versions)) /\ resume \in AtMostOne(1..Len(batches))
  /\ moves \in 0..MaxMoves

(* copyImportFiles and materializeImportSlices: every row that was read is *)
(* inserted, excluded or refused, one of the three, and the rows counted   *)
(* as inserted are the facts that exist: none is lost between the stage    *)
(* and the slices, none is a fact of two of them.                          *)
RowsConserved ==
  \A c \in counted :
    LET facts == [v \in {n \in 1..Len(versions) : versions[n].batch = c.batch} |->
                    {r \in versions[v].facts : Rows[r].obj = c.obj}]
    IN  /\ c.read = c.inserted + c.excluded + c.errored
        /\ c.inserted = Cardinality(UNION {facts[v] : v \in DOMAIN facts})
        /\ \A v, w \in DOMAIN facts : v # w => facts[v] \cap facts[w] = {}

(* requestCalculation: after a change of the date rule a row lies in       *)
(* another month, and no run ever counts it there and in the month it came *)
(* from, though the run may know versions of both rules.                   *)
RowCountedOnce ==
  \A b \in 1..Len(batches) : \A i \in 1..Len(batches[b].run) :
    LET in == {row \in batches[b].run[i] : row.disposition \in Included}
    IN  \A p, q \in in : p # q => versions[p.version].facts \cap versions[q.version].facts = {}

(* Every row read is accounted for, and counted in one place. The first    *)
(* part is the type invariant.                                             *)
RowsExact == TypeOK /\ RowsConserved /\ RowCountedOnce

(* assertSourceReplayClosureCurrent: a replay reads old sources, and the   *)
(* rows of an upload that came after it was asked for are never replaced   *)
(* by them.  A version without rows is in no closure, and may be.          *)
ReplayNeverOverwritesNewer ==
  \A v \in 1..Len(versions) :
    /\ batches[versions[v].batch].replay
    /\ versions[v].prev # 0 /\ versions[versions[v].prev].facts # {}
    => versions[versions[v].prev].batch < versions[v].batch

(* inheritSourceReplayHardAcknowledgements: whoever excludes an incomplete *)
(* version from the result has seen these very facts.                      *)
AcknowledgementsEarned ==
  \A a \in acks :
    a.by = "person"
      \/ /\ [version |-> versions[a.version].prev, by |-> "person"] \in acks
         /\ versions[a.version].facts = versions[versions[a.version].prev].facts

(* commitImportBatch: a commit that starts ends, though rollbacks and      *)
(* resumes take the same locks in the other order.                         *)
IsCommitting(b) == b <= Len(batches) /\ batches[b].status = "COMMITTING"
CommitsEnd == \A b \in AnyBatch : IsCommitting(b) ~> ~IsCommitting(b)

=============================================================================
