--------------------------- MODULE DatasetsProofs ---------------------------
(***************************************************************************)
(* That every row read is accounted for and counted in one place           *)
(* (RowsExact), that a replay replaces no newer rows                       *)
(* (ReplayNeverOverwritesNewer) and that acknowledgements are of facts     *)
(* somebody has seen (AcknowledgementsEarned), for every number of files,  *)
(* rows, slices, batches, rollbacks and replays.                           *)
(***************************************************************************)
EXTENDS Datasets, FiniteSetTheorems, SequenceTheorems, TLAPS

-----------------------------------------------------------------------------
(* The inductive invariant.                                                 *)

(* A version holds exactly the rows its batch staged for its slice, a batch *)
(* that has not committed has none, and one that has has at most one for a  *)
(* slice.                                                                   *)
Staged(v) == Stage(batches[versions[v].batch].objs, versions[v].mode)[versions[v].slice]
VersionsExact ==
  \A v \in 1..Len(versions) :
    /\ versions[v].facts = Staged(v)
    /\ batches[versions[v].batch].status # "COMMITTING"
    /\ \A w \in 1..Len(versions) :
         versions[w].batch = versions[v].batch /\ versions[w].slice = versions[v].slice => w = v

(* The batch of a count has committed, under the rule of this release, and  *)
(* has a version of every slice it staged a row for.                        *)
CountFits(c) ==
  /\ c.batch \in 1..Len(batches) /\ batches[c.batch].status # "COMMITTING"
  /\ c \in Counters(c.batch, batches[c.batch].objs)
  /\ \A v \in 1..Len(versions) : versions[v].batch = c.batch => versions[v].mode = Literal
  /\ \A s \in Slices : Stage(batches[c.batch].objs, Literal)[s] # {} =>
       \E v \in 1..Len(versions) : versions[v].batch = c.batch /\ versions[v].slice = s
CountsFit == \A c \in counted : CountFits(c)

(* A run has one version of a slice, and those in scope are of one rule.    *)
RunFits(run) ==
  \A p, q \in run :
    /\ IsVersion(p.version) /\ versions[p.version].slice = p.slice
    /\ "OUT_OF_SCOPE" \notin {p.disposition, q.disposition} =>
         versions[p.version].mode = versions[q.version].mode
    /\ p.slice = q.slice => p = q
RunsFit == \A b \in 1..Len(batches) : \A i \in 1..Len(batches[b].run) : RunFits(batches[b].run[i])

(* A replay has promised to read versions older than itself.                *)
ClosuresOld ==
  \A b \in 1..Len(batches) : \A x \in batches[b].closure :
    IsVersion(x[1]) /\ versions[x[1]].batch < b

DatasetsInv ==
  /\ TypeOK /\ VersionsExact /\ CountsFit /\ RunsFit /\ ClosuresOld
  /\ ReplayNeverOverwritesNewer /\ AcknowledgementsEarned

-----------------------------------------------------------------------------
(* Sequences and rows.                                                      *)

(* A function on 1 .. n is a sequence of length n.                          *)
LEMMA FunctionIsSeq ==
  ASSUME NEW S, NEW n \in Nat, NEW f \in [1..n -> S]
  PROVE  f \in Seq(S) /\ Len(f) = n
<1>1. f \in Seq(S)
  BY SeqDef
<1>2. Len(f) \in Nat /\ DOMAIN f = 1..Len(f) /\ DOMAIN f = 1..n
  BY <1>1, LenProperties
<1>3. ASSUME NEW m \in Nat, 1..m = 1..n PROVE m = n
  <2>1. CASE m = 0
    <3>1. n \notin 1..m
      BY <2>1
    <3> QED BY <1>3, <2>1, <3>1
  <2>2. CASE n = 0
    <3>1. m \notin 1..n
      BY <2>2
    <3> QED BY <1>3, <2>2, <3>1
  <2>3. CASE m # 0 /\ n # 0
    <3>1. m \in 1..n /\ n \in 1..m
      BY <1>3, <2>3
    <3> QED BY <3>1
  <2> QED BY <2>1, <2>2, <2>3
<1> QED BY <1>1, <1>2, <1>3

(* InOrder lists a finite set, each element once.                           *)
LEMMA InOrderLists ==
  ASSUME NEW S, IsFiniteSet(S)
  PROVE  /\ InOrder(S) \in Seq(S)
         /\ \A x \in S : \E i \in 1..Len(InOrder(S)) : InOrder(S)[i] = x
         /\ \A i, j \in 1..Len(InOrder(S)) : InOrder(S)[i] = InOrder(S)[j] => i = j
<1> PICK n : n = Cardinality(S)
  OBVIOUS
<1>1. n \in Nat /\ \E f : f \in Bijection(1..n, S)
  BY FS_CardinalityType DEF ExistsBijection
<1>2. PICK f : f \in [1..n -> S] /\ IsInjective(f)
  BY <1>1 DEF Bijection, Injection
<1>3. InOrder(S) \in [1..n -> S] /\ IsInjective(InOrder(S))
  BY <1>2 DEF InOrder, SetToSeq
<1>4. InOrder(S) \in Seq(S) /\ Len(InOrder(S)) = n
  BY <1>1, <1>3, FunctionIsSeq
<1>5. \A i, j \in 1..n : InOrder(S)[i] = InOrder(S)[j] => i = j
  BY <1>3 DEF IsInjective
<1>6. \A x \in S : \E i \in 1..n : InOrder(S)[i] = x
  <2>1. Cardinality(1..n) = Cardinality(S)
    BY <1>1, FS_Interval
  <2>2. InOrder(S) \in Injection(1..n, S)
    BY <1>3 DEF Injection
  <2>3. InOrder(S) \in Surjection(1..n, S)
    BY <2>1, <2>2, FS_Injection
  <2> QED BY <2>3 DEF Surjection
<1> QED BY <1>4, <1>5, <1>6

(* A staged row was inserted, comes from a staged object and lies in one    *)
(* slice.                                                                   *)
LEMMA StagedRows ==
  ASSUME NEW objs, NEW mode, NEW s \in Slices, NEW r \in Stage(objs, mode)[s]
  PROVE  /\ r \in DOMAIN Rows /\ Rows[r].obj \in objs /\ Inserted(r)
         /\ s = SliceOf(r, mode)
<1>1. r \in DOMAIN Rows /\ Rows[r].obj \in objs /\ <<r, mode, s>> \in Homes
  BY DEF Stage
<1>2. PICK q \in DOMAIN Rows, m \in {Instant, Literal} : Inserted(q) /\ <<r, mode, s>> = <<q, m, SliceOf(q, m)>>
  BY <1>1 DEF Homes
<1> QED BY <1>1, <1>2

(* Every row that was inserted is staged, in its slice.                     *)
LEMMA InsertedStaged ==
  ASSUME NEW objs, NEW r \in DOMAIN Rows, Rows[r].obj \in objs, Inserted(r)
  PROVE  SliceOf(r, Literal) \in Slices /\ r \in Stage(objs, Literal)[SliceOf(r, Literal)]
<1> PICK s : s = CHOOSE x \in SitesOf(r) : TRUE
  OBVIOUS
<1>1. s \in SitesOf(r)
  BY DEF Inserted, Errored
<1>2. SitesOf(r) # {"NON_AMAZON"} /\ Rows[r].date
  BY DEF Inserted, Errored, Excluded
<1>3. s \in Sites
  BY <1>1, <1>2 DEF SitesOf, InferredSites, Evidence
<1>4. SliceOf(r, Literal) = <<s, Rows[r].month[Literal]>>
  BY DEF SliceOf
<1>5. SliceOf(r, Literal) \in Slices
  <2> PICK month : month = Rows[r].month[Literal]
    OBVIOUS
  <2>1. month \in Months
    BY <1>2, DatasetsAssumption
  <2>2. SliceOf(r, Literal) = <<s, month>>
    BY <1>4
  <2>3. <<s, month>> \in Slices
    BY ONLY <1>3, <2>1 DEF Slices
  <2> QED BY <2>2, <2>3
<1>6. <<r, Literal, SliceOf(r, Literal)>> \in Homes
  BY DEF Homes
<1> PICK h : h = SliceOf(r, Literal)
  OBVIOUS
<1>7. h \in Slices /\ <<r, Literal, h>> \in Homes
  BY <1>5, <1>6
<1>8. r \in Stage(objs, Literal)[h]
  BY <1>7 DEF Stage
<1> QED BY <1>7, <1>8

(* The count of a batch's object.                                           *)
LEMMA CounterOf ==
  ASSUME NEW b, NEW objs, NEW c \in Counters(b, objs)
  PROVE  /\ c.batch = b /\ c.obj \in objs
         /\ c.inserted = Cardinality({r \in RowsOf(c.obj) : Inserted(r)})
<1>1. PICK o \in objs : c = [batch |-> b, obj |-> o, read |-> Cardinality(RowsOf(o)),
           inserted |-> Cardinality({r \in RowsOf(o) : Inserted(r)}),
           excluded |-> Cardinality({r \in RowsOf(o) : Excluded(r)}),
           errored |-> Cardinality({r \in RowsOf(o) : Errored(r)})]
  BY DEF Counters
<1> PICK read, ins, exc, err :
      /\ read = Cardinality(RowsOf(o)) /\ ins = Cardinality({r \in RowsOf(o) : Inserted(r)})
      /\ exc = Cardinality({r \in RowsOf(o) : Excluded(r)}) /\ err = Cardinality({r \in RowsOf(o) : Errored(r)})
  OBVIOUS
<1>2. c = [batch |-> b, obj |-> o, read |-> read, inserted |-> ins, excluded |-> exc, errored |-> err]
  BY <1>1
<1>3. c.batch = b /\ c.obj = o /\ c.inserted = ins
  BY ONLY <1>2
<1> QED BY <1>3

(* Every row of an object is inserted, excluded or refused.                 *)
LEMMA RowsPartition ==
  ASSUME NEW b, NEW objs, NEW c \in Counters(b, objs)
  PROVE  c.read = c.inserted + c.excluded + c.errored
<1>1. PICK o \in objs : c = [batch |-> b, obj |-> o, read |-> Cardinality(RowsOf(o)),
           inserted |-> Cardinality({r \in RowsOf(o) : Inserted(r)}),
           excluded |-> Cardinality({r \in RowsOf(o) : Excluded(r)}),
           errored |-> Cardinality({r \in RowsOf(o) : Errored(r)})]
  BY DEF Counters
<1> PICK ins, exc, err : /\ ins = {r \in RowsOf(o) : Inserted(r)}
                         /\ exc = {r \in RowsOf(o) : Excluded(r)}
                         /\ err = {r \in RowsOf(o) : Errored(r)}
  OBVIOUS
<1>2. IsFiniteSet(RowsOf(o)) /\ RowsOf(o) \subseteq DOMAIN Rows
  BY DatasetsAssumption, FS_Subset DEF RowsOf
<1>3. IsFiniteSet(ins) /\ IsFiniteSet(exc) /\ IsFiniteSet(err)
  BY <1>2, FS_Subset
<1>4. \A r \in DOMAIN Rows : ~(Excluded(r) /\ Errored(r))
  BY DatasetsAssumption DEF Excluded, Errored
<1>5. ins \cap exc = {} /\ (ins \cup exc) \cap err = {} /\ RowsOf(o) = (ins \cup exc) \cup err
  BY <1>2, <1>4 DEF Inserted
<1>6. IsFiniteSet(ins \cup exc)
      /\ Cardinality(ins \cup exc) = Cardinality(ins) + Cardinality(exc) - Cardinality(ins \cap exc)
  BY <1>3, FS_Union
<1>7. Cardinality((ins \cup exc) \cup err)
        = Cardinality(ins \cup exc) + Cardinality(err) - Cardinality((ins \cup exc) \cap err)
  BY <1>3, <1>6, FS_Union
<1>8. Cardinality({}) = 0 /\ Cardinality(ins) \in Nat /\ Cardinality(exc) \in Nat /\ Cardinality(err) \in Nat
  BY <1>3, FS_EmptySet, FS_CardinalityType
<1>9. Cardinality(RowsOf(o)) = Cardinality(ins) + Cardinality(exc) + Cardinality(err)
  <2>1. Cardinality(ins \cup exc) = Cardinality(ins) + Cardinality(exc) - 0
    BY <1>5, <1>6, <1>8
  <2>2. Cardinality(RowsOf(o)) = Cardinality(ins \cup exc) + Cardinality(err) - 0
    BY <1>5, <1>7, <1>8
  <2> QED BY ONLY <1>8, <2>1, <2>2
<1> QED BY <1>1, <1>9

-----------------------------------------------------------------------------
(* Steps that make no version.                                              *)

Earned(a) ==
  a.by = "person"
    \/ /\ [version |-> versions[a.version].prev, by |-> "person"] \in acks
       /\ versions[a.version].facts = versions[versions[a.version].prev].facts

(* A batch keeps what it was made for, and does not go back to COMMITTING.  *)
KeepsBatch(b) ==
  /\ batches'[b].objs = batches[b].objs /\ batches'[b].replay = batches[b].replay
  /\ batches'[b].closure = batches[b].closure
  /\ batches[b].status # "COMMITTING" => batches'[b].status # "COMMITTING"
KeepsBatches == Len(batches) <= Len(batches') /\ \A b \in 1..Len(batches) : KeepsBatch(b)

(* A run that was there, or one of the versions at hand.                    *)
KeepsRun(b) ==
  batches'[b].run = batches[b].run \/ \E run : batches'[b].run = <<run>> /\ RunFits(run)

(* A batch that is new has no run, and a closure of versions there are.     *)
FreshBatch(b) ==
  batches'[b].run = <<>> /\ \A x \in batches'[b].closure : IsVersion(x[1]) /\ versions[x[1]].batch < b

(* What the type invariant says of the rows of the two tables.              *)
LEMMA Lengths ==
  ASSUME TypeOK
  PROVE  /\ Len(batches) \in Nat /\ Len(versions) \in Nat
         /\ DOMAIN batches = 1..Len(batches) /\ DOMAIN versions = 1..Len(versions)
         /\ \A b \in 1..Len(batches) : batches[b] \in BatchRows
         /\ \A v \in 1..Len(versions) :
              /\ versions[v] \in VersionRows
              /\ versions[v].batch \in 1..Len(batches) /\ versions[v].prev \in 0..(v - 1)
<1>1. batches \in Seq(BatchRows) /\ versions \in Seq(VersionRows)
  BY DEF TypeOK
<1>2. /\ Len(batches) \in Nat /\ Len(versions) \in Nat
      /\ DOMAIN batches = 1..Len(batches) /\ DOMAIN versions = 1..Len(versions)
  BY <1>1, LenProperties
<1>3. ASSUME NEW b \in 1..Len(batches) PROVE batches[b] \in BatchRows
  BY <1>1, ElementOfSeq
<1>4. ASSUME NEW v \in 1..Len(versions)
      PROVE  /\ versions[v] \in VersionRows
             /\ versions[v].batch \in 1..Len(batches) /\ versions[v].prev \in 0..(v - 1)
  <2>1. versions[v] \in VersionRows
    BY <1>1, ElementOfSeq
  <2>2. versions[v].batch \in Nat \ {0} /\ versions[v].prev \in Nat
    BY <2>1 DEF VersionRows
  <2>3. versions[v].batch <= Len(batches) /\ versions[v].prev < v
    BY DEF TypeOK
  <2> QED BY <1>2, <2>1, <2>2, <2>3
<1> QED BY <1>2, <1>3, <1>4

(* A step that leaves the versions alone keeps the invariant if what it     *)
(* writes to batches and acknowledgements does.                             *)
LEMMA VersionsKept ==
  ASSUME DatasetsInv, TypeOK', UNCHANGED <<versions, counted>>, KeepsBatches,
         \A b \in 1..Len(batches) : KeepsRun(b),
         \A b \in 1..Len(batches') : b \notin 1..Len(batches) => FreshBatch(b),
         acks \subseteq acks', \A a \in acks' : a \in acks \/ Earned(a)'
  PROVE  DatasetsInv'
<1>1. /\ TypeOK /\ VersionsExact /\ CountsFit /\ RunsFit /\ ClosuresOld
      /\ ReplayNeverOverwritesNewer /\ AcknowledgementsEarned
  BY DEF DatasetsInv
<1>2. /\ Len(batches) \in Nat /\ Len(versions) \in Nat /\ Len(batches') \in Nat
      /\ Len(batches) <= Len(batches')
      /\ \A v \in 1..Len(versions) : versions[v].batch \in 1..Len(batches)
  <2>1. Len(batches') \in Nat
    BY LenProperties DEF TypeOK
  <2> QED BY <1>1, <2>1, Lengths DEF KeepsBatches
<1>3. \A b \in 1..Len(batches) : b \in 1..Len(batches') /\ KeepsBatch(b)
  BY <1>2 DEF KeepsBatches
<1>4. VersionsExact'
  BY <1>1, <1>2, <1>3 DEF VersionsExact, Staged, KeepsBatch
<1>5. CountsFit'
  <2>1. ASSUME NEW c \in counted PROVE CountFits(c)'
    <3>1. CountFits(c)
      BY <1>1, <2>1 DEF CountsFit
    <3>2. KeepsBatch(c.batch) /\ c.batch \in 1..Len(batches')
      BY <1>3, <3>1 DEF CountFits
    <3> QED BY <3>1, <3>2 DEF CountFits, KeepsBatch
  <2> QED BY <2>1 DEF CountsFit
<1>6. RunsFit'
  <2>1. ASSUME NEW b \in 1..Len(batches'), NEW i \in 1..Len(batches'[b].run)
        PROVE  RunFits(batches'[b].run[i])
    <3>1. CASE b \in 1..Len(batches) /\ batches'[b].run = batches[b].run
      BY <1>1, <3>1 DEF RunsFit
    <3>2. CASE b \in 1..Len(batches) /\ \E run : batches'[b].run = <<run>> /\ RunFits(run)
      <4>1. PICK run : batches'[b].run = <<run>> /\ RunFits(run)
        BY <3>2
      <4>2. i = 1 /\ batches'[b].run[i] = run
        BY <4>1
      <4> QED BY <4>1, <4>2
    <3>3. CASE b \notin 1..Len(batches)
      <4>1. batches'[b].run = <<>>
        BY <3>3 DEF FreshBatch
      <4> QED BY <4>1
    <3> QED BY <3>1, <3>2, <3>3 DEF KeepsRun
  <2>2. \A run : RunFits(run) => RunFits(run)'
    BY DEF RunFits, IsVersion
  <2> QED BY <2>1, <2>2 DEF RunsFit
<1>7. ClosuresOld'
  <2>1. ASSUME NEW b \in 1..Len(batches'), NEW x \in batches'[b].closure
        PROVE  IsVersion(x[1]) /\ versions[x[1]].batch < b
    <3>1. CASE b \in 1..Len(batches)
      BY <1>1, <1>3, <2>1, <3>1 DEF ClosuresOld, KeepsBatch
    <3>2. CASE b \notin 1..Len(batches)
      BY <2>1, <3>2 DEF FreshBatch
    <3> QED BY <3>1, <3>2
  <2> QED BY <2>1 DEF ClosuresOld, IsVersion
<1>8. ReplayNeverOverwritesNewer'
  BY <1>1, <1>2, <1>3 DEF ReplayNeverOverwritesNewer, KeepsBatch
<1>9. AcknowledgementsEarned'
  <2>1. \A a \in acks : Earned(a)
    BY <1>1 DEF AcknowledgementsEarned, Earned
  <2>2. \A a : Earned(a) => Earned(a)'
    BY DEF Earned
  <2>3. \A a \in acks' : Earned(a)'
    BY <2>1, <2>2
  <2> QED BY <2>3 DEF AcknowledgementsEarned, Earned
<1> QED BY <1>4, <1>5, <1>6, <1>7, <1>8, <1>9 DEF DatasetsInv

-----------------------------------------------------------------------------
(* The actions that make no version.                                        *)

(* A status is written.                                                     *)
LEMMA BatchWritten ==
  ASSUME TypeOK, UNCHANGED scenario, NEW b \in 1..Len(batches),
         NEW row \in BatchRows, batches' = [batches EXCEPT ![b] = row],
         row.objs = batches[b].objs, row.replay = batches[b].replay,
         row.closure = batches[b].closure, row.status # "COMMITTING",
         row.run = batches[b].run \/ \E run : row.run = <<run>> /\ RunFits(run)
  PROVE  /\ batches' \in Seq(BatchRows') /\ Len(batches') = Len(batches)
         /\ KeepsBatches /\ \A c \in 1..Len(batches) : KeepsRun(c)
         /\ \A c \in 1..Len(batches') : c \in 1..Len(batches)
<1>1. batches \in Seq(BatchRows) /\ BatchRows' = BatchRows
  BY DEF TypeOK, BatchRows, Keys, Codes, Runs, Dispositions
<1>2. /\ batches' \in Seq(BatchRows) /\ Len(batches') = Len(batches)
      /\ \A c \in 1..Len(batches) : batches'[c] = IF c = b THEN row ELSE batches[c]
  BY <1>1, ExceptSeq
<1>3. Len(batches) \in Nat
  BY Lengths
<1>4. \A c \in 1..Len(batches) : KeepsBatch(c)
  BY <1>2 DEF KeepsBatch
<1>5. \A c \in 1..Len(batches) : KeepsRun(c)
  BY <1>2 DEF KeepsRun
<1> QED BY <1>1, <1>2, <1>3, <1>4, <1>5 DEF KeepsBatches

(* A step that writes the status and code of a batch.                       *)
LEMMA StatusWritten ==
  ASSUME TypeOK, UNCHANGED scenario, NEW b \in 1..Len(batches),
         NEW status \in BatchStatus \ NotCommitted, NEW code \in Codes, SetBatch(b, status, code)
  PROVE  /\ batches' \in Seq(BatchRows') /\ Len(batches') = Len(batches)
         /\ KeepsBatches /\ \A c \in 1..Len(batches) : KeepsRun(c)
         /\ \A c \in 1..Len(batches') : c \in 1..Len(batches)
<1> PICK row : row = [batches[b] EXCEPT !.status = status, !.code = code]
  OBVIOUS
<1>1. batches[b] \in BatchRows
  BY Lengths
<1>2. /\ row \in BatchRows /\ row.objs = batches[b].objs /\ row.replay = batches[b].replay
      /\ row.closure = batches[b].closure /\ row.status = status /\ row.run = batches[b].run
  BY <1>1 DEF BatchRows
<1>3. status # "COMMITTING"
  BY DEF NotCommitted
<1>4. batches' = [batches EXCEPT ![b] = row]
  BY DEF SetBatch
<1> QED BY <1>2, <1>3, <1>4, BatchWritten

(* A batch is made.                                                         *)
LEMMA BatchMade ==
  ASSUME DatasetsInv, UNCHANGED <<scenario, versions, current, acks, counted, published>>,
         UNCHANGED <<commit, rollback, resume, moves>>,
         Len(batches) < MaxBatches, NEW row \in BatchRows, batches' = Append(batches, row), row.run = <<>>,
         \A x \in row.closure : IsVersion(x[1])
  PROVE  DatasetsInv'
<1>1. TypeOK
  BY DEF DatasetsInv
<1>2. batches \in Seq(BatchRows) /\ BatchRows' = BatchRows
  BY <1>1 DEF TypeOK, BatchRows, Keys, Codes, Runs, Dispositions
<1>3. /\ batches' \in Seq(BatchRows) /\ Len(batches') = Len(batches) + 1
      /\ \A b \in 1..Len(batches) : batches'[b] = batches[b]
      /\ batches'[Len(batches) + 1] = row
  BY <1>2, AppendProperties
<1>4. scenario \in Scenarios
  BY <1>1 DEF TypeOK
<1>5. Len(batches) \in Nat /\ MaxBatches \in Nat /\ Len(batches') <= MaxBatches
  BY <1>1, <1>3, <1>4, Lengths, DatasetsAssumption DEF MaxBatches
<1>6. MaxBatches' = MaxBatches /\ MaxMoves' = MaxMoves
  BY DEF MaxBatches, MaxMoves
<1>7. \A v \in 1..Len(versions) : versions[v].batch \in 1..Len(batches)
  BY <1>1, Lengths
<1>8. TypeOK'
  <2>1. resume' \in AtMostOne(1..Len(batches'))
    BY <1>1, <1>3, <1>5 DEF TypeOK, AtMostOne
  <2>2. rollback' \in AtMostOne(1..Len(versions'))
    BY <1>1 DEF TypeOK
  <2> QED BY <1>1, <1>2, <1>3, <1>5, <1>6, <1>7, <2>1, <2>2 DEF TypeOK, Existing, IsVersion
<1>9. KeepsBatches /\ \A b \in 1..Len(batches) : KeepsRun(b)
  BY <1>3, <1>5 DEF KeepsBatches, KeepsBatch, KeepsRun
<1>10. \A b \in 1..Len(batches') : b \notin 1..Len(batches) => FreshBatch(b)
  <2>1. ASSUME NEW b \in 1..Len(batches'), b \notin 1..Len(batches) PROVE FreshBatch(b)
    <3>1. b = Len(batches) + 1
      BY <1>3, <1>5, <2>1
    <3>2. \A x \in row.closure : IsVersion(x[1]) /\ versions[x[1]].batch < Len(batches) + 1
      BY <1>5, <1>7 DEF IsVersion
    <3> QED BY <1>3, <3>1, <3>2 DEF FreshBatch
  <2> QED BY <2>1
<1>11. acks \subseteq acks' /\ \A a \in acks' : a \in acks \/ Earned(a)'
  OBVIOUS
<1> QED BY <1>8, <1>9, <1>10, <1>11, VersionsKept

(* An upload appends a batch.                                               *)
LEMMA UploadStep ==
  ASSUME DatasetsInv, UNCHANGED scenario, NEW u \in Uploads, Upload(u)
  PROVE  DatasetsInv'
<1> PICK objs, period : objs = u.objs /\ period = u.period
  OBVIOUS
<1>1. objs \subseteq Objects /\ period \subseteq Months
  BY DatasetsAssumption DEF DatasetsInv, TypeOK, Uploads
<1> PICK row : row = Batch(objs, period, FALSE, "", {}, "COMMITTING")
  OBVIOUS
<1>2. row \in BatchRows /\ row.run = <<>> /\ row.closure = {}
  <2> PICK closure, key, replay : closure = {} /\ key = "" /\ replay = FALSE
    OBVIOUS
  <2>1. /\ objs \in SUBSET Objects /\ period \in SUBSET Months /\ replay \in BOOLEAN /\ key \in Keys \cup {""}
        /\ closure \in SUBSET (Nat \X Objects) /\ "COMMITTING" \in BatchStatus
    BY <1>1 DEF BatchStatus, NotCommitted
  <2>2. /\ Batch(objs, period, replay, key, closure, "COMMITTING") \in BatchRows
        /\ Batch(objs, period, replay, key, closure, "COMMITTING").run = <<>>
        /\ Batch(objs, period, replay, key, closure, "COMMITTING").closure = closure
    BY ONLY <2>1, EmptySeq DEF Batch, BatchRows, Codes
  <2> QED BY <2>2
<1>3. /\ UNCHANGED <<scenario, versions, current, acks, counted, published>>
      /\ UNCHANGED <<commit, rollback, resume, moves>>
      /\ Len(batches) < MaxBatches /\ batches' = Append(batches, row)
  BY DEF Upload
<1>4. \A x \in row.closure : IsVersion(x[1])
  BY <1>2
<1> QED BY ONLY DatasetsInv, <1>2, <1>3, <1>4, BatchMade

(* A replay appends a batch whose closure is of versions there are.         *)
LEMMA ReplayStep ==
  ASSUME DatasetsInv, UNCHANGED scenario, NEW key \in Keys, ReplayCurrentShopSources(key)
  PROVE  DatasetsInv'
<1>1. TypeOK
  BY DEF DatasetsInv
<1>2. ASSUME NEW x \in Closure PROVE x \in Nat \X Objects /\ IsVersion(x[1])
  <2>1. PICK s \in Existing : \E o \in Bound(Facts(s)) : x = <<current[s], o>>
    BY <1>2 DEF Closure
  <2>2. PICK o \in Bound(Facts(s)) : x = <<current[s], o>>
    BY <2>1
  <2>3. s \in Slices /\ current[s] # 0 /\ current[s] \in Nat /\ IsVersion(current[s])
    BY <1>1 DEF TypeOK, Existing
  <2>4. versions[current[s]].facts \subseteq DOMAIN Rows
    BY <1>1, <2>3, Lengths DEF IsVersion, VersionRows
  <2>5. o \in Objects
    BY <2>3, <2>4, DatasetsAssumption DEF Bound, Facts
  <2> QED BY <2>2, <2>3, <2>5
<1>3. SourcesOf(Closure) \subseteq Objects
  <2>1. ASSUME NEW x \in Closure PROVE x[2] \in Objects
    BY <1>2
  <2> QED BY <2>1 DEF SourcesOf
<1> PICK row : row = Batch(SourcesOf(Closure), Months, TRUE, key, Closure, "COMMITTING")
  OBVIOUS
<1>4. row \in BatchRows /\ row.run = <<>> /\ row.closure = Closure
  <2> PICK closure, objs, period, replay :
        closure = Closure /\ objs = SourcesOf(Closure) /\ period = Months /\ replay = TRUE
    OBVIOUS
  <2>1. closure \in SUBSET (Nat \X Objects)
    BY <1>2
  <2>2. /\ objs \in SUBSET Objects /\ period \in SUBSET Months /\ replay \in BOOLEAN /\ key \in Keys \cup {""}
        /\ "COMMITTING" \in BatchStatus
    BY <1>3 DEF BatchStatus, NotCommitted
  <2>3. /\ Batch(objs, period, replay, key, closure, "COMMITTING") \in BatchRows
        /\ Batch(objs, period, replay, key, closure, "COMMITTING").run = <<>>
        /\ Batch(objs, period, replay, key, closure, "COMMITTING").closure = closure
    BY ONLY <2>1, <2>2, EmptySeq DEF Batch, BatchRows, Codes
  <2> QED BY <2>3
<1>5. /\ UNCHANGED <<scenario, versions, current, acks, counted, published>>
      /\ UNCHANGED <<commit, rollback, resume, moves>>
      /\ Len(batches) < MaxBatches /\ batches' = Append(batches, row)
  BY DEF ReplayCurrentShopSources
<1>6. \A x \in row.closure : IsVersion(x[1])
  BY <1>2, <1>4
<1> QED BY ONLY DatasetsInv, <1>4, <1>5, <1>6, BatchMade

(* The parts of TypeOK a step leaves alone.                                 *)
LEMMA TypeKept ==
  ASSUME TypeOK, UNCHANGED <<scenario, versions>>, KeepsBatches,
         batches' \in Seq(BatchRows'), Len(batches') = Len(batches),
         current' \in [Slices -> Nat],
         \A s \in Slices : current'[s] # 0 => IsVersion(current'[s]) /\ versions[current'[s]].slice = s,
         \A a \in acks' : a \in acks \/ (a \in [version : Nat, by : {"person", "replay"}] /\ IsVersion(a.version)),
         published' \in Seq(Runs),
         commit' \in [1..MaxBatches -> {"idle", "copied", "locked"}],
         rollback' \in AtMostOne(1..Len(versions)),
         resume' \in AtMostOne(1..Len(batches)),
         moves' \in 0..MaxMoves
  PROVE  TypeOK'
<1>1. MaxBatches' = MaxBatches /\ MaxMoves' = MaxMoves /\ Runs' = Runs /\ VersionRows' = VersionRows
  BY DEF MaxBatches, MaxMoves, Runs, Dispositions, VersionRows
<1>2. acks' \subseteq [version : Nat, by : {"person", "replay"}] /\ \A a \in acks' : IsVersion(a.version)'
  BY DEF TypeOK, IsVersion
<1>3. \A s \in Existing' : IsVersion(current[s])' /\ versions'[current'[s]].slice = s
  BY DEF Existing, IsVersion
<1>4. rollback' \in AtMostOne(1..Len(versions')) /\ resume' \in AtMostOne(1..Len(batches'))
  OBVIOUS
<1>5. /\ scenario \in Scenarios /\ Len(batches) <= MaxBatches /\ versions \in Seq(VersionRows)
      /\ \A v \in 1..Len(versions) : versions[v].batch <= Len(batches) /\ versions[v].prev < v
  BY DEF TypeOK
<1> QED BY <1>1, <1>2, <1>3, <1>4, <1>5 DEF TypeOK

(* A step that writes statuses and acknowledgements and moves nothing else  *)
(* but what the transactions under way hold.                                *)
LEMMA Quiet ==
  ASSUME DatasetsInv, UNCHANGED <<scenario, versions, counted>>,
         KeepsBatches, \A b \in 1..Len(batches) : KeepsRun(b),
         \A c \in 1..Len(batches') : c \in 1..Len(batches),
         batches' \in Seq(BatchRows'), Len(batches') = Len(batches),
         current' \in [Slices -> Nat],
         \A s \in Slices : current'[s] # 0 => IsVersion(current'[s]) /\ versions[current'[s]].slice = s,
         acks \subseteq acks',
         \A a \in acks' : a \in acks
           \/ /\ a \in [version : Nat, by : {"person", "replay"}] /\ IsVersion(a.version)
              /\ Earned(a),
         published' \in Seq(Runs),
         commit' \in [1..MaxBatches -> {"idle", "copied", "locked"}],
         rollback' \in AtMostOne(1..Len(versions)),
         resume' \in AtMostOne(1..Len(batches)),
         moves' \in 0..MaxMoves
  PROVE  DatasetsInv'
<1>1. TypeOK
  BY DEF DatasetsInv
<1>2. TypeOK'
  BY <1>1, TypeKept
<1>3. \A a \in acks' : a \in acks \/ Earned(a)'
  BY DEF Earned
<1> QED BY <1>2, <1>3, VersionsKept

(* What stays as it is.                                                     *)
LEMMA Typed ==
  ASSUME TypeOK
  PROVE  /\ current \in [Slices -> Nat]
         /\ \A s \in Slices : current[s] # 0 => IsVersion(current[s]) /\ versions[current[s]].slice = s
         /\ published \in Seq(Runs)
         /\ commit \in [1..MaxBatches -> {"idle", "copied", "locked"}]
         /\ rollback \in AtMostOne(1..Len(versions))
         /\ resume \in AtMostOne(1..Len(batches))
         /\ moves \in 0..MaxMoves /\ MaxMoves \in Nat /\ MaxBatches \in Nat
BY DatasetsAssumption DEF TypeOK, Existing, MaxMoves, MaxBatches

(* A step that leaves the batches alone.                                    *)
LEMMA BatchesAlone ==
  ASSUME TypeOK, UNCHANGED <<scenario, batches>>
  PROVE  /\ KeepsBatches /\ \A b \in 1..Len(batches) : KeepsRun(b)
         /\ \A c \in 1..Len(batches') : c \in 1..Len(batches)
         /\ batches' \in Seq(BatchRows') /\ Len(batches') = Len(batches)
<1>1. batches \in Seq(BatchRows) /\ BatchRows' = BatchRows
  BY DEF TypeOK, BatchRows, Keys, Codes, Runs, Dispositions
<1>2. Len(batches) \in Nat
  BY Lengths
<1> QED BY <1>1, <1>2 DEF KeepsBatches, KeepsBatch, KeepsRun

(* A person acknowledges a version there is.                                *)
LEMMA AcknowledgeStep ==
  ASSUME DatasetsInv, UNCHANGED scenario, NEW v \in 1..Len(versions), Acknowledge(v)
  PROVE  DatasetsInv'
<1>1. TypeOK
  BY DEF DatasetsInv
<1> PICK a : a = [version |-> v, by |-> "person"]
  OBVIOUS
<1>2. a \in [version : Nat, by : {"person", "replay"}] /\ IsVersion(a.version) /\ Earned(a)
  BY <1>1, Lengths DEF IsVersion, Earned
<1>3. acks' = acks \cup {a}
  BY DEF Acknowledge
<1>4. UNCHANGED <<batches, versions, current, counted, published, commit, rollback, resume, moves>>
  BY DEF Acknowledge
<1> QED BY <1>1, <1>2, <1>3, <1>4, BatchesAlone, Typed, Quiet

(* Transactions begin, wait, are aborted, and a rollback ends.              *)
LEMMA WaitStep ==
  ASSUME DatasetsInv, UNCHANGED scenario,
         \/ \E v \in 1..Len(versions) : RollbackStart(v)
         \/ RollbackEnd \/ RollbackAborted \/ ResumeAborted
         \/ \E b \in 1..Len(batches) : ResumeStart(b) \/ CopyImportFiles(b) \/ LockShop(b) \/ CommitAborted(b)
  PROVE  DatasetsInv'
<1>1. TypeOK
  BY DEF DatasetsInv
<1>2. UNCHANGED <<batches, versions, acks, counted, published>>
  BY DEF RollbackStart, RollbackEnd, RollbackAborted, ResumeAborted, ResumeStart, CopyImportFiles,
         LockShop, CommitAborted, dataVars
<1>3. /\ current' \in [Slices -> Nat]
      /\ \A s \in Slices : current'[s] # 0 => IsVersion(current'[s]) /\ versions[current'[s]].slice = s
  <2>1. CASE current' = current
    BY <1>1, <2>1, Typed
  <2>2. CASE RollbackEnd
    <3>1. IsVersion(rollback[1])
      <4>1. rollback \in AtMostOne(1..Len(versions)) /\ rollback # <<>>
        BY <1>1, <2>2, Typed DEF RollbackEnd
      <4> QED BY <4>1 DEF AtMostOne, IsVersion
    <3> PICK v : v = rollback[1]
      OBVIOUS
    <3>2. v \in Nat /\ versions[v].slice \in Slices
      BY <1>1, <3>1, Lengths DEF IsVersion, VersionRows
    <3>3. current' = [current EXCEPT ![versions[v].slice] = v]
      BY <2>2 DEF RollbackEnd
    <3> QED BY <1>1, <3>1, <3>2, <3>3, Typed
  <2> QED BY <2>1, <2>2 DEF RollbackStart, RollbackAborted, ResumeAborted, ResumeStart, CopyImportFiles,
             LockShop, CommitAborted, dataVars
<1>4. commit' \in [1..MaxBatches -> {"idle", "copied", "locked"}]
  BY <1>1, Typed DEF RollbackStart, RollbackEnd, RollbackAborted, ResumeAborted, ResumeStart, CopyImportFiles,
         LockShop, CommitAborted
<1>5. rollback' \in AtMostOne(1..Len(versions))
  BY <1>1, Typed DEF RollbackStart, RollbackEnd, RollbackAborted, ResumeAborted, ResumeStart, CopyImportFiles,
         LockShop, CommitAborted, AtMostOne
<1>6. resume' \in AtMostOne(1..Len(batches))
  BY <1>1, Typed DEF RollbackStart, RollbackEnd, RollbackAborted, ResumeAborted, ResumeStart, CopyImportFiles,
         LockShop, CommitAborted, AtMostOne
<1>7. moves' \in 0..MaxMoves
  BY <1>1, Typed DEF RollbackStart, RollbackEnd, RollbackAborted, ResumeAborted, ResumeStart, CopyImportFiles,
         LockShop, CommitAborted
<1>8. acks \subseteq acks' /\ \A a \in acks' : a \in acks
  BY <1>2
<1>9. published' \in Seq(Runs)
  BY <1>1, <1>2, Typed
<1> QED BY <1>1, <1>2, <1>3, <1>4, <1>5, <1>6, <1>7, <1>8, <1>9, BatchesAlone, Quiet

(* A confirmation writes a status.                                          *)
LEMMA ConfirmStep ==
  ASSUME DatasetsInv, UNCHANGED scenario, NEW b \in 1..Len(batches), Confirm(b)
  PROVE  DatasetsInv'
<1>1. TypeOK /\ "COMMITTED" \in BatchStatus \ NotCommitted /\ "none" \in Codes
  BY DEF DatasetsInv, BatchStatus, NotCommitted, Codes
<1>2. SetBatch(b, "COMMITTED", "none")
      /\ UNCHANGED <<versions, current, acks, counted, published, commit, rollback, resume, moves>>
  BY DEF Confirm
<1> QED BY <1>1, <1>2, StatusWritten, Typed, Quiet

(* A run is of the current versions, once those in scope are of one rule.   *)
LEMMA CurrentRunFits ==
  ASSUME TypeOK, NEW period, OneMode(period)
  PROVE  CurrentRun(period) \in Runs /\ RunFits(CurrentRun(period))
<1> PICK modes : modes = {versions[current[s]].mode : s \in InScope(period)}
  OBVIOUS
<1>1. ASSUME NEW s \in Existing
      PROVE  /\ s \in Slices /\ IsVersion(current[s]) /\ current[s] \in Nat
             /\ versions[current[s]].slice = s /\ versions[current[s]].mode \in {Instant, Literal}
  <2>1. s \in Slices /\ IsVersion(current[s]) /\ versions[current[s]].slice = s /\ current[s] \in Nat
    BY Typed DEF Existing
  <2> QED BY <2>1, Lengths DEF IsVersion, VersionRows
<1>2. IsFiniteSet(modes)
  <2>1. modes \subseteq {Instant, Literal}
    BY <1>1 DEF InScope
  <2>2. IsFiniteSet({Instant} \cup {Literal})
    BY FS_Singleton, FS_Union
  <2>3. {Instant, Literal} = {Instant} \cup {Literal}
    OBVIOUS
  <2> QED BY <2>1, <2>2, <2>3, FS_Subset
<1>3. Cardinality(modes) = 1
  BY DEF OneMode
<1>4. PICK m : modes = {m}
  BY <1>2, <1>3, FS_Singleton
<1>5. \A s \in Existing : Disposition(s, period) # "OUT_OF_SCOPE" => versions[current[s]].mode = m
  BY <1>4 DEF InScope, Disposition
<1>6. \A s \in Existing : Disposition(s, period) \in Dispositions
  BY DEF Disposition, DispositionOf, Dispositions, Included
<1>7. ASSUME NEW p \in CurrentRun(period)
      PROVE  /\ p \in [slice : Slices, version : Nat, disposition : Dispositions]
             /\ p.slice \in Existing /\ p.version = current[p.slice]
             /\ p.disposition = Disposition(p.slice, period)
             /\ p = [slice |-> p.slice, version |-> p.version, disposition |-> p.disposition]
  <2>1. PICK s \in Existing : p = [slice |-> s, version |-> current[s], disposition |-> Disposition(s, period)]
    BY DEF CurrentRun
  <2> PICK n, d : n = current[s] /\ d = Disposition(s, period)
    OBVIOUS
  <2>2. p = [slice |-> s, version |-> n, disposition |-> d] /\ s \in Slices /\ n \in Nat /\ d \in Dispositions
    BY <1>1, <1>6, <2>1
  <2> QED BY <2>2
<1>8. RunFits(CurrentRun(period))
  <2>1. ASSUME NEW p \in CurrentRun(period), NEW q \in CurrentRun(period)
        PROVE  /\ IsVersion(p.version) /\ versions[p.version].slice = p.slice
               /\ "OUT_OF_SCOPE" \notin {p.disposition, q.disposition} =>
                    versions[p.version].mode = versions[q.version].mode
               /\ p.slice = q.slice => p = q
    <3>1. /\ IsVersion(p.version) /\ versions[p.version].slice = p.slice
          /\ "OUT_OF_SCOPE" \notin {p.disposition, q.disposition} =>
               versions[p.version].mode = versions[q.version].mode
      BY <1>1, <1>5, <1>7
    <3>2. p.slice = q.slice => p = q
      BY <1>7
    <3> QED BY <3>1, <3>2
  <2> QED BY <2>1 DEF RunFits
<1> QED BY <1>7, <1>8 DEF Runs

(* A calculation freezes a run of the current versions, or fails.           *)
LEMMA RequestCalculationStep ==
  ASSUME DatasetsInv, UNCHANGED scenario, NEW b \in 1..Len(batches), RequestCalculation(b)
  PROVE  DatasetsInv'
<1>1. TypeOK
  BY DEF DatasetsInv
<1>2. UNCHANGED <<versions, current, acks, counted, published, commit, rollback, resume, moves>>
  BY DEF RequestCalculation
<1>3. /\ batches' \in Seq(BatchRows') /\ Len(batches') = Len(batches)
      /\ KeepsBatches /\ \A c \in 1..Len(batches) : KeepsRun(c)
      /\ \A c \in 1..Len(batches') : c \in 1..Len(batches)
  <2> PICK period : period = batches[b].period
    OBVIOUS
  <2>1. CASE \E code \in {"period", "mixed", "hard"} : SetBatch(b, "FAILED", code)
    <3>1. "FAILED" \in BatchStatus \ NotCommitted /\ {"period", "mixed", "hard"} \subseteq Codes
      BY DEF BatchStatus, Finished, NotCommitted, Codes
    <3> QED BY <1>1, <2>1, <3>1, StatusWritten
  <2>2. CASE /\ OneMode(period)
              /\ batches' = [batches EXCEPT ![b].status = "CALCULATING", ![b].run = <<CurrentRun(period)>>]
    <3> PICK run : run = CurrentRun(period)
      OBVIOUS
    <3>1. run \in Runs /\ RunFits(run)
      BY <1>1, <2>2, CurrentRunFits
    <3> PICK row : row = [batches[b] EXCEPT !.status = "CALCULATING", !.run = <<run>>]
      OBVIOUS
    <3>2. batches[b] \in BatchRows /\ "CALCULATING" \in BatchStatus /\ <<run>> \in Seq(Runs)
      BY <1>1, <3>1, Lengths DEF BatchStatus
    <3>3. /\ row \in BatchRows /\ row.objs = batches[b].objs /\ row.replay = batches[b].replay
          /\ row.closure = batches[b].closure /\ row.status = "CALCULATING" /\ row.run = <<run>>
      BY <3>2 DEF BatchRows
    <3>4. batches' = [batches EXCEPT ![b] = row]
      BY <2>2
    <3> QED BY <1>1, <3>1, <3>3, <3>4, BatchWritten
  <2> QED BY <2>1, <2>2 DEF RequestCalculation
<1> QED BY <1>1, <1>2, <1>3, Typed, Quiet

(* A publication writes a status and the snapshot.                          *)
LEMMA PublishStep ==
  ASSUME DatasetsInv, UNCHANGED scenario, NEW b \in 1..Len(batches), PublishSnapshot(b)
  PROVE  DatasetsInv'
<1>1. TypeOK
  BY DEF DatasetsInv
<1>2. UNCHANGED <<versions, current, acks, counted, commit, rollback, resume, moves>>
  BY DEF PublishSnapshot
<1>3. /\ {"RESULT_PUBLISHED", "READY_FOR_REVIEW"} \subseteq BatchStatus \ NotCommitted
      /\ {"none", "AUTO_PUBLISH_FAILED"} \subseteq Codes
  BY DEF BatchStatus, Finished, NotCommitted, Codes
<1>4. /\ batches' \in Seq(BatchRows') /\ Len(batches') = Len(batches)
      /\ KeepsBatches /\ \A c \in 1..Len(batches) : KeepsRun(c)
      /\ \A c \in 1..Len(batches') : c \in 1..Len(batches)
  BY <1>1, <1>3, StatusWritten DEF PublishSnapshot
<1>5. published' \in Seq(Runs)
  <2>1. batches[b].run \in Seq(Runs)
    BY <1>1, Lengths DEF BatchRows
  <2> QED BY <1>1, <2>1, Typed DEF PublishSnapshot
<1> QED BY <1>1, <1>2, <1>4, <1>5, Typed, Quiet

(* What a replay inherits was earned.                                       *)
LEMMA InheritedEarned ==
  ASSUME TypeOK, NEW b, NEW a \in Inherited(b, versions, current)
  PROVE  a \in [version : Nat, by : {"person", "replay"}] /\ IsVersion(a.version) /\ Earned(a)
<1>1. PICK n \in 1..Len(versions) :
        /\ a = [version |-> n, by |-> "replay"]
        /\ [version |-> versions[n].prev, by |-> "person"] \in acks /\ SameFacts(versions, n)
  BY DEF Inherited
<1>2. n \in Nat
  BY Lengths
<1> QED BY <1>1, <1>2 DEF Earned, SameFacts, IsVersion

(* A resume inherits acknowledgements and writes a status, or does nothing. *)
LEMMA ResumeEndStep ==
  ASSUME DatasetsInv, UNCHANGED scenario, ResumeEnd
  PROVE  DatasetsInv'
<1> PICK b : b = resume[1]
  OBVIOUS
<1>1. TypeOK
  BY DEF DatasetsInv
<1>2. UNCHANGED <<versions, current, counted, published, commit, rollback, moves>> /\ resume # <<>>
  BY DEF ResumeEnd
<1>3. b \in 1..Len(batches)
  <2>1. resume \in AtMostOne(1..Len(batches))
    BY <1>1 DEF TypeOK
  <2> QED BY <1>2, <2>1 DEF AtMostOne
<1>4. \/ ResumeDone(b, Inherited(b, versions, current))
      \/ resume' = <<>> /\ UNCHANGED <<batches, acks>>
  BY DEF ResumeEnd, ResumeRefused
<1>5. <<>> \in AtMostOne(1..Len(batches))
  BY DEF AtMostOne
<1>6. CASE ResumeDone(b, Inherited(b, versions, current))
  <2>1. SetBatch(b, "COMMITTED", "none") /\ "COMMITTED" \in BatchStatus \ NotCommitted /\ "none" \in Codes
    BY <1>6 DEF ResumeDone, BatchStatus, NotCommitted, Codes
  <2>2. acks' = acks \cup Inherited(b, versions, current) /\ resume' = <<>>
    BY <1>6 DEF ResumeDone
  <2>3. acks \subseteq acks'
        /\ \A a \in acks' : a \in acks
             \/ (a \in [version : Nat, by : {"person", "replay"}] /\ IsVersion(a.version) /\ Earned(a))
    BY <1>1, <2>2, InheritedEarned
  <2> QED BY <1>1, <1>2, <1>3, <1>5, <2>1, <2>2, <2>3, StatusWritten, Typed, Quiet
<1>7. CASE resume' = <<>> /\ UNCHANGED <<batches, acks>>
  BY <1>1, <1>2, <1>5, <1>7, BatchesAlone, Typed, Quiet
<1> QED BY <1>4, <1>6, <1>7

(* A commit that fails writes a status.                                     *)
LEMMA CommitFailsStep ==
  ASSUME DatasetsInv, UNCHANGED scenario, NEW b \in 1..Len(batches), NEW code \in {"closure", "unusable"},
         CommitFails(b, code), commit' = [commit EXCEPT ![b] = "idle"], UNCHANGED <<published, rollback, resume, moves>>
  PROVE  DatasetsInv'
<1>1. TypeOK
  BY DEF DatasetsInv
<1>2. SetBatch(b, "FAILED", code) /\ "FAILED" \in BatchStatus \ NotCommitted /\ code \in Codes
  BY DEF CommitFails, BatchStatus, Finished, NotCommitted, Codes
<1>3. UNCHANGED <<versions, current, acks, counted>>
  BY DEF CommitFails
<1>4. commit' \in [1..MaxBatches -> {"idle", "copied", "locked"}]
  BY <1>1, Typed
<1> QED BY <1>1, <1>2, <1>3, <1>4, StatusWritten, Typed, Quiet

-----------------------------------------------------------------------------
(* A commit makes its versions.                                             *)

KeepsVersion(v) ==
  /\ versions'[v].slice = versions[v].slice /\ versions'[v].batch = versions[v].batch
  /\ versions'[v].mode = versions[v].mode /\ versions'[v].facts = versions[v].facts
  /\ versions'[v].prev = versions[v].prev

(* The slices a commit writes, in order.                                    *)
Written(b) == InOrder(Touched(batches[b].objs, Stage(batches[b].objs, Literal)))
NewVersion(b, i) ==
  Version(Written(b)[i], b, Literal, Stage(batches[b].objs, Literal)[Written(b)[i]], current[Written(b)[i]])

(* The slices a commit writes: each once, all that have a staged row.       *)
LEMMA WrittenSlices ==
  ASSUME TypeOK, NEW b \in 1..Len(batches)
  PROVE  /\ Written(b) \in Seq(Slices) /\ Len(Written(b)) \in Nat
         /\ \A i \in 1..Len(Written(b)) : Written(b)[i] \in Slices
         /\ \A i, j \in 1..Len(Written(b)) : Written(b)[i] = Written(b)[j] => i = j
         /\ \A s \in Slices : Stage(batches[b].objs, Literal)[s] # {} => \E i \in 1..Len(Written(b)) : Written(b)[i] = s
<1> PICK T : T = Touched(batches[b].objs, Stage(batches[b].objs, Literal))
  OBVIOUS
<1>1. T \subseteq Slices
  BY DEF Touched, Replayed
<1>2. \A s \in Slices : Stage(batches[b].objs, Literal)[s] # {} => s \in T
  BY DEF Touched
<1>3. IsFiniteSet(T)
  BY <1>1, FS_Subset, DatasetsAssumption
<1>4. Written(b) = InOrder(T)
  BY DEF Written
<1>5. /\ Written(b) \in Seq(T)
      /\ \A x \in T : \E i \in 1..Len(Written(b)) : Written(b)[i] = x
      /\ \A i, j \in 1..Len(Written(b)) : Written(b)[i] = Written(b)[j] => i = j
  BY <1>3, <1>4, InOrderLists
<1>6. Len(Written(b)) \in Nat /\ \A i \in 1..Len(Written(b)) : Written(b)[i] \in T
  BY <1>5, LenProperties, ElementOfSeq
<1>7. Written(b) \in Seq(Slices)
  BY <1>1, <1>5, SeqMonotonic
<1> QED BY <1>1, <1>2, <1>5, <1>6, <1>7

(* Superseding changes the status of a version and nothing else.            *)
LEMMA SupersededKeeps ==
  ASSUME TypeOK, NEW set
  PROVE  /\ Superseded(set) \in Seq(VersionRows) /\ Len(Superseded(set)) = Len(versions)
         /\ \A v \in 1..Len(versions) :
              /\ Superseded(set)[v].slice = versions[v].slice /\ Superseded(set)[v].batch = versions[v].batch
              /\ Superseded(set)[v].mode = versions[v].mode /\ Superseded(set)[v].facts = versions[v].facts
              /\ Superseded(set)[v].prev = versions[v].prev
<1> PICK f, n : f = Superseded(set) /\ n = Len(versions)
  OBVIOUS
<1>1. n \in Nat /\ \A v \in 1..n : versions[v] \in VersionRows
  BY Lengths
<1>2. ASSUME NEW v \in 1..n
      PROVE  /\ f[v] \in VersionRows
             /\ f[v].slice = versions[v].slice /\ f[v].batch = versions[v].batch
             /\ f[v].mode = versions[v].mode /\ f[v].facts = versions[v].facts /\ f[v].prev = versions[v].prev
  <2>1. f[v] = versions[v] \/ f[v] = [versions[v] EXCEPT !.status = "SUPERSEDED"]
    BY DEF Superseded
  <2>2. versions[v] \in VersionRows
    BY <1>1
  <2> QED BY ONLY <2>1, <2>2 DEF VersionRows
<1>3. DOMAIN f = 1..n /\ f = [v \in 1..n |-> f[v]]
  BY DEF Superseded
<1>4. f \in [1..n -> VersionRows]
  BY <1>2, <1>3
<1>5. f \in Seq(VersionRows) /\ Len(f) = n
  BY <1>1, <1>4, FunctionIsSeq
<1> QED BY <1>2, <1>5

(* A commit appends one version for each slice it writes.                   *)
LEMMA VersionsMade ==
  ASSUME TypeOK, NEW b \in 1..Len(batches), MaterializeImportSlices(b)
  PROVE  /\ versions' \in Seq(VersionRows) /\ Len(versions') = Len(versions) + Len(Written(b))
         /\ \A v \in 1..Len(versions) : KeepsVersion(v)
         /\ \A i \in 1..Len(Written(b)) : versions'[Len(versions) + i] = NewVersion(b, i)
         /\ \A i \in 1..Len(Written(b)) : NewVersion(b, i).prev \in 0..Len(versions)
<1> PICK objs, stage, seq, n :
      objs = batches[b].objs /\ stage = Stage(objs, Literal) /\ seq = Written(b) /\ n = Len(versions)
  OBVIOUS
<1> PICK old, new : old = Superseded(Touched(objs, stage)) /\ new = NewVersions(seq, b, Literal, stage, current)
  OBVIOUS
<1>1. versions' = old \o new
  BY DEF MaterializeImportSlices, Written
<1>2. old \in Seq(VersionRows) /\ Len(old) = n
  BY SupersededKeeps
<1>3. n \in Nat /\ Len(seq) \in Nat /\ \A i \in 1..Len(seq) : seq[i] \in Slices
  BY Lengths, WrittenSlices
<1>4. ASSUME NEW i \in 1..Len(seq)
      PROVE  new[i] \in VersionRows /\ new[i] = NewVersion(b, i) /\ new[i].prev \in 0..n
  <2> PICK s, facts, prev : s = seq[i] /\ facts = stage[s] /\ prev = current[s]
    OBVIOUS
  <2>1. s \in Slices /\ facts \in SUBSET DOMAIN Rows
    BY <1>3 DEF Stage
  <2>2. prev \in Nat /\ prev \in 0..n
    BY <1>3, <2>1, Typed DEF IsVersion
  <2>3. b \in Nat \ {0}
    BY Lengths
  <2>4. new[i] = Version(s, b, Literal, facts, prev)
    BY <1>3 DEF NewVersions
  <2>5. Version(s, b, Literal, facts, prev) \in VersionRows /\ Version(s, b, Literal, facts, prev).prev = prev
    BY <2>1, <2>2, <2>3 DEF Version, VersionRows
  <2> QED BY <2>2, <2>4, <2>5 DEF NewVersion
<1>5. new \in [1..Len(seq) -> VersionRows]
  <2>1. new = [i \in 1..Len(seq) |-> new[i]]
    BY DEF NewVersions
  <2> QED BY <1>4, <2>1
<1>6. new \in Seq(VersionRows) /\ Len(new) = Len(seq)
  BY <1>3, <1>5, FunctionIsSeq
<1>7. /\ versions' \in Seq(VersionRows) /\ Len(versions') = n + Len(seq)
      /\ \A v \in 1..(n + Len(seq)) : versions'[v] = IF v <= n THEN old[v] ELSE new[v - n]
  <2>1. /\ old \o new \in Seq(VersionRows) /\ Len(old \o new) = Len(old) + Len(new)
        /\ \A v \in 1..(Len(old) + Len(new)) :
             (old \o new)[v] = IF v <= Len(old) THEN old[v] ELSE new[v - Len(old)]
    BY ONLY <1>2, <1>6, ConcatProperties
  <2>2. Len(old) = n /\ Len(new) = Len(seq)
    BY <1>2, <1>6
  <2> QED BY ONLY <1>1, <2>1, <2>2
<1>8. ASSUME NEW v \in 1..n PROVE KeepsVersion(v)
  <2>1. versions'[v] = old[v]
    BY <1>3, <1>7
  <2> QED BY <2>1, SupersededKeeps DEF KeepsVersion
<1>9. ASSUME NEW i \in 1..Len(seq) PROVE versions'[n + i] = NewVersion(b, i)
  <2>1. n + i \in 1..(n + Len(seq)) /\ ~(n + i <= n) /\ (n + i) - n = i
    BY <1>3
  <2>2. versions'[n + i] = new[i]
    BY <1>7, <2>1
  <2> QED BY <1>4, <2>2
<1>10. \A i \in 1..Len(seq) : NewVersion(b, i).prev \in 0..n
  BY <1>4
<1> QED BY <1>7, <1>8, <1>9, <1>10

(* A version that is new is one of those written; the pointers select them. *)
LEMMA VersionAfter ==
  ASSUME TypeOK, NEW b \in 1..Len(batches), MaterializeImportSlices(b), NEW v \in 1..Len(versions'),
         v \notin 1..Len(versions)
  PROVE  \E i \in 1..Len(Written(b)) : v = Len(versions) + i /\ versions'[v] = NewVersion(b, i)
<1> PICK n, k : n = Len(versions) /\ k = Len(Written(b))
  OBVIOUS
<1>1. n \in Nat /\ k \in Nat /\ v \in 1..(n + k) /\ v \notin 1..n
  BY Lengths, WrittenSlices, VersionsMade
<1>2. (v - n) \in 1..k /\ v = n + (v - n)
  BY ONLY <1>1
<1>3. versions'[n + (v - n)] = NewVersion(b, v - n)
  BY <1>2, VersionsMade
<1> QED BY <1>2, <1>3

(* The pointers of a commit select a version of their slice.                *)
LEMMA PointersMoved ==
  ASSUME TypeOK, NEW b \in 1..Len(batches), MaterializeImportSlices(b)
  PROVE  /\ current' \in [Slices -> Nat]
         /\ \A s \in Slices : current'[s] # 0 => IsVersion(current[s])' /\ versions'[current'[s]].slice = s
<1> PICK n, seq : n = Len(versions) /\ seq = Written(b)
  OBVIOUS
<1>1. current' = Pointers(seq, n, current)
  BY DEF MaterializeImportSlices, Written
<1>2. n \in Nat /\ Len(seq) \in Nat /\ Len(versions') = n + Len(seq)
  BY Lengths, WrittenSlices, VersionsMade
<1>3. ASSUME NEW s \in Slices
      PROVE  /\ current'[s] \in Nat
             /\ current'[s] # 0 => current'[s] \in 1..Len(versions') /\ versions'[current'[s]].slice = s
  <2>1. CASE Contains(seq, s)
    <3> PICK i : i = CHOOSE j \in 1..Len(seq) : seq[j] = s
      OBVIOUS
    <3>1. i \in 1..Len(seq) /\ seq[i] = s
      BY <2>1 DEF Contains
    <3>2. current'[s] = n + i
      BY <1>1, <2>1 DEF Pointers
    <3>3. versions'[n + i].slice = s
      <4>1. i \in 1..Len(Written(b)) /\ Written(b)[i] = s
        BY <3>1
      <4>2. versions'[n + i] = NewVersion(b, i)
        BY <4>1, VersionsMade
      <4> QED BY <4>1, <4>2 DEF NewVersion, Version
    <3>4. n + i \in Nat /\ n + i \in 1..(n + Len(seq))
      BY ONLY <1>2, <3>1
    <3> QED BY <1>2, <3>2, <3>3, <3>4
  <2>2. CASE ~Contains(seq, s)
    <3>1. current'[s] = current[s]
      BY <1>1, <2>2 DEF Pointers
    <3>2. current[s] \in Nat /\ (current[s] # 0 => current[s] \in 1..n /\ versions[current[s]].slice = s)
      BY Typed DEF IsVersion
    <3>3. current[s] # 0 => versions'[current[s]].slice = s
      BY <3>2, VersionsMade DEF KeepsVersion
    <3> QED BY <1>2, <3>1, <3>2, <3>3
  <2> QED BY <2>1, <2>2
<1>4. current' = [s \in Slices |-> current'[s]]
  BY <1>1 DEF Pointers
<1> QED BY <1>3, <1>4 DEF IsVersion

(* Acknowledgements a commit inherits are earned.                           *)
LEMMA AcksMade ==
  ASSUME TypeOK, AcknowledgementsEarned, NEW b \in 1..Len(batches), MaterializeImportSlices(b)
  PROVE  /\ acks' \subseteq [version : Nat, by : {"person", "replay"}]
         /\ \A a \in acks' : IsVersion(a.version)' /\ Earned(a)'
<1>1. /\ Len(versions) \in Nat /\ Len(versions') \in Nat /\ Len(versions) <= Len(versions')
  BY Lengths, WrittenSlices, VersionsMade
<1>2. acks' = acks \cup Inherited(b, versions', current') /\ acks \subseteq acks'
  BY DEF MaterializeImportSlices
<1>3. ASSUME NEW a \in acks
      PROVE  /\ a \in [version : Nat, by : {"person", "replay"}]
             /\ IsVersion(a.version)' /\ Earned(a)'
  <2>1. a \in [version : Nat, by : {"person", "replay"}] /\ a.version \in 1..Len(versions)
    BY DEF TypeOK, IsVersion
  <2>2. KeepsVersion(a.version)
    BY <2>1, VersionsMade
  <2>3. CASE a.by = "person"
    BY <1>1, <2>1, <2>3 DEF Earned, IsVersion
  <2>4. CASE a.by # "person"
    <3> PICK p : p = versions[a.version].prev
      OBVIOUS
    <3>1. [version |-> p, by |-> "person"] \in acks /\ versions[a.version].facts = versions[p].facts
      BY <2>4 DEF AcknowledgementsEarned
    <3>2. p \in 1..Len(versions)
      BY <3>1 DEF TypeOK, IsVersion
    <3>3. KeepsVersion(p)
      BY <3>2, VersionsMade
    <3>4. versions'[a.version].prev = p /\ versions'[a.version].facts = versions'[p].facts
      BY <2>2, <3>1, <3>3 DEF KeepsVersion
    <3>5. Earned(a)'
      BY <1>2, <3>1, <3>4 DEF Earned
    <3> QED BY <1>1, <2>1, <3>5 DEF IsVersion
  <2> QED BY <2>3, <2>4
<1>4. ASSUME NEW a \in Inherited(b, versions', current')
      PROVE  /\ a \in [version : Nat, by : {"person", "replay"}]
             /\ IsVersion(a.version)' /\ Earned(a)'
  <2>1. PICK m \in 1..Len(versions') :
          /\ a = [version |-> m, by |-> "replay"]
          /\ [version |-> versions'[m].prev, by |-> "person"] \in acks /\ SameFacts(versions', m)
    BY <1>4 DEF Inherited
  <2>2. m \in Nat
    BY <1>1
  <2>3. versions'[m].facts = versions'[versions'[m].prev].facts
    BY <2>1 DEF SameFacts
  <2> QED BY <1>2, <2>1, <2>2, <2>3 DEF Earned, IsVersion
<1> QED BY <1>2, <1>3, <1>4

(* A commit leaves the tables well typed.                                   *)
LEMMA TypeMade ==
  ASSUME DatasetsInv, UNCHANGED <<scenario, published, rollback, resume, moves>>,
         NEW b \in 1..Len(batches), MaterializeImportSlices(b), commit' = [commit EXCEPT ![b] = "idle"]
  PROVE  /\ TypeOK' /\ Len(batches') = Len(batches)
         /\ KeepsBatches /\ batches'[b].status = "COMMITTED"
         /\ \A c \in 1..Len(batches) : batches'[c].run = batches[c].run
<1>1. TypeOK /\ AcknowledgementsEarned
  BY DEF DatasetsInv
<1>2. SetBatch(b, "COMMITTED", "none") /\ "COMMITTED" \in BatchStatus \ NotCommitted /\ "none" \in Codes
  BY DEF MaterializeImportSlices, BatchStatus, NotCommitted, Codes
<1>3. batches' \in Seq(BatchRows') /\ Len(batches') = Len(batches) /\ KeepsBatches
  BY <1>1, <1>2, StatusWritten
<1>4. /\ batches'[b].status = "COMMITTED" /\ \A c \in 1..Len(batches) : batches'[c].run = batches[c].run
  <2> PICK row : row = [batches[b] EXCEPT !.status = "COMMITTED", !.code = "none"]
    OBVIOUS
  <2>1. batches[b] \in BatchRows /\ batches \in Seq(BatchRows)
    BY <1>1, Lengths DEF TypeOK
  <2>2. row \in BatchRows /\ row.status = "COMMITTED" /\ row.run = batches[b].run
    BY <1>2, <2>1 DEF BatchRows
  <2>3. batches' = [batches EXCEPT ![b] = row]
    BY <1>2 DEF SetBatch
  <2>4. \A c \in 1..Len(batches) : batches'[c] = IF c = b THEN row ELSE batches[c]
    BY <2>1, <2>2, <2>3, ExceptSeq
  <2> QED BY <2>2, <2>4
<1>5. /\ Len(batches) \in Nat /\ Len(versions) \in Nat /\ Len(Written(b)) \in Nat
      /\ Len(versions') = Len(versions) + Len(Written(b))
  BY <1>1, Lengths, WrittenSlices, VersionsMade
<1>6. ASSUME NEW v \in 1..Len(versions') PROVE versions'[v].batch <= Len(batches') /\ versions'[v].prev < v
  <2>1. CASE v \in 1..Len(versions)
    <3>1. KeepsVersion(v)
      BY <1>1, <2>1, VersionsMade
    <3>2. versions[v].batch <= Len(batches) /\ versions[v].prev < v
      BY <1>1, <2>1 DEF TypeOK
    <3> QED BY <1>3, <3>1, <3>2 DEF KeepsVersion
  <2>2. CASE v \notin 1..Len(versions)
    <3>1. PICK i \in 1..Len(Written(b)) : v = Len(versions) + i /\ versions'[v] = NewVersion(b, i)
      BY <1>1, <2>2, VersionAfter
    <3>2. versions'[v].batch = b
      BY <3>1 DEF NewVersion, Version
    <3>3. versions'[v].prev \in 0..Len(versions)
      BY <1>1, <3>1, VersionsMade
    <3> QED BY <1>3, <1>5, <3>1, <3>2, <3>3
  <2> QED BY <2>1, <2>2
<1>7. MaxBatches' = MaxBatches /\ MaxMoves' = MaxMoves /\ Runs' = Runs /\ VersionRows' = VersionRows
  BY DEF MaxBatches, MaxMoves, Runs, Dispositions, VersionRows
<1>8. rollback' \in AtMostOne(1..Len(versions')) /\ resume' \in AtMostOne(1..Len(batches'))
  <2>1. rollback \in AtMostOne(1..Len(versions)) /\ resume \in AtMostOne(1..Len(batches))
    BY <1>1, Typed
  <2>2. 1..Len(versions) \subseteq 1..Len(versions')
    BY <1>5
  <2> QED BY <1>3, <2>1, <2>2 DEF AtMostOne
<1>9. current' \in [Slices -> Nat] /\ \A s \in Existing' : IsVersion(current[s])' /\ versions'[current'[s]].slice = s
  BY <1>1, PointersMoved DEF Existing
<1>10. acks' \subseteq [version : Nat, by : {"person", "replay"}] /\ \A a \in acks' : IsVersion(a.version)'
  BY <1>1, AcksMade
<1>11. versions' \in Seq(VersionRows')
  BY <1>1, <1>7, VersionsMade
<1>12. /\ commit' \in [1..MaxBatches' -> {"idle", "copied", "locked"}] /\ published' \in Seq(Runs')
       /\ moves' \in 0..MaxMoves' /\ scenario' \in Scenarios /\ Len(batches') <= MaxBatches'
  BY <1>1, <1>3, <1>7, Typed DEF TypeOK
<1>13. TypeOK'
  BY <1>3, <1>6, <1>8, <1>9, <1>10, <1>11, <1>12 DEF TypeOK
<1> QED BY <1>3, <1>4, <1>13

(* The rest of the invariant after a commit: its batch had no version and   *)
(* no count before.                                                         *)
LEMMA CommitStepKeeps ==
  ASSUME DatasetsInv, UNCHANGED <<scenario, published, rollback, resume, moves>>,
         NEW b \in 1..Len(batches), batches[b].status = "COMMITTING", ClosureCurrent(b),
         MaterializeImportSlices(b), commit' = [commit EXCEPT ![b] = "idle"]
  PROVE  DatasetsInv'
<1>1. /\ TypeOK /\ VersionsExact /\ CountsFit /\ RunsFit /\ ClosuresOld
      /\ ReplayNeverOverwritesNewer /\ AcknowledgementsEarned
  BY DEF DatasetsInv
<1>2. /\ TypeOK' /\ Len(batches') = Len(batches) /\ KeepsBatches /\ batches'[b].status = "COMMITTED"
      /\ \A c \in 1..Len(batches) : batches'[c].run = batches[c].run
  BY TypeMade
<1>3. /\ Len(batches) \in Nat /\ Len(versions) \in Nat /\ Len(versions') \in Nat
      /\ \A v \in 1..Len(versions) : v \in 1..Len(versions') /\ KeepsVersion(v)
  BY <1>1, Lengths, WrittenSlices, VersionsMade
<1>4. \A c \in 1..Len(batches) : KeepsBatch(c)
  BY <1>2 DEF KeepsBatches
<1>5. \A v \in 1..Len(versions) : versions[v].batch \in 1..Len(batches) /\ versions[v].batch # b
  BY <1>1, Lengths DEF VersionsExact
<1>6. ASSUME NEW v \in 1..Len(versions'), v \notin 1..Len(versions)
      PROVE  \E i \in 1..Len(Written(b)) :
               /\ v = Len(versions) + i /\ versions'[v].batch = b /\ versions'[v].mode = Literal
               /\ versions'[v].slice = Written(b)[i] /\ versions'[v].prev = current[Written(b)[i]]
               /\ versions'[v].facts = Stage(batches[b].objs, Literal)[Written(b)[i]]
  <2>1. PICK i \in 1..Len(Written(b)) : v = Len(versions) + i /\ versions'[v] = NewVersion(b, i)
    BY <1>1, <1>6, VersionAfter
  <2> PICK s, facts, prev :
        s = Written(b)[i] /\ facts = Stage(batches[b].objs, Literal)[s] /\ prev = current[s]
    OBVIOUS
  <2>2. versions'[v] = Version(s, b, Literal, facts, prev)
    BY <2>1 DEF NewVersion
  <2>3. /\ versions'[v].batch = b /\ versions'[v].mode = Literal /\ versions'[v].slice = s
        /\ versions'[v].prev = prev /\ versions'[v].facts = facts
    BY <2>2 DEF Version
  <2> QED BY <2>1, <2>3
<1>7. VersionsExact'
  <2>1. ASSUME NEW v \in 1..Len(versions')
        PROVE  /\ versions'[v].facts = Staged(v)' /\ batches'[versions'[v].batch].status # "COMMITTING"
               /\ \A w \in 1..Len(versions') :
                    versions'[w].batch = versions'[v].batch /\ versions'[w].slice = versions'[v].slice => w = v
    <3>1. CASE v \in 1..Len(versions)
      <4>1. KeepsVersion(v) /\ versions'[v].batch \in 1..Len(batches) /\ versions'[v].batch # b
        BY <1>3, <1>5, <3>1 DEF KeepsVersion
      <4>2. KeepsBatch(versions'[v].batch)
        BY <1>4, <4>1
      <4>3. versions'[v].facts = Staged(v)' /\ batches'[versions'[v].batch].status # "COMMITTING"
        BY <1>1, <3>1, <4>1, <4>2 DEF KeepsVersion, KeepsBatch, VersionsExact, Staged
      <4>4. ASSUME NEW w \in 1..Len(versions'), versions'[w].batch = versions'[v].batch,
                   versions'[w].slice = versions'[v].slice
            PROVE  w = v
        <5>1. w \in 1..Len(versions)
          BY <1>6, <4>1, <4>4
        <5> QED BY <1>1, <1>3, <3>1, <4>1, <4>4, <5>1 DEF KeepsVersion, VersionsExact
      <4> QED BY <4>3, <4>4
    <3>2. CASE v \notin 1..Len(versions)
      <4>1. PICK i \in 1..Len(Written(b)) :
               /\ v = Len(versions) + i /\ versions'[v].batch = b /\ versions'[v].mode = Literal
               /\ versions'[v].slice = Written(b)[i]
               /\ versions'[v].facts = Stage(batches[b].objs, Literal)[Written(b)[i]]
        BY <1>6, <3>2
      <4>2. batches'[b].objs = batches[b].objs
        BY <1>4 DEF KeepsBatch
      <4>3. versions'[v].facts = Staged(v)' /\ batches'[versions'[v].batch].status # "COMMITTING"
        BY <1>2, <4>1, <4>2 DEF Staged
      <4>4. ASSUME NEW w \in 1..Len(versions'), versions'[w].batch = versions'[v].batch,
                   versions'[w].slice = versions'[v].slice
            PROVE  w = v
        <5>1. w \notin 1..Len(versions)
          BY <1>3, <1>5, <4>1, <4>4 DEF KeepsVersion
        <5>2. PICK j \in 1..Len(Written(b)) : w = Len(versions) + j /\ versions'[w].slice = Written(b)[j]
          BY <1>6, <5>1
        <5>3. i = j
          BY <1>1, <4>1, <4>4, <5>2, WrittenSlices
        <5> QED BY <4>1, <5>2, <5>3
      <4> QED BY <4>3, <4>4
    <3> QED BY <3>1, <3>2
  <2> QED BY <2>1 DEF VersionsExact
<1>8. CountsFit'
  <2>1. ASSUME NEW c \in counted' PROVE CountFits(c)'
    <3>1. CASE c \in counted
      <4>1. CountFits(c)
        BY <1>1, <3>1 DEF CountsFit
      <4>2. c.batch \in 1..Len(batches) /\ c.batch # b /\ KeepsBatch(c.batch)
        BY <1>4, <4>1 DEF CountFits
      <4>3. /\ c.batch \in 1..Len(batches') /\ batches'[c.batch].status # "COMMITTING"
            /\ c \in Counters(c.batch, batches'[c.batch].objs)
        BY <1>2, <4>1, <4>2 DEF CountFits, KeepsBatch
      <4>4. ASSUME NEW v \in 1..Len(versions'), versions'[v].batch = c.batch PROVE versions'[v].mode = Literal
        <5>1. v \in 1..Len(versions)
          BY <1>6, <4>2, <4>4
        <5> QED BY <1>3, <4>1, <4>4, <5>1 DEF CountFits, KeepsVersion
      <4>5. ASSUME NEW s \in Slices, Stage(batches'[c.batch].objs, Literal)[s] # {}
            PROVE  \E v \in 1..Len(versions') : versions'[v].batch = c.batch /\ versions'[v].slice = s
        <5>1. Stage(batches[c.batch].objs, Literal)[s] # {}
          BY <4>2, <4>5 DEF KeepsBatch
        <5>2. PICK v \in 1..Len(versions) : versions[v].batch = c.batch /\ versions[v].slice = s
          BY <4>1, <5>1 DEF CountFits
        <5> QED BY <1>3, <5>2 DEF KeepsVersion
      <4> QED BY <4>3, <4>4, <4>5 DEF CountFits
    <3>2. CASE c \in Counters(b, batches[b].objs)
      <4>1. c.batch = b
        BY <3>2, CounterOf
      <4>2. batches'[b].objs = batches[b].objs
        BY <1>4 DEF KeepsBatch
      <4>3. /\ c.batch \in 1..Len(batches') /\ batches'[c.batch].status # "COMMITTING"
            /\ c \in Counters(c.batch, batches'[c.batch].objs)
        BY <1>2, <3>2, <4>1, <4>2
      <4>4. ASSUME NEW v \in 1..Len(versions'), versions'[v].batch = c.batch PROVE versions'[v].mode = Literal
        <5>1. v \notin 1..Len(versions)
          BY <1>3, <1>5, <4>1, <4>4 DEF KeepsVersion
        <5> QED BY <1>6, <5>1
      <4>5. ASSUME NEW s \in Slices, Stage(batches'[c.batch].objs, Literal)[s] # {}
            PROVE  \E v \in 1..Len(versions') : versions'[v].batch = c.batch /\ versions'[v].slice = s
        <5>1. PICK i \in 1..Len(Written(b)) : Written(b)[i] = s
          BY <1>1, <4>1, <4>2, <4>5, WrittenSlices
        <5>2. versions'[Len(versions) + i].batch = b /\ versions'[Len(versions) + i].slice = s
          <6>1. versions'[Len(versions) + i] = NewVersion(b, i)
            BY <1>1, VersionsMade
          <6> QED BY <5>1, <6>1 DEF NewVersion, Version
        <5>3. Len(versions) + i \in 1..Len(versions')
          <6>1. Len(versions') = Len(versions) + Len(Written(b)) /\ Len(Written(b)) \in Nat
            BY <1>1, VersionsMade, WrittenSlices
          <6> QED BY <1>3, <5>1, <6>1
        <5> QED BY <4>1, <5>2, <5>3
      <4> QED BY <4>3, <4>4, <4>5 DEF CountFits
    <3>3. counted' = counted \cup Counters(b, batches[b].objs)
      BY DEF MaterializeImportSlices
    <3> QED BY <3>1, <3>2, <3>3
  <2> QED BY <2>1 DEF CountsFit
<1>9. RunsFit'
  <2>1. ASSUME NEW c \in 1..Len(batches'), NEW i \in 1..Len(batches'[c].run) PROVE RunFits(batches[c].run[i])'
    <3> PICK run : run = batches'[c].run[i]
      OBVIOUS
    <3>1. run = batches[c].run[i] /\ RunFits(run)
      BY <1>1, <1>2 DEF RunsFit
    <3>2. \A p \in run : p.version \in 1..Len(versions) /\ p.version \in 1..Len(versions') /\ KeepsVersion(p.version)
      BY <1>3, <3>1 DEF RunFits, IsVersion
    <3>3. RunFits(run)'
      BY <3>1, <3>2 DEF RunFits, IsVersion, KeepsVersion
    <3> QED BY <3>3 DEF RunFits, IsVersion
  <2> QED BY <2>1 DEF RunsFit
<1>10. ClosuresOld'
  <2>1. ASSUME NEW c \in 1..Len(batches'), NEW x \in batches'[c].closure
        PROVE  x[1] \in 1..Len(versions') /\ versions'[x[1]].batch < c
    <3>1. x[1] \in 1..Len(versions) /\ versions[x[1]].batch < c
      BY <1>1, <1>2, <1>4, <2>1 DEF ClosuresOld, KeepsBatch, IsVersion
    <3> QED BY <1>3, <3>1 DEF KeepsVersion
  <2> QED BY <2>1 DEF ClosuresOld, IsVersion
<1>11. ReplayNeverOverwritesNewer'
  <2>1. ASSUME NEW v \in 1..Len(versions'), batches'[versions'[v].batch].replay,
               versions'[v].prev # 0, versions'[versions'[v].prev].facts # {}
        PROVE  versions'[versions'[v].prev].batch < versions'[v].batch
    <3>1. CASE v \in 1..Len(versions)
      <4>1. KeepsVersion(v) /\ KeepsBatch(versions[v].batch)
        BY <1>3, <1>4, <1>5, <3>1
      <4>2. versions[v].prev \in 1..Len(versions)
        <5>1. versions[v].prev \in 0..(v - 1) /\ versions[v].prev # 0
          BY <1>1, <2>1, <3>1, <4>1, Lengths DEF KeepsVersion
        <5> QED BY <1>3, <3>1, <5>1
      <4>3. KeepsVersion(versions[v].prev)
        BY <1>3, <4>2
      <4>4. batches[versions[v].batch].replay /\ versions[v].prev # 0 /\ versions[versions[v].prev].facts # {}
        BY <2>1, <4>1, <4>3 DEF KeepsVersion, KeepsBatch
      <4>5. versions[versions[v].prev].batch < versions[v].batch
        BY <1>1, <3>1, <4>4 DEF ReplayNeverOverwritesNewer
      <4> QED BY <4>1, <4>3, <4>5 DEF KeepsVersion
    <3>2. CASE v \notin 1..Len(versions)
      <4>1. PICK i \in 1..Len(Written(b)) : versions'[v].batch = b /\ versions'[v].prev = current[Written(b)[i]]
        BY <1>6, <3>2
      <4> PICK s, p : s = Written(b)[i] /\ p = current[s]
        OBVIOUS
      <4>2. s \in Slices /\ p # 0 /\ p \in 1..Len(versions) /\ s \in Existing
        BY <1>1, <2>1, <4>1, WrittenSlices, Typed DEF IsVersion, Existing
      <4>3. KeepsVersion(p) /\ versions[p].facts # {}
        BY <1>3, <2>1, <4>1, <4>2 DEF KeepsVersion
      <4>4. PICK r : r \in versions[p].facts
        BY <4>3
      <4>5. Rows[r].obj \in Bound(Facts(s))
        BY <4>2, <4>4 DEF Facts, Bound
      <4> PICK x : x = <<p, Rows[r].obj>>
        OBVIOUS
      <4>6. x \in Closure
        BY <4>2, <4>5 DEF Closure
      <4>7. batches[b].replay
        BY <1>4, <2>1, <4>1 DEF KeepsBatch
      <4>8. x \in batches[b].closure
        BY <4>6, <4>7 DEF ClosureCurrent
      <4>9. versions[p].batch < b
        <5>1. versions[x[1]].batch < b
          BY <1>1, <4>8 DEF ClosuresOld
        <5> QED BY <5>1
      <4> QED BY <4>1, <4>3, <4>9 DEF KeepsVersion
    <3> QED BY <3>1, <3>2
  <2> QED BY <2>1 DEF ReplayNeverOverwritesNewer
<1>12. AcknowledgementsEarned'
  BY <1>1, AcksMade DEF AcknowledgementsEarned, Earned
<1> QED BY <1>2, <1>7, <1>8, <1>9, <1>10, <1>11, <1>12 DEF DatasetsInv

-----------------------------------------------------------------------------
(* A commit under way is of a batch that waits for it.                      *)
HeldCommitting ==
  \A b \in 1..MaxBatches : commit[b] # "idle" => b \in 1..Len(batches) /\ batches[b].status = "COMMITTING"

(* A batch that is appended is held by nobody.                              *)
LEMMA HeldAppend ==
  ASSUME TypeOK, HeldCommitting, UNCHANGED scenario, NEW row, batches' = Append(batches, row), commit' = commit
  PROVE  HeldCommitting'
<1>1. batches \in Seq(BatchRows) /\ Len(batches) \in Nat /\ MaxBatches' = MaxBatches
  BY Lengths DEF TypeOK, MaxBatches
<1>2. batches \in Seq(BatchRows \cup {row}) /\ row \in BatchRows \cup {row}
  BY <1>1, SeqMonotonic
<1>3. /\ Len(batches') = Len(batches) + 1
      /\ \A b \in 1..Len(batches) : batches'[b] = batches[b]
  BY <1>2, AppendProperties
<1> QED BY <1>1, <1>3 DEF HeldCommitting

(* Only a batch that is committing is held, and only its own commit ends it.*)
LEMMA HeldStep ==
  ASSUME TypeOK, HeldCommitting, UNCHANGED scenario, Step
  PROVE  HeldCommitting'
<1>1. /\ batches \in Seq(BatchRows) /\ Len(batches) \in Nat /\ Len(batches) <= MaxBatches
      /\ MaxBatches' = MaxBatches /\ MaxBatches \in Nat
      /\ DOMAIN batches = 1..Len(batches) /\ DOMAIN commit = 1..MaxBatches
  BY Lengths, Typed DEF TypeOK, MaxBatches
<1>2. ASSUME UNCHANGED <<batches, commit>> PROVE HeldCommitting'
  BY <1>1, <1>2 DEF HeldCommitting
<1>4. ASSUME NEW b \in 1..Len(batches), batches[b].status # "COMMITTING" \/ commit'[b] = "idle",
             NEW row, batches' = [batches EXCEPT ![b] = row],
             \A c \in 1..MaxBatches : c # b => commit'[c] = commit[c], commit'[b] = commit[b] \/ commit'[b] = "idle"
      PROVE  HeldCommitting'
  <2>1. \A c \in 1..Len(batches) : c # b => batches'[c] = batches[c]
    BY <1>1, <1>4
  <2>2. Len(batches') = Len(batches)
    <3>1. DOMAIN batches' = 1..Len(batches) /\ batches' \in [1..Len(batches) -> {batches'[c] : c \in 1..Len(batches)}]
      BY <1>1, <1>4
    <3> QED BY <1>1, <3>1, FunctionIsSeq
  <2>3. b \in 1..MaxBatches
    BY <1>1
  <2>4. ASSUME NEW c \in 1..MaxBatches, commit'[c] # "idle"
        PROVE  c \in 1..Len(batches) /\ batches'[c].status = "COMMITTING"
    <3>1. c # b /\ commit[c] # "idle"
      BY <1>4, <2>3, <2>4 DEF HeldCommitting
    <3> QED BY <2>1, <2>4, <3>1 DEF HeldCommitting
  <2> QED BY <1>1, <2>2, <2>4 DEF HeldCommitting
<1>5. ASSUME NEW b \in 1..MaxBatches, batches' = batches, NEW pc, commit' = [commit EXCEPT ![b] = pc],
             pc = "idle" \/ commit[b] # "idle" \/ (b \in 1..Len(batches) /\ batches[b].status = "COMMITTING")
      PROVE  HeldCommitting'
  BY <1>1, <1>5 DEF HeldCommitting
<1>6. ASSUME NEW u \in Uploads, Upload(u) PROVE HeldCommitting'
  BY <1>6, HeldAppend DEF Upload
<1>7. ASSUME NEW key \in Keys, ReplayCurrentShopSources(key) PROVE HeldCommitting'
  BY <1>7, HeldAppend DEF ReplayCurrentShopSources
<1>8. ASSUME NEW b \in 1..Len(batches), NEW status, NEW code, SetBatch(b, status, code),
             batches[b].status # "COMMITTING", commit' = commit
      PROVE  HeldCommitting'
  <2> PICK row : row = [batches[b] EXCEPT !.status = status, !.code = code]
    OBVIOUS
  <2>1. batches' = [batches EXCEPT ![b] = row]
    BY <1>8 DEF SetBatch
  <2> QED BY <1>4, <1>8, <2>1
<1>9. ASSUME NEW v \in 1..Len(versions), Acknowledge(v) \/ RollbackStart(v) PROVE HeldCommitting'
  BY <1>2, <1>9 DEF Acknowledge, RollbackStart, dataVars
<1>10. ASSUME RollbackEnd \/ RollbackAborted \/ ResumeAborted PROVE HeldCommitting'
  BY <1>2, <1>10 DEF RollbackEnd, RollbackAborted, ResumeAborted, dataVars
<1>11. ASSUME ResumeEnd PROVE HeldCommitting'
  <2> PICK b : b = resume[1]
    OBVIOUS
  <2>1. commit' = commit /\ resume # <<>>
    BY <1>11 DEF ResumeEnd
  <2>2. CASE UNCHANGED batches
    BY <1>2, <2>1, <2>2
  <2>3. CASE AwaitsConfirmation(b) /\ SetBatch(b, "COMMITTED", "none")
    <3>1. b \in 1..Len(batches)
      BY <2>1, Typed DEF AtMostOne
    <3>2. batches[b].status # "COMMITTING"
      BY <2>3 DEF AwaitsConfirmation
    <3> QED BY <1>8, <2>1, <2>3, <3>1, <3>2
  <2> QED BY <1>11, <2>2, <2>3 DEF ResumeEnd, ResumeDone, ResumeRefused
<1>12. ASSUME NEW b \in 1..Len(batches), Confirm(b) PROVE HeldCommitting'
  BY <1>8, <1>12 DEF Confirm
<1>13. ASSUME NEW b \in 1..Len(batches), ResumeStart(b) PROVE HeldCommitting'
  BY <1>2, <1>13 DEF ResumeStart, dataVars
<1>14. ASSUME NEW b \in 1..Len(batches), CopyImportFiles(b) \/ LockShop(b) \/ CommitAborted(b)
       PROVE  HeldCommitting'
  <2>1. b \in 1..MaxBatches
    BY <1>1
  <2> QED BY <1>5, <1>14, <2>1 DEF CopyImportFiles, LockShop, CommitAborted, dataVars
<1>15. ASSUME NEW b \in 1..Len(batches), CommitImportBatch(b) PROVE HeldCommitting'
  <2>1. commit' = [commit EXCEPT ![b] = "idle"] /\ b \in 1..MaxBatches
    BY <1>1, <1>15 DEF CommitImportBatch
  <2>2. commit'[b] = "idle" /\ \A c \in 1..MaxBatches : c # b => commit'[c] = commit[c]
    BY <1>1, <2>1
  <2>3. PICK status, code : SetBatch(b, status, code)
    BY <1>15 DEF CommitImportBatch, CommitFails, MaterializeImportSlices
  <2> PICK row : row = [batches[b] EXCEPT !.status = status, !.code = code]
    OBVIOUS
  <2>4. batches' = [batches EXCEPT ![b] = row]
    BY <2>3 DEF SetBatch
  <2> QED BY <1>4, <2>2, <2>4
<1>16. ASSUME NEW b \in 1..Len(batches), RequestCalculation(b) PROVE HeldCommitting'
  <2>1. batches[b].status # "COMMITTING" /\ commit' = commit
    BY <1>16 DEF RequestCalculation
  <2>2. CASE \E code : SetBatch(b, "FAILED", code)
    BY <1>8, <2>1, <2>2
  <2>3. ASSUME NEW run, batches' = [batches EXCEPT ![b].status = "CALCULATING", ![b].run = <<run>>]
        PROVE  HeldCommitting'
    <3> PICK row : row = [batches[b] EXCEPT !.status = "CALCULATING", !.run = <<run>>]
      OBVIOUS
    <3>1. batches' = [batches EXCEPT ![b] = row]
      BY <2>3
    <3> QED BY <1>4, <2>1, <2>3, <3>1
  <2> QED BY <1>16, <2>2, <2>3 DEF RequestCalculation
<1>17. ASSUME NEW b \in 1..Len(batches), PublishSnapshot(b) PROVE HeldCommitting'
  <2>1. batches[b].status # "COMMITTING" /\ commit' = commit
    BY <1>17 DEF PublishSnapshot
  <2>2. PICK status, code : SetBatch(b, status, code)
    BY <1>17 DEF PublishSnapshot
  <2> QED BY <1>8, <2>1, <2>2
<1> QED BY <1>6, <1>7, <1>9, <1>10, <1>11, <1>12, <1>13, <1>14, <1>15, <1>16, <1>17 DEF Step

-----------------------------------------------------------------------------
(* Every step.                                                              *)

(* Every step keeps the invariant.                                          *)
LEMMA StepKeeps ==
  ASSUME DatasetsInv, HeldCommitting, UNCHANGED scenario, Step
  PROVE  DatasetsInv' /\ HeldCommitting'
<1>1. TypeOK
  BY DEF DatasetsInv
<1>2. HeldCommitting'
  BY <1>1, HeldStep
<1>3. ASSUME NEW b \in 1..Len(batches), CommitImportBatch(b) PROVE DatasetsInv'
  <2>1. commit' = [commit EXCEPT ![b] = "idle"] /\ UNCHANGED <<published, rollback, resume, moves>>
    BY <1>3 DEF CommitImportBatch
  <2>2. batches[b].status = "COMMITTING"
    <3>1. b \in 1..MaxBatches
      BY <1>1, Lengths, Typed DEF TypeOK
    <3>2. commit[b] # "idle"
      BY <1>3 DEF CommitImportBatch
    <3> QED BY <3>1, <3>2 DEF HeldCommitting
  <2>3. CASE \E code \in {"closure", "unusable"} : CommitFails(b, code)
    BY <2>1, <2>3, CommitFailsStep
  <2>4. CASE ClosureCurrent(b) /\ MaterializeImportSlices(b)
    BY <2>1, <2>2, <2>4, CommitStepKeeps
  <2> QED BY <1>3, <2>3, <2>4 DEF CommitImportBatch
<1>4. ASSUME NEW b \in 1..Len(batches),
             \/ Confirm(b) \/ ResumeStart(b)
             \/ CopyImportFiles(b) \/ LockShop(b) \/ CommitImportBatch(b) \/ CommitAborted(b)
             \/ RequestCalculation(b) \/ PublishSnapshot(b)
      PROVE  DatasetsInv'
  <2>1. CASE Confirm(b)
    BY <2>1, ConfirmStep
  <2>2. CASE ResumeStart(b) \/ CopyImportFiles(b) \/ LockShop(b) \/ CommitAborted(b)
    BY <2>2, WaitStep
  <2>3. CASE CommitImportBatch(b)
    BY <1>3, <2>3
  <2>4. CASE RequestCalculation(b)
    BY <2>4, RequestCalculationStep
  <2>5. CASE PublishSnapshot(b)
    BY <2>5, PublishStep
  <2> QED BY <1>4, <2>1, <2>2, <2>3, <2>4, <2>5
<1>5. ASSUME NEW v \in 1..Len(versions), Acknowledge(v) \/ RollbackStart(v) PROVE DatasetsInv'
  <2>1. CASE Acknowledge(v)
    BY <2>1, AcknowledgeStep
  <2>2. CASE RollbackStart(v)
    BY <2>2, WaitStep
  <2> QED BY <1>5, <2>1, <2>2
<1>6. ASSUME RollbackEnd \/ RollbackAborted \/ ResumeAborted PROVE DatasetsInv'
  BY <1>6, WaitStep
<1>7. ASSUME NEW u \in Uploads, Upload(u) PROVE DatasetsInv'
  BY <1>7, UploadStep
<1>8. ASSUME NEW key \in Keys, ReplayCurrentShopSources(key) PROVE DatasetsInv'
  BY <1>8, ReplayStep
<1> QED BY <1>2, <1>4, <1>5, <1>6, <1>7, <1>8, ResumeEndStep DEF Step

-----------------------------------------------------------------------------
(* The beginning: what the older release left.                              *)

(* The slices of the older release, each once.                              *)
LEMMA LegacyVersions ==
  ASSUME Init
  PROVE  /\ LegacySeq \in Seq(Slices) /\ Len(LegacySeq) \in Nat
         /\ \A i \in 1..Len(LegacySeq) : LegacySeq[i] \in Slices
         /\ \A i, j \in 1..Len(LegacySeq) : LegacySeq[i] = LegacySeq[j] => i = j
         /\ Legacy = {} => Len(LegacySeq) = 0
<1> PICK T : T = {s \in Slices : LegacyStage[s] # {}}
  OBVIOUS
<1>1. T \subseteq Slices /\ IsFiniteSet(T)
  BY FS_Subset, DatasetsAssumption
<1>2. LegacySeq \in Seq(T) /\ \A i, j \in 1..Len(LegacySeq) : LegacySeq[i] = LegacySeq[j] => i = j
  <2> PICK q : q = InOrder(T)
    OBVIOUS
  <2>1. /\ InOrder(T) \in Seq(T)
        /\ \A i, j \in 1..Len(InOrder(T)) : InOrder(T)[i] = InOrder(T)[j] => i = j
    BY ONLY <1>1, InOrderLists
  <2>2. LegacySeq = q
    BY DEF LegacySeq
  <2>3. q \in Seq(T) /\ \A i, j \in 1..Len(q) : q[i] = q[j] => i = j
    BY ONLY <2>1, q = InOrder(T)
  <2> QED BY ONLY <2>2, <2>3
<1>3. Len(LegacySeq) \in Nat /\ \A i \in 1..Len(LegacySeq) : LegacySeq[i] \in T
  BY <1>2, LenProperties, ElementOfSeq
<1>4. LegacySeq \in Seq(Slices)
  BY <1>1, <1>2, SeqMonotonic
<1>5. ASSUME Legacy = {} PROVE Len(LegacySeq) = 0
  <2>1. \A s \in Slices : LegacyStage[s] = {}
    BY <1>5 DEF LegacyStage, Stage
  <2>2. T = {}
    BY <2>1
  <2> QED BY <1>3, <2>2
<1> QED BY <1>1, <1>2, <1>3, <1>4, <1>5

(* A sequence of one element.                                               *)
LEMMA SingletonSequence ==
  ASSUME NEW S, NEW e \in S
  PROVE  <<e>> \in Seq(S) /\ Len(<<e>>) = 1 /\ <<e>>[1] = e
OBVIOUS

(* The invariant holds at the beginning.                                    *)
LEMMA InitKeeps ==
  ASSUME Init
  PROVE  DatasetsInv /\ HeldCommitting
<1> PICK seq, n : seq = LegacySeq /\ n = Len(seq)
  OBVIOUS
<1>1. /\ scenario \in Scenarios /\ Legacy \subseteq Objects /\ MaxBatches \in Nat \ {0} /\ MaxMoves \in Nat
      /\ counted = {} /\ rollback = <<>> /\ resume = <<>> /\ moves = 0
      /\ commit = [b \in 1..MaxBatches |-> "idle"]
  BY DatasetsAssumption DEF Init, Legacy, MaxBatches, MaxMoves
<1>2. /\ n \in Nat /\ \A i \in 1..n : seq[i] \in Slices
      /\ \A i, j \in 1..n : seq[i] = seq[j] => i = j
      /\ Legacy = {} => n = 0
  BY LegacyVersions
<1>3. ASSUME NEW v \in 1..n
      PROVE  /\ versions[v] \in VersionRows
             /\ versions[v].batch = 1 /\ versions[v].mode = Instant /\ versions[v].slice = seq[v]
             /\ versions[v].prev = 0 /\ versions[v].facts = Stage(Legacy, Instant)[seq[v]]
  <2> PICK s, facts : s = seq[v] /\ facts = Stage(Legacy, Instant)[s]
    OBVIOUS
  <2>1. s \in Slices /\ facts \in SUBSET DOMAIN Rows
    BY <1>2 DEF Stage
  <2>2. versions[v] = Version(s, 1, Instant, facts, 0)
    BY <2>1 DEF Init, NewVersions, LegacyStage, NoSlices
  <2>3. /\ Version(s, 1, Instant, facts, 0) \in VersionRows
        /\ Version(s, 1, Instant, facts, 0).batch = 1 /\ Version(s, 1, Instant, facts, 0).mode = Instant
        /\ Version(s, 1, Instant, facts, 0).slice = s /\ Version(s, 1, Instant, facts, 0).prev = 0
        /\ Version(s, 1, Instant, facts, 0).facts = facts
    BY <2>1 DEF Version, VersionRows
  <2> QED BY <2>2, <2>3
<1>4. versions \in Seq(VersionRows) /\ Len(versions) = n
  <2>1. versions = [v \in 1..n |-> versions[v]]
    BY DEF Init, NewVersions
  <2>2. versions \in [1..n -> VersionRows]
    BY <1>3, <2>1
  <2> QED BY <1>2, <2>2, FunctionIsSeq
<1>5. /\ batches \in Seq(BatchRows) /\ Len(batches) <= MaxBatches /\ Len(batches) \in Nat
      /\ n > 0 => Len(batches) = 1
      /\ \A b \in 1..Len(batches) : /\ b = 1 /\ batches[b].objs = Legacy /\ ~batches[b].replay
                                    /\ batches[b].closure = {} /\ batches[b].run = <<>>
                                    /\ batches[b].status # "COMMITTING"
  <2>1. CASE Legacy = {}
    <3>1. batches = <<>> /\ n = 0
      BY <1>2, <2>1 DEF Init
    <3> QED BY <1>1, <3>1
  <2>2. CASE Legacy # {}
    <3> PICK objs, period : objs = Legacy /\ period = Months
      OBVIOUS
    <3> PICK row : row = Batch(objs, period, FALSE, "", {}, "RESULT_PUBLISHED")
      OBVIOUS
    <3>1. batches = <<row>>
      BY <2>2 DEF Init
    <3>2. /\ objs \in SUBSET Objects /\ period \in SUBSET Months /\ FALSE \in BOOLEAN /\ "" \in Keys \cup {""}
          /\ {} \in SUBSET (Nat \X Objects) /\ "RESULT_PUBLISHED" \in BatchStatus
      BY <1>1 DEF BatchStatus, Finished
    <3>3. Batch(objs, period, FALSE, "", {}, "RESULT_PUBLISHED") \in BatchRows
      BY ONLY <3>2, EmptySeq DEF Batch, BatchRows, Codes
    <3>4. /\ row.objs = Legacy /\ ~row.replay /\ row.closure = {} /\ row.run = <<>>
          /\ row.status = "RESULT_PUBLISHED"
      BY DEF Batch
    <3>5. row \in BatchRows
      BY <3>3
    <3>6. batches \in Seq(BatchRows) /\ Len(batches) = 1 /\ batches[1] = row
      BY ONLY <3>1, <3>5, SingletonSequence
    <3>7. ASSUME NEW b \in 1..1 PROVE b = 1
      BY ONLY b \in 1..1
    <3> QED BY ONLY <1>1, <3>4, <3>6, <3>7
  <2> QED BY <2>1, <2>2
<1>6. /\ current \in [Slices -> Nat]
      /\ \A s \in Slices : current[s] # 0 => current[s] \in 1..n /\ versions[current[s]].slice = s
  <2>1. current = Pointers(seq, 0, NoSlices)
    BY DEF Init
  <2>2. ASSUME NEW s \in Slices
        PROVE  current[s] \in Nat /\ (current[s] # 0 => current[s] \in 1..n /\ versions[current[s]].slice = s)
    <3>1. CASE Contains(seq, s)
      <4> PICK i : i = CHOOSE j \in 1..Len(seq) : seq[j] = s
        OBVIOUS
      <4>1. i \in 1..n /\ seq[i] = s
        BY <3>1 DEF Contains
      <4>2. current[s] = 0 + i
        BY <2>1, <3>1 DEF Pointers
      <4>3. current[s] = i /\ i \in Nat
        BY <1>2, <4>1, <4>2
      <4> QED BY <1>3, <4>1, <4>3
    <3>2. CASE ~Contains(seq, s)
      <4>1. current[s] = 0
        BY <2>1, <3>2 DEF Pointers, NoSlices
      <4> QED BY <4>1
    <3> QED BY <3>1, <3>2
  <2>3. current = [s \in Slices |-> current[s]]
    BY <2>1 DEF Pointers
  <2> QED BY <2>2, <2>3
<1>7. \A a \in acks : a \in [version : Nat, by : {"person", "replay"}] /\ a.version \in 1..n /\ a.by = "person"
  <2>1. ASSUME NEW a \in acks
        PROVE  a \in [version : Nat, by : {"person", "replay"}] /\ a.version \in 1..n /\ a.by = "person"
    <3>1. PICK v \in 1..Len(versions) : a = [version |-> v, by |-> "person"]
      BY DEF Init
    <3> QED BY <1>2, <1>4, <3>1
  <2> QED BY <2>1
<1>8. published \in Seq(Runs)
  <2>1. ASSUME NEW p \in CurrentRun(Months) PROVE p \in [slice : Slices, version : Nat, disposition : Dispositions]
    <3>1. PICK s \in Existing : p = [slice |-> s, version |-> current[s], disposition |-> Disposition(s, Months)]
      BY DEF CurrentRun
    <3>2. s \in Slices /\ current[s] \in Nat /\ Disposition(s, Months) \in Dispositions
      BY <1>6, <3>1 DEF Existing, Disposition, DispositionOf, Dispositions, Included
    <3> QED BY <3>1, <3>2
  <2>2. CurrentRun(Months) \in Runs
    BY <2>1 DEF Runs
  <2>3. <<CurrentRun(Months)>> \in Seq(Runs) /\ <<>> \in Seq(Runs)
    BY <2>2
  <2> QED BY <2>3 DEF Init
<1>9. TypeOK
  <2>1. \A v \in 1..Len(versions) : versions[v].batch <= Len(batches) /\ versions[v].prev < v
    <3>1. ASSUME NEW v \in 1..n PROVE versions[v].batch <= Len(batches) /\ versions[v].prev < v
      <4>1. n > 0 /\ v > 0
        BY ONLY <1>2, v \in 1..n
      <4>2. Len(batches) = 1 /\ versions[v].batch = 1 /\ versions[v].prev = 0
        BY <1>3, <1>5, <4>1
      <4> QED BY ONLY <4>1, <4>2
    <3> QED BY <1>4, <3>1
  <2>2. \A s \in Existing : IsVersion(current[s]) /\ versions[current[s]].slice = s
    BY <1>4, <1>6 DEF Existing, IsVersion
  <2>3. acks \subseteq [version : Nat, by : {"person", "replay"}] /\ \A a \in acks : IsVersion(a.version)
    BY <1>4, <1>7 DEF IsVersion
  <2>4. /\ rollback \in AtMostOne(1..Len(versions)) /\ resume \in AtMostOne(1..Len(batches))
        /\ moves \in 0..MaxMoves /\ commit \in [1..MaxBatches -> {"idle", "copied", "locked"}]
    BY <1>1 DEF AtMostOne
  <2> QED BY <1>1, <1>4, <1>5, <1>6, <1>8, <2>1, <2>2, <2>3, <2>4 DEF TypeOK
<1>10. VersionsExact
  <2>1. \A v \in 1..n : batches[versions[v].batch].objs = Legacy /\ batches[versions[v].batch].status # "COMMITTING"
    BY <1>2, <1>3, <1>5
  <2>2. \A v \in 1..n : versions[v].facts = Staged(v)
    BY <1>3, <2>1 DEF Staged
  <2>3. \A v, w \in 1..n : versions[w].slice = versions[v].slice => w = v
    BY <1>2, <1>3
  <2> QED BY <1>4, <2>1, <2>2, <2>3 DEF VersionsExact
<1>11. CountsFit /\ RunsFit /\ ClosuresOld
  BY <1>1, <1>5 DEF CountsFit, RunsFit, ClosuresOld
<1>12. ReplayNeverOverwritesNewer /\ AcknowledgementsEarned
  BY <1>3, <1>4, <1>7 DEF ReplayNeverOverwritesNewer, AcknowledgementsEarned
<1>13. HeldCommitting
  BY <1>1 DEF HeldCommitting
<1> QED BY <1>9, <1>10, <1>11, <1>12, <1>13 DEF DatasetsInv

-----------------------------------------------------------------------------
(* What follows from the invariant.                                         *)

(* The versions of a batch that has been counted hold the inserted rows of  *)
(* its objects, each in one of them.                                        *)
LEMMA CountsConserve ==
  ASSUME DatasetsInv
  PROVE  RowsConserved
<1>1. TypeOK /\ VersionsExact /\ CountsFit
  BY DEF DatasetsInv
<1>2. ASSUME NEW c \in counted
      PROVE  LET facts == [v \in {n \in 1..Len(versions) : versions[n].batch = c.batch} |->
                             {r \in versions[v].facts : Rows[r].obj = c.obj}]
             IN  /\ c.read = c.inserted + c.excluded + c.errored
                 /\ c.inserted = Cardinality(UNION {facts[v] : v \in DOMAIN facts})
                 /\ \A v, w \in DOMAIN facts : v # w => facts[v] \cap facts[w] = {}
  <2> PICK b, objs : b = c.batch /\ objs = batches[b].objs
    OBVIOUS
  <2> DEFINE Made == {n \in 1..Len(versions) : versions[n].batch = c.batch}
             Of(v) == {r \in versions[v].facts : Rows[r].obj = c.obj}
  <2>1. /\ c \in Counters(b, objs)
        /\ \A v \in 1..Len(versions) : versions[v].batch = b => versions[v].mode = Literal
        /\ \A s \in Slices : Stage(objs, Literal)[s] # {} =>
             \E v \in 1..Len(versions) : versions[v].batch = b /\ versions[v].slice = s
    BY <1>1, <1>2 DEF CountsFit, CountFits
  <2>2. c.obj \in objs /\ c.inserted = Cardinality({r \in RowsOf(c.obj) : Inserted(r)})
    BY <2>1, CounterOf
  <2>3. c.read = c.inserted + c.excluded + c.errored
    BY <2>1, RowsPartition
  <2>4. ASSUME NEW v \in Made
        PROVE  /\ versions[v].slice \in Slices
               /\ versions[v].facts = Stage(objs, Literal)[versions[v].slice]
    <3>1. v \in 1..Len(versions) /\ versions[v].batch = b
      BY <2>4
    <3>2. versions[v].slice \in Slices
      BY <1>1, <3>1, Lengths DEF VersionRows
    <3>3. versions[v].facts = Staged(v) /\ versions[v].mode = Literal
      BY <1>1, <2>1, <3>1 DEF VersionsExact
    <3> QED BY <3>1, <3>2, <3>3 DEF Staged
  <2>5. ASSUME NEW v \in Made, NEW r \in Of(v)
        PROVE  r \in DOMAIN Rows /\ Rows[r].obj = c.obj /\ Inserted(r) /\ versions[v].slice = SliceOf(r, Literal)
    <3> PICK s : s = versions[v].slice
      OBVIOUS
    <3>1. s \in Slices /\ r \in Stage(objs, Literal)[s]
      BY <2>4, <2>5
    <3> QED BY <2>5, <3>1, StagedRows
  <2>6. ASSUME NEW r \in RowsOf(c.obj), Inserted(r)
        PROVE  \E v \in Made : r \in Of(v)
    <3>1. r \in DOMAIN Rows /\ Rows[r].obj = c.obj
      BY DEF RowsOf
    <3> PICK s : s = SliceOf(r, Literal)
      OBVIOUS
    <3>2. s \in Slices /\ r \in Stage(objs, Literal)[s]
      BY <2>2, <2>6, <3>1, InsertedStaged
    <3>3. PICK v \in 1..Len(versions) : versions[v].batch = b /\ versions[v].slice = s
      BY <2>1, <3>2
    <3>4. v \in Made
      BY <3>3
    <3> QED BY <2>4, <3>1, <3>2, <3>3, <3>4
  <2>7. UNION {Of(v) : v \in Made} = {r \in RowsOf(c.obj) : Inserted(r)}
    <3>1. ASSUME NEW r \in UNION {Of(v) : v \in Made} PROVE r \in RowsOf(c.obj) /\ Inserted(r)
      <4>1. PICK v \in Made : r \in Of(v)
        OBVIOUS
      <4> QED BY <2>5, <4>1 DEF RowsOf
    <3> QED BY <2>6, <3>1
  <2>8. ASSUME NEW v \in Made, NEW w \in Made, v # w PROVE Of(v) \cap Of(w) = {}
    <3>1. ASSUME NEW r \in Of(v), r \in Of(w) PROVE FALSE
      <4>1. versions[v].slice = SliceOf(r, Literal) /\ versions[w].slice = SliceOf(r, Literal)
        BY <2>5, <3>1
      <4>2. /\ v \in 1..Len(versions) /\ w \in 1..Len(versions)
            /\ versions[w].batch = versions[v].batch /\ versions[w].slice = versions[v].slice
        BY <4>1
      <4> QED BY <1>1, <2>8, <4>2 DEF VersionsExact
    <3> QED BY <3>1
  <2> DEFINE facts == [v \in Made |-> Of(v)]
  <2>9. /\ DOMAIN facts = Made /\ \A v \in Made : facts[v] = Of(v)
        /\ {facts[v] : v \in DOMAIN facts} = {Of(v) : v \in Made}
    OBVIOUS
  <2>10. /\ c.inserted = Cardinality(UNION {facts[v] : v \in DOMAIN facts})
         /\ \A v, w \in DOMAIN facts : v # w => facts[v] \cap facts[w] = {}
    BY <2>2, <2>7, <2>8, <2>9
  <2> QED BY <2>3, <2>10
<1> QED BY <1>2 DEF RowsConserved

(* Two versions a run includes follow one date rule, which puts a row into  *)
(* one slice.                                                               *)
LEMMA RunsCountOnce ==
  ASSUME DatasetsInv
  PROVE  RowCountedOnce
<1>1. TypeOK /\ VersionsExact /\ RunsFit
  BY DEF DatasetsInv
<1>2. ASSUME NEW b \in 1..Len(batches), NEW i \in 1..Len(batches[b].run),
             NEW p \in batches[b].run[i], NEW q \in batches[b].run[i], p # q,
             p.disposition \in Included, q.disposition \in Included,
             NEW r \in versions[p.version].facts, r \in versions[q.version].facts
      PROVE  FALSE
  <2> PICK v, w, mode : v = p.version /\ w = q.version /\ mode = versions[v].mode
    OBVIOUS
  <2>1. /\ v \in 1..Len(versions) /\ w \in 1..Len(versions) /\ versions[w].mode = mode
        /\ versions[v].slice # versions[w].slice
    BY <1>1, <1>2 DEF RunsFit, RunFits, IsVersion, Included
  <2>2. ASSUME NEW x \in 1..Len(versions), versions[x].mode = mode, r \in versions[x].facts
        PROVE  versions[x].slice = SliceOf(r, mode)
    <3> PICK s, objs : s = versions[x].slice /\ objs = batches[versions[x].batch].objs
      OBVIOUS
    <3>1. s \in Slices
      BY <1>1, Lengths DEF VersionRows
    <3>2. r \in Stage(objs, mode)[s]
      BY <1>1, <2>2 DEF VersionsExact, Staged
    <3> QED BY <3>1, <3>2, StagedRows
  <2> QED BY <1>2, <2>1, <2>2
<1> QED BY <1>2 DEF RowCountedOnce

-----------------------------------------------------------------------------
(* The theorems.                                                            *)

(* In every state the versions hold what their batches staged, the counts   *)
(* agree with them, a run is of one date rule within its accounting period, *)
(* the replays read older versions, and a commit transaction that waits     *)
(* holds a batch that is committing.                                        *)
THEOREM DatasetsInvHolds == Spec => [](DatasetsInv /\ HeldCommitting)
<1>1. Init => DatasetsInv /\ HeldCommitting
  BY InitKeeps
<1>2. DatasetsInv /\ HeldCommitting /\ [Next]_vars => (DatasetsInv /\ HeldCommitting)'
  <2> SUFFICES ASSUME DatasetsInv, HeldCommitting, [Next]_vars
               PROVE  (DatasetsInv /\ HeldCommitting)'
    OBVIOUS
  <2>1. CASE Next
    BY <2>1, StepKeeps DEF Next
  <2>2. CASE UNCHANGED vars
    <3>1. /\ UNCHANGED <<scenario, batches, versions, current, acks, counted, published>>
          /\ UNCHANGED <<commit, rollback, resume, moves>>
      BY <2>2 DEF vars, dataVars
    <3>2. TypeOK
      BY DEF DatasetsInv
    <3>3. DatasetsInv'
      BY <3>1, <3>2, BatchesAlone, Typed, Quiet
    <3>4. HeldCommitting'
      BY <3>1 DEF HeldCommitting, MaxBatches
    <3> QED BY <3>3, <3>4
  <2> QED BY <2>1, <2>2
<1> QED BY <1>1, <1>2, PTL DEF Spec

(* commitImportBatch and requestCalculation: every row that was read is     *)
(* inserted, excluded or refused, the inserted ones are the facts of the    *)
(* batch, each in one version, and no run counts a row twice, whatever      *)
(* rollbacks, replays and the change of the date rule have done.            *)
THEOREM RowsExactHolds == Spec => []RowsExact
<1>1. DatasetsInv => RowsExact
  BY CountsConserve, RunsCountOnce DEF RowsExact, DatasetsInv
<1> QED BY <1>1, DatasetsInvHolds, PTL

(* assertSourceReplayClosureCurrent: the rows of an upload that came after  *)
(* a replay was asked for are never replaced by the replay's.               *)
THEOREM ReplayNeverOverwritesNewerHolds == Spec => []ReplayNeverOverwritesNewer
<1>1. DatasetsInv => ReplayNeverOverwritesNewer
  BY DEF DatasetsInv
<1> QED BY <1>1, DatasetsInvHolds, PTL

(* inheritSourceReplayHardAcknowledgements: an acknowledgement a replay     *)
(* passes on is of facts a person has acknowledged.                         *)
THEOREM AcknowledgementsEarnedHolds == Spec => []AcknowledgementsEarned
<1>1. DatasetsInv => AcknowledgementsEarned
  BY DEF DatasetsInv
<1> QED BY <1>1, DatasetsInvHolds, PTL

=============================================================================
