--------------------------- MODULE UploadsProofs ----------------------------
(***************************************************************************)
(* Theorems about the staging, archiving and analysis of uploads, for      *)
(* every set of files, batches, archives and limits, every number of       *)
(* workers, requests, retries and faults: the directories hold what the    *)
(* rows need and no ciphertext is left behind (FilesSound), a batch is     *)
(* charged what its files take (UsageExact), a file holds what its         *)
(* receipts say (ChunksExact), no analysis is forgotten                    *)
(* (AnalysisNotForgotten) and no batch is committed early (PreflightSound).*)
(* The argument goes up in five layers, each of which uses those below:    *)
(*   sums      SumFunctionOnSet adds up in any order;                      *)
(*   QueueInv  the queue, its workers and the reconciler: who executes     *)
(*             what, and what it remembers of it;                          *)
(*   FilesInv  the rows, the two directories, the handlers under way;      *)
(*   WorkInv   what is not stored or not analysed has work before it, and  *)
(*             the counts of a preflight say what its sets say;            *)
(*   Accounts  the usage of a batch, file by file.                         *)
(***************************************************************************)
EXTENDS Finalization, FiniteSetTheorems, WellFoundedInduction, TLAPS

-----------------------------------------------------------------------------
(* Sums over finite sets, as SumFunctionOnSet of the community modules      *)
(* defines them: by a recursion that takes out one element after another.   *)
(* That the order does not matter, and what follows from it, is proved by   *)
(* taking a smallest set among the counterexamples.                         *)

(* Among sets of subsets of a finite set there is a minimal one.            *)
LEMMA MinimalSubset ==
  ASSUME NEW S, IsFiniteSet(S), NEW C, C \subseteq SUBSET S, C # {}
  PROVE  \E T \in C : \A U \in C : U \subseteq T => U = T
<1> DEFINE R == StrictSubsetOrdering(S)
<1>1. IsWellFoundedOn(R, FiniteSubsetsOf(S))
  BY FS_StrictSubsetOrderingWellFounded
<1>2. FiniteSubsetsOf(S) = SUBSET S
  BY FS_FiniteSubsetsOfFinite
<1>3. C \subseteq FiniteSubsetsOf(S)
  BY <1>2
<1> HIDE DEF R
<1>4. \E T \in C : \A U \in C : ~(<<U, T>> \in R)
  BY <1>1, <1>3, WFMin
<1>5. ASSUME NEW T \in C, NEW U \in C, U \subseteq T, U # T
      PROVE  <<U, T>> \in R
  BY <1>5 DEF R, StrictSubsetOrdering
<1> QED BY <1>4, <1>5

(* The recursion that SumFunctionOnSet(w, S) unfolds to.                    *)
First(T) == CHOOSE x \in T : TRUE
IsSummation(g, w, S) ==
  g = [T \in SUBSET S |-> IF T = {} THEN 0 ELSE w[First(T)] + g[T \ {First(T)}]]

LEMMA SumIsSummation ==
  ASSUME NEW w, NEW S
  PROVE  SumFunctionOnSet(w, S) = (CHOOSE g : IsSummation(g, w, S))[S]
BY DEF SumFunctionOnSet, FoldFunctionOnSet, MapThenFoldSet, IsSummation, First

LEMMA FirstIn ==
  ASSUME NEW T, T # {}
  PROVE  First(T) \in T
BY DEF First

LEMMA SummationUnfolds ==
  ASSUME NEW g, NEW w, NEW S, IsSummation(g, w, S), NEW T, T \subseteq S
  PROVE  g[T] = IF T = {} THEN 0 ELSE w[First(T)] + g[T \ {First(T)}]
<1> DEFINE E(U) == IF U = {} THEN 0 ELSE w[First(U)] + g[U \ {First(U)}]
<1>1. g = [U \in SUBSET S |-> E(U)]
  BY DEF IsSummation
<1> HIDE DEF E
<1>2. g[T] = E(T)
  BY <1>1
<1> QED BY <1>2 DEF E

(* Two of them agree wherever both are defined.                             *)
LEMMA SummationUnique ==
  ASSUME NEW w, NEW S, NEW V, IsFiniteSet(S), NEW g, NEW h,
         IsSummation(g, w, S), IsSummation(h, w, V), NEW T, T \subseteq S, T \subseteq V
  PROVE  g[T] = h[T]
<1> DEFINE C == {U \in SUBSET (S \cap V) : g[U] # h[U]}
<1>1. SUFFICES ASSUME C # {} PROVE FALSE
  BY <1>1
<1>2. IsFiniteSet(S \cap V)
  BY FS_Intersection
<1>3. PICK U \in C : \A W \in C : W \subseteq U => W = U
  <2>1. C \subseteq SUBSET (S \cap V)
    OBVIOUS
  <2> HIDE DEF C
  <2> QED BY <1>1, <1>2, <2>1, MinimalSubset
<1>4. U \subseteq S /\ U \subseteq V /\ g[U] # h[U]
  OBVIOUS
<1>5. CASE U = {}
  BY <1>4, <1>5, SummationUnfolds
<1>6. CASE U # {}
  <2>1. First(U) \in U
    BY <1>6, FirstIn
  <2>2. g[U \ {First(U)}] = h[U \ {First(U)}]
    BY <1>3, <1>4, <2>1
  <2>3. g[U] = w[First(U)] + g[U \ {First(U)}] /\ h[U] = w[First(U)] + h[U \ {First(U)}]
    BY <1>4, <1>6, SummationUnfolds
  <2> QED BY <1>4, <2>2, <2>3
<1> QED BY <1>5, <1>6

LEMMA SummationExists ==
  ASSUME NEW w, NEW S, IsFiniteSet(S)
  PROVE  \E g : IsSummation(g, w, S)
<1> DEFINE C == {U \in SUBSET S : ~\E g : IsSummation(g, w, U)}
<1>1. SUFFICES ASSUME C # {} PROVE FALSE
  BY <1>1
<1>2. PICK U \in C : \A W \in C : W \subseteq U => W = U
  <2>1. C \subseteq SUBSET S
    OBVIOUS
  <2> HIDE DEF C
  <2> QED BY <1>1, <2>1, MinimalSubset
<1> DEFINE part(T) == CHOOSE g : IsSummation(g, w, T)
           g == [T \in SUBSET U |-> IF T = {} THEN 0
                                    ELSE w[First(T)] + part(T \ {First(T)})[T \ {First(T)}]]
<1>3. ASSUME NEW T, T \subseteq U, T # U
      PROVE  IsSummation(part(T), w, T) /\ IsFiniteSet(T)
  <2>1. \E k : IsSummation(k, w, T)
    BY <1>2, <1>3
  <2>2. IsFiniteSet(T)
    BY <1>2, <1>3, FS_Subset
  <2> QED BY <2>1, <2>2
<1>4. ASSUME NEW T, T \subseteq U, T # U
      PROVE  g[T] = part(T)[T]
  <2>1. IsSummation(part(T), w, T) /\ IsFiniteSet(T)
    BY <1>3, <1>4
  <2>2. part(T)[T] = IF T = {} THEN 0 ELSE w[First(T)] + part(T)[T \ {First(T)}]
    <3> HIDE DEF part
    <3> QED BY <2>1, SummationUnfolds
  <2>3. CASE T = {}
    BY <1>4, <2>2, <2>3
  <2>4. CASE T # {}
    <3> DEFINE V == T \ {First(T)}
    <3>1. First(T) \in T
      BY <2>4, FirstIn
    <3>2. IsSummation(part(V), w, V)
      BY <1>3, <1>4, <3>1
    <3>3. part(T)[V] = part(V)[V]
      <4> HIDE DEF part
      <4> QED BY <2>1, <3>2, SummationUnique
    <3>4. g[T] = w[First(T)] + part(V)[V]
      BY <1>4, <2>4
    <3> QED BY <2>2, <2>4, <3>3, <3>4
  <2> QED BY <2>3, <2>4
<1>5. ASSUME NEW T, T \subseteq U, T # {}
      PROVE  part(T \ {First(T)})[T \ {First(T)}] = g[T \ {First(T)}]
  <2>1. First(T) \in T
    BY <1>5, FirstIn
  <2> QED BY <1>4, <1>5, <2>1
<1>6. IsSummation(g, w, U)
  <2> DEFINE E(T) == IF T = {} THEN 0 ELSE w[First(T)] + part(T \ {First(T)})[T \ {First(T)}]
             F(T) == IF T = {} THEN 0 ELSE w[First(T)] + g[T \ {First(T)}]
  <2>1. g = [T \in SUBSET U |-> E(T)]
    OBVIOUS
  <2>2. ASSUME NEW T \in SUBSET U PROVE E(T) = F(T)
    <3>1. CASE T = {}
      BY <3>1
    <3>2. CASE T # {}
      <4>1. part(T \ {First(T)})[T \ {First(T)}] = g[T \ {First(T)}]
        BY <1>5, <3>2
      <4> HIDE DEF part, g
      <4> QED BY <3>2, <4>1
    <3> QED BY <3>1, <3>2
  <2>3. g = [T \in SUBSET U |-> F(T)]
    <3> HIDE DEF E, F
    <3> QED BY <2>1, <2>2
  <2> HIDE DEF g
  <2> QED BY <2>3 DEF IsSummation
<1> QED BY <1>6

-----------------------------------------------------------------------------
(* What a sum is, without the recursion.                                    *)

LEMMA SumSummation ==
  ASSUME NEW w, NEW S, IsFiniteSet(S), NEW T, T \subseteq S, NEW g, IsSummation(g, w, S)
  PROVE  SumFunctionOnSet(w, T) = g[T]
<1> DEFINE h == CHOOSE k : IsSummation(k, w, T)
<1>1. IsFiniteSet(T)
  BY FS_Subset
<1>2. IsSummation(h, w, T)
  BY <1>1, SummationExists
<1>3. SumFunctionOnSet(w, T) = h[T]
  BY SumIsSummation
<1> HIDE DEF h
<1> QED BY <1>1, <1>2, <1>3, SummationUnique

LEMMA SumUnfolds ==
  ASSUME NEW w, NEW S, IsFiniteSet(S)
  PROVE  SumFunctionOnSet(w, S) =
           IF S = {} THEN 0 ELSE w[First(S)] + SumFunctionOnSet(w, S \ {First(S)})
<1>1. PICK g : IsSummation(g, w, S)
  BY SummationExists
<1>2. SumFunctionOnSet(w, S) = g[S] /\ SumFunctionOnSet(w, S \ {First(S)}) = g[S \ {First(S)}]
  BY <1>1, SumSummation
<1> QED BY <1>1, <1>2, SummationUnfolds

LEMMA SumEmpty ==
  ASSUME NEW w
  PROVE  SumFunctionOnSet(w, {}) = 0
BY FS_EmptySet, SumUnfolds

LEMMA SumNat ==
  ASSUME NEW w, NEW S, IsFiniteSet(S), \A x \in S : w[x] \in Nat
  PROVE  SumFunctionOnSet(w, S) \in Nat
<1> DEFINE C == {U \in SUBSET S : SumFunctionOnSet(w, U) \notin Nat}
<1>1. SUFFICES ASSUME C # {} PROVE FALSE
  BY <1>1
<1>2. PICK U \in C : \A W \in C : W \subseteq U => W = U
  <2>1. C \subseteq SUBSET S
    OBVIOUS
  <2> HIDE DEF C
  <2> QED BY <1>1, <2>1, MinimalSubset
<1>3. IsFiniteSet(U) /\ U \subseteq S /\ SumFunctionOnSet(w, U) \notin Nat
  BY FS_Subset
<1>4. U # {}
  BY <1>3, SumEmpty
<1>5. First(U) \in U
  BY <1>4, FirstIn
<1>6. SumFunctionOnSet(w, U \ {First(U)}) \in Nat
  BY <1>2, <1>3, <1>5
<1>7. SumFunctionOnSet(w, U) = w[First(U)] + SumFunctionOnSet(w, U \ {First(U)})
  BY <1>3, <1>4, SumUnfolds
<1>8. w[First(U)] \in Nat
  BY <1>3, <1>5
<1> QED BY <1>3, <1>6, <1>7, <1>8

(* Whichever element is taken out first.                                    *)
LEMMA SumTakes ==
  ASSUME NEW w, NEW S, IsFiniteSet(S), \A x \in S : w[x] \in Nat, NEW x \in S
  PROVE  SumFunctionOnSet(w, S) = w[x] + SumFunctionOnSet(w, S \ {x})
<1> DEFINE Sum(U) == SumFunctionOnSet(w, U)
           C == {U \in SUBSET S : \E y \in U : Sum(U) # w[y] + Sum(U \ {y})}
<1>1. SUFFICES ASSUME C # {} PROVE FALSE
  BY <1>1
<1>2. PICK U \in C : \A W \in C : W \subseteq U => W = U
  <2>1. C \subseteq SUBSET S
    OBVIOUS
  <2> HIDE DEF C
  <2> QED BY <1>1, <2>1, MinimalSubset
<1>3. PICK y \in U : Sum(U) # w[y] + Sum(U \ {y})
  BY <1>2
<1>4. U \subseteq S /\ IsFiniteSet(U)
  BY FS_Subset
<1> DEFINE f == First(U)
<1>5. f \in U
  BY <1>3, FirstIn
<1>6. Sum(U) = w[f] + Sum(U \ {f})
  BY <1>4, <1>5, SumUnfolds
<1>7. f # y
  BY <1>3, <1>6
<1>8. U \ {f} \notin C /\ U \ {y} \notin C
  BY <1>2, <1>5
<1>9. Sum(U \ {f}) = w[y] + Sum((U \ {f}) \ {y})
  BY <1>4, <1>5, <1>7, <1>8
<1>10. Sum(U \ {y}) = w[f] + Sum((U \ {y}) \ {f})
  BY <1>4, <1>5, <1>7, <1>8
<1>11. (U \ {f}) \ {y} = (U \ {y}) \ {f}
  OBVIOUS
<1>12. Sum((U \ {f}) \ {y}) \in Nat /\ w[f] \in Nat /\ w[y] \in Nat
  <2>1. IsFiniteSet((U \ {f}) \ {y})
    BY <1>4, FS_Subset
  <2> QED BY <1>4, <1>5, <2>1, SumNat
<1> HIDE DEF Sum, f
<1> QED BY <1>3, <1>6, <1>9, <1>10, <1>11, <1>12

-----------------------------------------------------------------------------
(* Sums of more, of fewer and of other weights.                             *)

LEMMA SumAdd ==
  ASSUME NEW w, NEW S, IsFiniteSet(S), NEW x, x \notin S, \A y \in S \cup {x} : w[y] \in Nat
  PROVE  SumFunctionOnSet(w, S \cup {x}) = SumFunctionOnSet(w, S) + w[x]
<1>1. IsFiniteSet(S \cup {x}) /\ x \in S \cup {x}
  BY FS_AddElement
<1>2. SumFunctionOnSet(w, S \cup {x}) = w[x] + SumFunctionOnSet(w, (S \cup {x}) \ {x})
  BY <1>1, SumTakes
<1>3. (S \cup {x}) \ {x} = S
  OBVIOUS
<1>4. SumFunctionOnSet(w, S) \in Nat /\ w[x] \in Nat
  BY SumNat
<1> QED BY <1>2, <1>3, <1>4

LEMMA SumUnion ==
  ASSUME NEW w, NEW S, IsFiniteSet(S), NEW T, IsFiniteSet(T), S \cap T = {},
         \A x \in S \cup T : w[x] \in Nat
  PROVE  SumFunctionOnSet(w, S \cup T) = SumFunctionOnSet(w, S) + SumFunctionOnSet(w, T)
<1> DEFINE Sum(U) == SumFunctionOnSet(w, U)
           C == {U \in SUBSET T : Sum(S \cup U) # Sum(S) + Sum(U)}
<1>1. SUFFICES ASSUME C # {} PROVE FALSE
  BY <1>1
<1>2. PICK U \in C : \A W \in C : W \subseteq U => W = U
  <2>1. C \subseteq SUBSET T
    OBVIOUS
  <2> HIDE DEF C
  <2> QED BY <1>1, <2>1, MinimalSubset
<1>3. U \subseteq T /\ IsFiniteSet(U) /\ Sum(S \cup U) # Sum(S) + Sum(U)
  BY <1>2, FS_Subset
<1>4. Sum(S) \in Nat
  BY SumNat
<1>5. U # {}
  <2>1. S \cup {} = S /\ Sum({}) = 0
    BY SumEmpty
  <2> HIDE DEF Sum
  <2> QED BY <1>3, <1>4, <2>1
<1>6. PICK x \in U : TRUE
  BY <1>5
<1> DEFINE V == U \ {x}
<1>7. V \notin C /\ V \subseteq T
  BY <1>2, <1>6
<1>8. Sum(S \cup V) = Sum(S) + Sum(V)
  BY <1>7
<1>9. Sum(U) = w[x] + Sum(V) /\ w[x] \in Nat
  BY <1>3, <1>6, SumTakes
<1>10. Sum(S \cup U) = w[x] + Sum(S \cup V)
  <2>1. IsFiniteSet(S \cup U) /\ x \in S \cup U
    BY <1>3, <1>6, FS_Union
  <2>2. (S \cup U) \ {x} = S \cup V
    BY <1>3, <1>6
  <2>3. Sum(S \cup U) = w[x] + Sum((S \cup U) \ {x})
    BY <1>3, <2>1, SumTakes
  <2> QED BY <2>2, <2>3
<1>11. Sum(V) \in Nat
  <2>1. IsFiniteSet(V)
    BY <1>3, FS_Subset
  <2> QED BY <1>7, <2>1, SumNat
<1> HIDE DEF Sum, V
<1> QED BY <1>3, <1>4, <1>8, <1>9, <1>10, <1>11

LEMMA SumDifference ==
  ASSUME NEW w, NEW S, IsFiniteSet(S), NEW T, T \subseteq S, \A x \in S : w[x] \in Nat
  PROVE  /\ SumFunctionOnSet(w, S) = SumFunctionOnSet(w, S \ T) + SumFunctionOnSet(w, T)
         /\ SumFunctionOnSet(w, S \ T) \in Nat /\ SumFunctionOnSet(w, T) \in Nat
<1>1. IsFiniteSet(T) /\ IsFiniteSet(S \ T)
  BY FS_Subset
<1>2. (S \ T) \cup T = S /\ (S \ T) \cap T = {}
  OBVIOUS
<1> QED BY <1>1, <1>2, SumUnion, SumNat

LEMMA SumSame ==
  ASSUME NEW w, NEW v, NEW S, IsFiniteSet(S), \A x \in S : w[x] \in Nat /\ v[x] = w[x]
  PROVE  SumFunctionOnSet(v, S) = SumFunctionOnSet(w, S)
<1> DEFINE C == {U \in SUBSET S : SumFunctionOnSet(v, U) # SumFunctionOnSet(w, U)}
<1>1. SUFFICES ASSUME C # {} PROVE FALSE
  BY <1>1
<1>2. PICK U \in C : \A W \in C : W \subseteq U => W = U
  <2>1. C \subseteq SUBSET S
    OBVIOUS
  <2> HIDE DEF C
  <2> QED BY <1>1, <2>1, MinimalSubset
<1>3. U \subseteq S /\ IsFiniteSet(U) /\ SumFunctionOnSet(v, U) # SumFunctionOnSet(w, U)
  BY <1>2, FS_Subset
<1>4. U # {}
  BY <1>3, SumEmpty
<1>5. PICK x \in U : TRUE
  BY <1>4
<1>6. SumFunctionOnSet(v, U \ {x}) = SumFunctionOnSet(w, U \ {x})
  BY <1>2, <1>3, <1>5
<1>7. SumFunctionOnSet(v, U) = v[x] + SumFunctionOnSet(v, U \ {x})
  BY <1>3, SumTakes
<1>8. SumFunctionOnSet(w, U) = w[x] + SumFunctionOnSet(w, U \ {x})
  BY <1>3, SumTakes
<1> QED BY <1>3, <1>5, <1>6, <1>7, <1>8


LEMMA SumZero ==
  ASSUME NEW w, NEW S, IsFiniteSet(S), \A x \in S : w[x] = 0
  PROVE  SumFunctionOnSet(w, S) = 0
<1> DEFINE C == {U \in SUBSET S : SumFunctionOnSet(w, U) # 0}
<1>1. SUFFICES ASSUME C # {} PROVE FALSE
  BY <1>1
<1>2. PICK U \in C : \A W \in C : W \subseteq U => W = U
  <2>1. C \subseteq SUBSET S
    OBVIOUS
  <2> HIDE DEF C
  <2> QED BY <1>1, <2>1, MinimalSubset
<1>3. IsFiniteSet(U) /\ U \subseteq S
  BY FS_Subset
<1>4. U # {}
  BY SumEmpty
<1>5. First(U) \in U
  BY <1>4, FirstIn
<1>6. SumFunctionOnSet(w, U \ {First(U)}) = 0
  BY <1>2, <1>5
<1>7. SumFunctionOnSet(w, U) = w[First(U)] + SumFunctionOnSet(w, U \ {First(U)})
  BY <1>3, <1>4, SumUnfolds
<1> QED BY <1>3, <1>5, <1>6, <1>7

-----------------------------------------------------------------------------
(* The queue: an event is dispatched once or more, a job is executed by at  *)
(* most one slot at a time, and a slot remembers what its handler has done. *)

Topics == {"upload.finalize", "import.analyze"}
Fin(f) == Work("upload.finalize", f)
Ana(f) == Work("import.analyze", f)
Events == {Event(topic, f) : topic \in Topics, f \in Files}
JobRow == [event : Events, state : JobStates, retries : Nat, overtaken : BOOLEAN, marked : BOOLEAN]
JobFits(w, job) ==
  /\ job.event \in outbox /\ job.event.work = w
  /\ job.retries <= RetryLimit
  /\ job.state = "retry" => job.retries < RetryLimit
  /\ job.marked => job.state = "failed"
JobsOK ==
  /\ jobs \in [Works -> Seq(JobRow)]
  /\ \A w \in Works : \A n \in DOMAIN jobs[w] : JobFits(w, jobs[w][n])
EventsOK == outbox \subseteq Events /\ sent \subseteq outbox
Attempting == {"reserve", "write", "commit"}
Run == [reserved : BOOLEAN, written : BOOLEAN]   \* what the handler remembers
SlotFits(v) ==
  v = Idle \/
    (/\ "pc" \in DOMAIN v
     /\ v.pc \in {"fetched", "work", "reserve", "write", "commit", "tidy", "undo", "project", "sweep",
                  "classify", "ack"}
     /\ v.work \in Works /\ v.n \in DOMAIN jobs[v.work]
     /\ v.pc \in Attempting \cup {"tidy", "undo", "sweep"} => v.work.topic = "upload.finalize"
     /\ v.pc = "classify" => v.work.topic = "import.analyze"
     /\ v.pc \in {"reserve", "write"} => ~v.run.written
     /\ v.pc = "commit" => v.run.written
     /\ v.pc \in Attempting \cup {"undo"} => v.run \in Run
     /\ v.pc = "ack" => v.result \in {"completed", "deadletter", "failed"}
     /\ v.pc \in {"project", "sweep"} => v.result \in {"deadletter", "failed"})
SlotsOK == DOMAIN slot = Slots /\ \A s \in Slots : SlotFits(slot[s])
RecOK ==
  rec # RecIdle => /\ rec = [pc |-> rec.pc, work |-> rec.work, n |-> rec.n]
                   /\ rec.pc \in {"project", "sweep", "record"}
                   /\ rec.work \in Works /\ rec.n \in DOMAIN jobs[rec.work]
                   /\ Job(rec).state = "failed" /\ ~Job(rec).marked
                   /\ rec.pc = "sweep" => rec.work.topic = "upload.finalize"
Exclusive ==
  \A s \in Slots : Executing(s) =>
    /\ \A t \in Slots : t # s /\ Executing(t) => slot[t].work # slot[s].work
    /\ rec # RecIdle => rec.work # slot[s].work
    /\ ~Job(slot[s]).marked
QueueInv == scenario \in Scenarios /\ EventsOK /\ JobsOK /\ SlotsOK /\ RecOK /\ Exclusive

-----------------------------------------------------------------------------
(* What a behaviour is about never changes.                                 *)
LEMMA Fixed ==
  ASSUME scenario' = scenario
  PROVE  /\ Shape' = Shape /\ Files' = Files /\ Batches' = Batches /\ Works' = Works
         /\ Events' = Events /\ JobRow' = JobRow /\ RetryLimit' = RetryLimit /\ Requests' = Requests
         /\ MaxBatchBytes' = MaxBatchBytes /\ MaxFiles' = MaxFiles /\ MaxExpanded' = MaxExpanded
<1>1. Shape' = Shape /\ RetryLimit' = RetryLimit /\ Requests' = Requests
      /\ MaxBatchBytes' = MaxBatchBytes /\ MaxFiles' = MaxFiles /\ MaxExpanded' = MaxExpanded
  BY DEF Shape, RetryLimit, Requests, MaxBatchBytes, MaxFiles, MaxExpanded
<1>2. Files' = Files
  BY <1>1 DEF Files
<1>3. Batches' = Batches /\ Works' = Works
  BY <1>1, <1>2 DEF Batches, Works
<1>4. Events' = Events
  BY <1>2 DEF Events
<1>5. JobRow' = JobRow
  BY <1>4 DEF JobRow
<1> QED BY <1>1, <1>2, <1>3, <1>4, <1>5

LEMMA WorkFacts ==
  ASSUME NEW w \in Works
  PROVE  /\ w.topic \in Topics /\ w.obj \in Files /\ w = Work(w.topic, w.obj)
         /\ w.topic = "upload.finalize" \/ w.topic = "import.analyze"
BY DEF Works, Work, Topics

LEMMA FileWorks ==
  ASSUME NEW f \in Files
  PROVE  /\ Fin(f) \in Works /\ Fin(f).topic = "upload.finalize" /\ Fin(f).obj = f
         /\ Ana(f) \in Works /\ Ana(f).topic = "import.analyze" /\ Ana(f).obj = f
BY DEF Works, Work, Fin, Ana

LEMMA EventFacts ==
  ASSUME NEW e \in Events
  PROVE  /\ e.work \in Works /\ e = Event(e.work.topic, e.work.obj) /\ e.work.obj \in Files
         /\ e.work = Work(e.work.topic, e.work.obj)
<1>1. PICK topic \in Topics, f \in Files : e = Event(topic, f)
  BY DEF Events
<1>2. e.work = Work(topic, f) /\ e.work.topic = topic /\ e.work.obj = f
  BY <1>1 DEF Event, Work
<1> QED BY <1>1, <1>2 DEF Works, Work, Topics

LEMMA EventsTyped ==
  ASSUME NEW f \in Files, NEW topic \in Topics
  PROVE  Event(topic, f) \in Events
BY DEF Events

LEMMA EventWork ==
  ASSUME NEW f \in Files
  PROVE  /\ Event("upload.finalize", f).work = Fin(f) /\ Event("import.analyze", f).work = Ana(f)
BY DEF Event, Fin, Ana

-----------------------------------------------------------------------------
(* What steps do to jobs.                                                   *)

JobsKept ==
  \A w \in Works : \A n \in DOMAIN jobs[w] :
    n \in DOMAIN jobs'[w] /\ jobs'[w][n].event = jobs[w][n].event

FailedKept ==
  \A w \in Works : \A n \in DOMAIN jobs[w] :
    /\ jobs[w][n].state = "failed" /\ ~jobs[w][n].marked
         => jobs'[w][n].state = "failed" /\ ~jobs'[w][n].marked
    /\ ~jobs[w][n].marked => ~jobs'[w][n].marked

Edited(w, n, job) ==
  /\ \A v \in Works : DOMAIN jobs'[v] = DOMAIN jobs[v] /\ Len(jobs'[v]) = Len(jobs[v])
  /\ \A v \in Works : \A m \in DOMAIN jobs[v] :
       jobs'[v][m] = IF v = w /\ m = n THEN job ELSE jobs[v][m]

JobEdit(w, n, job) ==
  /\ job \in JobRow /\ job.event = jobs[w][n].event /\ job.retries <= RetryLimit
  /\ job.state = "retry" => job.retries < RetryLimit
  /\ job.marked => job.state = "failed"

LEMMA EditJob ==
  ASSUME JobsOK, outbox \subseteq outbox', scenario' = scenario,
         NEW w \in Works, NEW n \in DOMAIN jobs[w], NEW job, JobEdit(w, n, job),
         jobs' = [jobs EXCEPT ![w][n] = job]
  PROVE  JobsOK' /\ JobsKept /\ Edited(w, n, job)
<1>0. job \in JobRow
  BY DEF JobEdit
<1>1. jobs \in [Works -> Seq(JobRow)] /\ jobs[w] \in Seq(JobRow)
  BY DEF JobsOK
<1> DEFINE row == [jobs[w] EXCEPT ![n] = job]
<1>2. row \in Seq(JobRow) /\ DOMAIN row = DOMAIN jobs[w] /\ Len(row) = Len(jobs[w])
      /\ \A m \in DOMAIN jobs[w] : row[m] = IF m = n THEN job ELSE jobs[w][m]
  BY <1>0, <1>1
<1>3. jobs' = [jobs EXCEPT ![w] = row]
  OBVIOUS
<1> HIDE DEF row
<1>4. jobs' \in [Works -> Seq(JobRow)]
  BY <1>1, <1>2, <1>3
<1>5. Edited(w, n, job)
  BY <1>1, <1>2, <1>3 DEF Edited
<1>6. RetryLimit' = RetryLimit /\ Works' = Works /\ JobRow' = JobRow
  BY Fixed
<1>7. ASSUME NEW v \in Works, NEW m \in DOMAIN jobs'[v]
      PROVE  JobFits(v, jobs[v][m])'
  <2>1. m \in DOMAIN jobs[v] /\ JobFits(v, jobs[v][m])
    BY <1>5, <1>7 DEF Edited, JobsOK
  <2>2. jobs'[v][m] = IF v = w /\ m = n THEN job ELSE jobs[v][m]
    BY <1>5, <2>1 DEF Edited
  <2> QED BY <1>6, <2>1, <2>2 DEF JobFits, JobEdit
<1>8. JobsKept
  BY <1>5 DEF Edited, JobsKept, JobEdit
<1> QED BY <1>4, <1>5, <1>6, <1>7, <1>8 DEF JobsOK

LEMMA EditKeepsFailed ==
  ASSUME NEW w \in Works, NEW n \in DOMAIN jobs[w], NEW job, Edited(w, n, job),
         jobs[w][n].state = "failed" => job = jobs[w][n],
         ~jobs[w][n].marked => ~job.marked
  PROVE  FailedKept
BY DEF Edited, FailedKept

Appended(e) ==
  /\ \A v \in Works \ {e.work} : jobs'[v] = jobs[v]
  /\ Len(jobs'[e.work]) = Len(jobs[e.work]) + 1
  /\ DOMAIN jobs'[e.work] = DOMAIN jobs[e.work] \cup {Len(jobs[e.work]) + 1}
  /\ \A n \in DOMAIN jobs[e.work] : jobs'[e.work][n] = jobs[e.work][n]
  /\ jobs'[e.work][Len(jobs[e.work]) + 1] = NewJob(e)

LEMMA SendJob ==
  ASSUME QueueInv, outbox' = outbox, scenario' = scenario, NEW e \in outbox, Send(e)
  PROVE  JobsOK' /\ JobsKept /\ FailedKept /\ Appended(e)
<1> DEFINE w == e.work
           job == NewJob(e)
<1>0. RetryLimit \in Nat /\ RetryLimit' = RetryLimit /\ Works' = Works /\ JobRow' = JobRow
  BY JobQueueAssumption, Fixed DEF RetryLimit, QueueInv
<1>1. jobs \in [Works -> Seq(JobRow)] /\ w \in Works /\ jobs[w] \in Seq(JobRow) /\ e \in Events
  BY EventFacts DEF JobsOK, EventsOK, QueueInv
<1>2. job \in JobRow
  BY <1>1 DEF NewJob, JobRow, JobStates
<1>3. JobFits(w, job)'
  BY <1>0 DEF NewJob, JobFits
<1>4. jobs' = [jobs EXCEPT ![w] = Append(jobs[w], job)]
  BY DEF Send
<1> HIDE DEF job, w
<1>5. Append(jobs[w], job) \in Seq(JobRow)
      /\ Len(Append(jobs[w], job)) = Len(jobs[w]) + 1
      /\ DOMAIN Append(jobs[w], job) = 1..(Len(jobs[w]) + 1) /\ DOMAIN jobs[w] = 1..Len(jobs[w])
      /\ Len(jobs[w]) \in Nat
      /\ Append(jobs[w], job)[Len(jobs[w]) + 1] = job
      /\ \A n \in 1..Len(jobs[w]) : Append(jobs[w], job)[n] = jobs[w][n]
  BY <1>1, <1>2
<1>6. jobs' \in [Works -> Seq(JobRow)]
  BY <1>1, <1>4, <1>5
<1>7. 1..(Len(jobs[w]) + 1) = 1..Len(jobs[w]) \cup {Len(jobs[w]) + 1}
  BY <1>5
<1>8. /\ \A v \in Works \ {w} : jobs'[v] = jobs[v]
      /\ jobs'[w] = Append(jobs[w], job)
  BY <1>1, <1>4
<1>9. Appended(e)
  BY <1>5, <1>7, <1>8 DEF Appended, w, job
<1>10. ASSUME NEW v \in Works, NEW n \in DOMAIN jobs'[v]
       PROVE  JobFits(v, jobs[v][n])'
  <2>1. CASE n \in DOMAIN jobs[v] /\ jobs'[v][n] = jobs[v][n]
    BY <1>0, <2>1 DEF QueueInv, JobsOK, JobFits
  <2>2. CASE v = w /\ jobs'[v][n] = job
    BY <1>3, <2>2
  <2> QED BY <1>5, <1>7, <1>8, <1>10, <2>1, <2>2
<1>11. JobsKept /\ FailedKept
  <2>1. \A v \in Works : \A n \in DOMAIN jobs[v] : n \in DOMAIN jobs'[v] /\ jobs'[v][n] = jobs[v][n]
    BY <1>5, <1>7, <1>8
  <2> QED BY <2>1 DEF JobsKept, FailedKept
<1> QED BY <1>0, <1>6, <1>9, <1>10, <1>11 DEF JobsOK

LEMMA SameJobs ==
  ASSUME JobsOK, outbox \subseteq outbox', scenario' = scenario, jobs' = jobs
  PROVE  JobsOK' /\ JobsKept /\ FailedKept
<1>1. RetryLimit' = RetryLimit /\ Works' = Works /\ JobRow' = JobRow
  BY Fixed
<1> QED BY <1>1 DEF JobsOK, JobsKept, FailedKept, JobFits

-----------------------------------------------------------------------------
(* What steps do to slots and to the reconciler.                            *)

LEMMA SlotFacts ==
  ASSUME QueueInv, NEW s \in Slots, slot[s] # Idle
  PROVE  /\ SlotFits(slot[s]) /\ slot[s].work \in Works /\ slot[s].n \in DOMAIN jobs[slot[s].work]
         /\ slot[s].work.obj \in Files /\ slot[s].pc # "idle" /\ "pc" \in DOMAIN slot[s]
         /\ Job(slot[s]).event \in outbox /\ Job(slot[s]).event.work = slot[s].work
         /\ Job(slot[s]) \in JobRow
<1>1. slot[s].work \in Works /\ slot[s].n \in DOMAIN jobs[slot[s].work] /\ SlotFits(slot[s])
      /\ slot[s].pc # "idle" /\ "pc" \in DOMAIN slot[s]
  BY DEF QueueInv, SlotsOK, SlotFits
<1>2. jobs[slot[s].work] \in Seq(JobRow)
  BY <1>1 DEF QueueInv, JobsOK
<1>3. Job(slot[s]) \in JobRow
  BY <1>1, <1>2 DEF Job
<1>4. JobFits(slot[s].work, Job(slot[s]))
  BY <1>1 DEF QueueInv, JobsOK, Job
<1> QED BY <1>1, <1>3, <1>4, WorkFacts DEF JobFits

LEMMA SlotsKept ==
  ASSUME SlotsOK, JobsKept, scenario' = scenario, slot' = slot
  PROVE  SlotsOK'
BY Fixed DEF SlotsOK, SlotFits, JobsKept

LEMMA SlotWritten ==
  ASSUME SlotsOK, JobsKept, scenario' = scenario,
         NEW s \in Slots, NEW v, slot' = [slot EXCEPT ![s] = v], SlotFits(v)
  PROVE  SlotsOK' /\ \A t \in Slots : slot'[t] = IF t = s THEN v ELSE slot[t]
<1>1. \A t \in Slots : slot'[t] = IF t = s THEN v ELSE slot[t]
  BY DEF SlotsOK
<1>2. DOMAIN slot' = Slots
  BY DEF SlotsOK
<1>3. \A t \in Slots : SlotFits(slot'[t])
  BY <1>1 DEF SlotsOK
<1>4. ASSUME NEW t \in Slots PROVE SlotFits(slot[t])'
  BY <1>3, <1>4, Fixed DEF SlotFits, JobsKept
<1> QED BY <1>1, <1>2, <1>4 DEF SlotsOK

LEMMA RecKept ==
  ASSUME RecOK, JobsKept, FailedKept, scenario' = scenario, rec' = rec
  PROVE  RecOK'
BY Fixed DEF RecOK, JobsKept, FailedKept, Job

(* Locks: nobody starts, whoever runs keeps its work.                       *)
LEMMA LocksKept ==
  ASSUME QueueInv, JobsKept, FailedKept,
         rec' = rec \/ rec' = RecIdle \/ (rec # RecIdle /\ rec'.work = rec.work),
         \A t \in Slots :
           \/ slot'[t] = slot[t]
           \/ slot'[t].pc \in {"idle", "fetched", "ack"}
           \/ slot[t].pc \notin {"idle", "fetched", "ack"} /\ slot'[t].work = slot[t].work /\ slot'[t].n = slot[t].n
  PROVE  Exclusive'
<1> SUFFICES ASSUME NEW s \in Slots, slot'[s].pc \notin {"idle", "fetched", "ack"}
    PROVE  /\ \A t \in Slots : t # s /\ slot'[t].pc \notin {"idle", "fetched", "ack"} => slot'[t].work # slot'[s].work
           /\ rec' # RecIdle => rec'.work # slot'[s].work
           /\ ~(Job(slot[s]).marked)'
  BY DEF Exclusive, Executing
<1>1. \A t \in Slots : slot'[t].pc \notin {"idle", "fetched", "ack"} =>
        slot[t].pc \notin {"idle", "fetched", "ack"} /\ slot'[t].work = slot[t].work /\ slot'[t].n = slot[t].n
  OBVIOUS
<1>2. ~Job(slot[s]).marked /\ slot[s] # Idle
  BY <1>1 DEF QueueInv, Exclusive, Executing, Idle
<1>3. ~(Job(slot[s]).marked)'
  BY <1>1, <1>2, SlotFacts DEF Job, FailedKept
<1> QED BY <1>1, <1>3 DEF QueueInv, Exclusive, Executing

-----------------------------------------------------------------------------
(* The queue keeps its invariant.                                           *)

LEMMA StagingQueue ==
  ASSUME QueueInv, UNCHANGED <<sent, jobs, slot, rec, scenario>>,
         outbox \subseteq outbox', outbox' \subseteq Events
  PROVE  QueueInv'
<1>1. JobsOK' /\ JobsKept /\ FailedKept
  BY SameJobs DEF QueueInv
<1>2. SlotsOK' /\ RecOK'
  BY <1>1, SlotsKept, RecKept DEF QueueInv
<1>3. Exclusive'
  BY DEF QueueInv, Exclusive, Executing, Job
<1>4. EventsOK' /\ scenario' \in Scenarios
  BY Fixed DEF EventsOK, QueueInv
<1> QED BY <1>1, <1>2, <1>3, <1>4 DEF QueueInv

LEMMA QueueJobFacts ==
  ASSUME QueueInv, NEW w \in Works, NEW n \in DOMAIN jobs[w]
  PROVE  /\ jobs[w][n] \in JobRow /\ JobFits(w, jobs[w][n]) /\ RetryLimit \in Nat
         /\ jobs[w] \in Seq(JobRow) /\ jobs[w][n].event \in outbox /\ jobs[w][n].event.work = w
BY JobQueueAssumption DEF QueueInv, JobsOK, RetryLimit, JobFits

LEMMA AttemptEdits ==
  ASSUME NEW job \in JobRow, RetryLimit \in Nat, job.retries <= RetryLimit, ~job.marked,
         NEW end \in {FailAttempt(job), [job EXCEPT !.state = "completed", !.retries = 0],
                     [job EXCEPT !.state = "failed", !.retries = 0]}
  PROVE  /\ end \in JobRow /\ end.event = job.event /\ end.retries <= RetryLimit /\ ~end.marked
         /\ end.state = "retry" => end.retries < RetryLimit
<1> DEFINE completed == [job EXCEPT !.state = "completed", !.retries = 0]
           failed    == [job EXCEPT !.state = "failed", !.retries = 0]
           retry     == [job EXCEPT !.state = "retry"]
<1>1. completed \in JobRow /\ failed \in JobRow /\ retry \in JobRow
  BY DEF JobRow, JobStates
<1>2. completed.event = job.event /\ failed.event = job.event /\ retry.event = job.event
  BY DEF JobRow
<1>3. completed.retries = 0 /\ failed.retries = 0 /\ retry.retries = job.retries /\ job.retries \in Nat
  BY DEF JobRow
<1>4. completed.marked = job.marked /\ failed.marked = job.marked /\ retry.marked = job.marked
  BY DEF JobRow
<1>5. completed.state = "completed" /\ failed.state = "failed" /\ retry.state = "retry"
  BY DEF JobRow
<1>6. end = completed \/ end = failed \/ (end = retry /\ job.retries < RetryLimit)
  BY DEF FailAttempt
<1> HIDE DEF completed, failed, retry
<1> QED BY <1>1, <1>2, <1>3, <1>4, <1>5, <1>6

(* What becomes of a job when an attempt ends.                              *)
LEMMA EndedJob ==
  ASSUME QueueInv, NEW w \in Works, NEW n \in DOMAIN jobs[w],
         NEW result \in {"completed", "deadletter", "failed"}
  PROVE  LET job == jobs[w][n]  acked == Acknowledged(job, result)
         IN  /\ JobEdit(w, n, acked)
             /\ job.state = "failed" => acked = job
             /\ ~job.marked => ~acked.marked
             /\ acked.state = "completed" => job.state = "completed" \/ result = "completed"
<1> DEFINE job == jobs[w][n]
           acked == Acknowledged(job, result)
<1>1. job \in JobRow /\ JobFits(w, job) /\ RetryLimit \in Nat
  BY QueueJobFacts
<1>2. CASE job.state # "active"
  BY <1>1, <1>2 DEF Acknowledged, JobEdit, JobFits
<1>3. CASE job.state = "active"
  <2>1. ~job.marked /\ job.retries <= RetryLimit
    BY <1>1, <1>3 DEF JobFits
  <2>2. acked \in {FailAttempt(job), [job EXCEPT !.state = "completed", !.retries = 0],
                   [job EXCEPT !.state = "failed", !.retries = 0]}
    <3>1. CASE result = "completed"
      BY <1>3, <3>1 DEF Acknowledged
    <3>2. CASE result = "deadletter"
      BY <1>3, <3>2 DEF Acknowledged
    <3>3. CASE result = "failed"
      BY <1>3, <3>3 DEF Acknowledged
    <3> QED BY <3>1, <3>2, <3>3
  <2>3. JobEdit(w, n, acked) /\ ~acked.marked
    BY <1>1, <2>1, <2>2, AttemptEdits DEF JobEdit, JobFits
  <2>4. acked.state = "completed" => result = "completed"
    <3>1. FailAttempt(job).state \in {"retry", "failed"}
      BY <1>1 DEF FailAttempt, JobRow
    <3>2. [job EXCEPT !.state = "failed", !.retries = 0].state = "failed"
      BY <1>1 DEF JobRow
    <3> QED BY <1>3, <3>1, <3>2 DEF Acknowledged
  <2> QED BY <1>3, <2>3, <2>4
<1> QED BY <1>2, <1>3

LEMMA FailedAttempt ==
  ASSUME QueueInv, NEW w \in Works, NEW n \in DOMAIN jobs[w], jobs[w][n].state = "active"
  PROVE  /\ JobEdit(w, n, FailAttempt(jobs[w][n])) /\ ~FailAttempt(jobs[w][n]).marked
         /\ FailAttempt(jobs[w][n]).state # "completed"
<1>1. Acknowledged(jobs[w][n], "failed") = FailAttempt(jobs[w][n])
  BY DEF Acknowledged
<1>2. ~jobs[w][n].marked
  BY QueueJobFacts DEF JobFits
<1> QED BY <1>1, <1>2, EndedJob

LEMMA DispatchQueue ==
  ASSUME QueueInv, NEW e \in outbox, Dispatch(e) \/ DispatchUnmarked(e), scenario' = scenario
  PROVE  QueueInv' /\ Appended(e) /\ JobsKept /\ UNCHANGED <<outbox, slot, rec>>
         /\ (sent' = sent \cup {e} \/ sent' = sent)
<1>1. /\ Send(e) /\ UNCHANGED <<outbox, slot, rec>>
      /\ sent' = sent \cup {e} \/ sent' = sent
  BY DEF Dispatch, DispatchUnmarked
<1>2. JobsOK' /\ JobsKept /\ FailedKept /\ Appended(e)
  BY <1>1, SendJob
<1>3. SlotsOK' /\ RecOK'
  BY <1>1, <1>2, SlotsKept, RecKept DEF QueueInv
<1>4. Exclusive'
  BY <1>1, <1>2, <1>3, LocksKept
<1>5. EventsOK' /\ scenario' \in Scenarios
  BY <1>1, Fixed DEF QueueInv, EventsOK
<1> QED BY <1>1, <1>2, <1>3, <1>4, <1>5 DEF QueueInv

(* A job that has not failed is edited, and perhaps a slot written that     *)
(* does not start.                                                          *)
LEMMA EditQueue ==
  ASSUME QueueInv, UNCHANGED <<outbox, sent, rec, scenario>>,
         NEW w \in Works, NEW n \in DOMAIN jobs[w], NEW job, JobEdit(w, n, job),
         jobs' = [jobs EXCEPT ![w][n] = job],
         jobs[w][n].state = "failed" => job = jobs[w][n], ~jobs[w][n].marked => ~job.marked
  PROVE  /\ Edited(w, n, job) /\ JobsKept
         /\ SlotsOK' /\ (\A t \in Slots : slot'[t] = slot[t] \/ slot'[t].pc \in {"idle", "fetched", "ack"})
              => QueueInv'
<1>1. JobsOK' /\ JobsKept /\ Edited(w, n, job)
  BY EditJob DEF QueueInv
<1>2. FailedKept
  BY <1>1, EditKeepsFailed
<1>3. RecOK'
  BY <1>1, <1>2, RecKept DEF QueueInv
<1>5. (\A t \in Slots : slot'[t] = slot[t] \/ slot'[t].pc \in {"idle", "fetched", "ack"}) => Exclusive'
  BY <1>1, <1>2, LocksKept
<1>6. EventsOK' /\ scenario' \in Scenarios
  BY Fixed DEF QueueInv, EventsOK
<1> QED BY <1>1, <1>3, <1>5, <1>6 DEF QueueInv

LEMMA FetchQueue ==
  ASSUME QueueInv, NEW s \in Slots, NEW w \in Works, NEW n \in DOMAIN jobs[w], Fetch(s, w, n),
         scenario' = scenario
  PROVE  /\ QueueInv' /\ JobsKept /\ UNCHANGED <<outbox, sent, rec>>
         /\ slot[s] = Idle /\ slot'[s].pc = "fetched" /\ \A t \in Slots : t # s => slot'[t] = slot[t]
         /\ \E job : Edited(w, n, job) /\ job.state = "active" /\ ~job.marked
<1> DEFINE job == jobs[w][n]
           retries == IF job.state = "retry" THEN job.retries + 1 ELSE job.retries
           active == [job EXCEPT !.state = "active", !.retries = retries]
           v == [pc |-> "fetched", work |-> w, n |-> n, last |-> retries >= RetryLimit]
<1>1. job \in JobRow /\ JobFits(w, job) /\ RetryLimit \in Nat
  BY QueueJobFacts
<1>2. job.retries \in Nat /\ retries \in Nat /\ retries <= RetryLimit
  BY <1>1 DEF JobRow, JobFits
<1>3. /\ job.state \in {"created", "retry"} /\ slot[s] = Idle
      /\ jobs' = [jobs EXCEPT ![w][n] = active]
      /\ slot' = [slot EXCEPT ![s] = v]
      /\ UNCHANGED <<outbox, sent, rec>>
  BY DEF Fetch
<1>4. JobEdit(w, n, active) /\ ~active.marked /\ active.state = "active"
  <2>1. active \in JobRow
    BY <1>1, <1>2 DEF JobRow, JobStates
  <2>2. active.event = job.event /\ active.retries = retries /\ active.state = "active"
    BY <1>1 DEF JobRow
  <2>3. active.marked = job.marked
    BY <1>1 DEF JobRow
  <2>4. ~job.marked
    BY <1>1, <1>3 DEF JobFits
  <2> QED BY <1>2, <2>1, <2>2, <2>3, <2>4 DEF JobEdit
<1>5. SlotFits(v) /\ v.pc = "fetched"
  BY DEF SlotFits, Attempting
<1> HIDE DEF v, active
<1>6. /\ Edited(w, n, active) /\ JobsKept
      /\ SlotsOK' /\ (\A t \in Slots : slot'[t] = slot[t] \/ slot'[t].pc \in {"idle", "fetched", "ack"}) => QueueInv'
  BY <1>3, <1>4, EditQueue
<1>7. SlotsOK' /\ \A t \in Slots : slot'[t] = IF t = s THEN v ELSE slot[t]
  BY <1>3, <1>5, <1>6, SlotWritten DEF QueueInv
<1> QED BY <1>3, <1>4, <1>5, <1>6, <1>7

LEMMA ExpireQueue ==
  ASSUME QueueInv, NEW w \in Works, NEW n \in DOMAIN jobs[w], Expire(w, n) \/ ExpireLate(w, n),
         scenario' = scenario
  PROVE  /\ QueueInv' /\ JobsKept /\ UNCHANGED <<outbox, sent, slot, rec>>
         /\ \E job : Edited(w, n, job) /\ job.state # "completed" /\ ~job.marked
<1>1. /\ jobs[w][n].state = "active"
      /\ jobs' = [jobs EXCEPT ![w][n] = FailAttempt(jobs[w][n])]
      /\ UNCHANGED <<outbox, sent, slot, rec>>
  BY DEF Expire, ExpireLate
<1> DEFINE job == FailAttempt(jobs[w][n])
<1>2. JobEdit(w, n, job) /\ ~job.marked /\ job.state # "completed"
  BY <1>1, FailedAttempt
<1> HIDE DEF job
<1>3. jobs' = [jobs EXCEPT ![w][n] = job]
  BY <1>1 DEF job
<1>4. /\ Edited(w, n, job) /\ JobsKept
      /\ SlotsOK' /\ (\A t \in Slots : slot'[t] = slot[t] \/ slot'[t].pc \in {"idle", "fetched", "ack"}) => QueueInv'
  BY <1>1, <1>2, <1>3, EditQueue
<1>5. SlotsOK'
  BY <1>1, <1>4, SlotsKept DEF QueueInv
<1> QED BY <1>1, <1>2, <1>4, <1>5

LEMMA AckQueue ==
  ASSUME QueueInv, NEW s \in Slots, Ack(s), scenario' = scenario
  PROVE  LET w == slot[s].work  n == slot[s].n
         IN  /\ QueueInv' /\ JobsKept /\ UNCHANGED <<outbox, sent, rec>>
             /\ slot[s] # Idle /\ slot[s].pc = "ack" /\ w \in Works /\ n \in DOMAIN jobs[w]
             /\ slot'[s] = Idle /\ \A t \in Slots : t # s => slot'[t] = slot[t]
             /\ \E job : /\ Edited(w, n, job)
                         /\ job.state = "completed" => jobs[w][n].state = "completed" \/ slot[s].result = "completed"
                         /\ job.marked = jobs[w][n].marked
<1>1. slot[s] # Idle /\ slot[s].pc = "ack"
  BY DEF Ack, Idle
<1>2. SlotFits(slot[s]) /\ slot[s].work \in Works /\ slot[s].n \in DOMAIN jobs[slot[s].work]
  BY <1>1, SlotFacts
<1>3. slot[s].result \in {"completed", "deadletter", "failed"}
  BY <1>1, <1>2 DEF SlotFits
<1> DEFINE w == slot[s].work
           n == slot[s].n
           job == jobs[w][n]
           acked == Acknowledged(job, slot[s].result)
<1>4. /\ JobEdit(w, n, acked) /\ (job.state = "failed" => acked = job) /\ (~job.marked => ~acked.marked)
      /\ acked.state = "completed" => job.state = "completed" \/ slot[s].result = "completed"
  BY <1>2, <1>3, EndedJob
<1>5. /\ jobs' = [jobs EXCEPT ![w][n] = acked]
      /\ slot' = [slot EXCEPT ![s] = Idle]
      /\ UNCHANGED <<outbox, sent, rec>>
  BY DEF Ack
<1>6. acked.marked = job.marked
  <2>1. job \in JobRow /\ JobFits(w, job) /\ acked \in JobRow
    BY <1>2, <1>4, QueueJobFacts DEF JobEdit
  <2>2. job.marked => acked.marked
    BY <1>4, <2>1 DEF JobFits
  <2> QED BY <1>4, <2>1, <2>2 DEF JobRow
<1>7. SlotFits(Idle) /\ Idle.pc = "idle"
  BY DEF SlotFits, Idle
<1> HIDE DEF acked
<1>8. /\ Edited(w, n, acked) /\ JobsKept
      /\ SlotsOK' /\ (\A t \in Slots : slot'[t] = slot[t] \/ slot'[t].pc \in {"idle", "fetched", "ack"}) => QueueInv'
  BY <1>2, <1>4, <1>5, EditQueue
<1>9. SlotsOK' /\ \A t \in Slots : slot'[t] = IF t = s THEN Idle ELSE slot[t]
  BY <1>5, <1>7, <1>8, SlotWritten DEF QueueInv
<1> QED BY <1>1, <1>2, <1>4, <1>5, <1>6, <1>7, <1>8, <1>9

LEMMA BeginQueue ==
  ASSUME QueueInv, NEW s \in Slots, Begin(s), scenario' = scenario
  PROVE  /\ QueueInv' /\ UNCHANGED <<outbox, sent, jobs, rec>>
         /\ slot[s] # Idle /\ slot[s].pc = "fetched"
         /\ slot'[s] = Idle \/ (slot'[s].pc = "work" /\ slot'[s].work = slot[s].work)
         /\ \A t \in Slots : t # s => slot'[t] = slot[t]
<1>1. slot[s] # Idle /\ slot[s].pc = "fetched" /\ UNCHANGED <<outbox, sent, jobs, rec>>
      /\ LockFree(slot[s].work)
      /\ slot' = [slot EXCEPT ![s] = IF Job(slot[s]).state = "active"
                                     THEN [slot[s] EXCEPT !.pc = "work"] ELSE Idle]
  BY DEF Begin, Idle
<1>2. JobsOK' /\ JobsKept /\ FailedKept
  BY <1>1, SameJobs DEF QueueInv
<1>3. RecOK'
  BY <1>1, <1>2, RecKept DEF QueueInv
<1>4. EventsOK' /\ scenario' \in Scenarios
  BY <1>1, Fixed DEF QueueInv, EventsOK
<1>5. CASE Job(slot[s]).state # "active"
  <2>1. slot' = [slot EXCEPT ![s] = Idle] /\ SlotFits(Idle)
    BY <1>1, <1>5 DEF SlotFits
  <2>2. SlotsOK' /\ \A t \in Slots : slot'[t] = IF t = s THEN Idle ELSE slot[t]
    BY <1>2, <2>1, SlotWritten DEF QueueInv
  <2>3. Exclusive'
    BY <1>1, <1>2, <2>2, LocksKept DEF Idle
  <2> QED BY <1>1, <1>2, <1>3, <1>4, <2>2, <2>3 DEF QueueInv
<1>6. CASE Job(slot[s]).state = "active"
  <2> DEFINE v == [slot[s] EXCEPT !.pc = "work"]
  <2>1. slot' = [slot EXCEPT ![s] = v]
    BY <1>1, <1>6
  <2>2. "pc" \in DOMAIN v /\ v.pc = "work" /\ v.work = slot[s].work /\ v.n = slot[s].n
    BY <1>1, SlotFacts
  <2>3. SlotFits(v)
    BY <1>1, <2>2, SlotFacts DEF SlotFits, Attempting
  <2> HIDE DEF v
  <2>4. SlotsOK' /\ \A t \in Slots : slot'[t] = IF t = s THEN v ELSE slot[t]
    BY <1>2, <2>1, <2>3, SlotWritten DEF QueueInv
  <2>5. ~Job(slot[s]).marked
    BY <1>1, <1>6, SlotFacts, QueueJobFacts DEF JobFits, Job
  <2>6. Exclusive'
    <3> SUFFICES ASSUME NEW t \in Slots, Executing(t)'
        PROVE  /\ \A r \in Slots : r # t /\ Executing(r)' => slot'[r].work # slot'[t].work
               /\ rec' # RecIdle => rec'.work # slot'[t].work
               /\ ~(Job(slot[t]).marked)'
      BY DEF Exclusive
    <3>1. CASE t = s
      BY <1>1, <2>2, <2>4, <2>5, <3>1 DEF LockFree, Executing, Job
    <3>2. CASE t # s
      BY <1>1, <2>2, <2>4, <3>2 DEF LockFree, Executing, Job, QueueInv, Exclusive
    <3> QED BY <3>1, <3>2
  <2> QED BY <1>1, <1>2, <1>3, <1>4, <2>2, <2>4, <2>6 DEF QueueInv
<1> QED BY <1>5, <1>6

LEMMA CrashQueue ==
  ASSUME QueueInv, NEW s \in Slots, Crash(s), scenario' = scenario
  PROVE  /\ QueueInv' /\ UNCHANGED <<outbox, sent, jobs, rec>>
         /\ slot'[s] = Idle /\ \A t \in Slots : t # s => slot'[t] = slot[t]
<1>1. UNCHANGED <<outbox, sent, jobs, rec>> /\ slot' = [slot EXCEPT ![s] = Idle] /\ SlotFits(Idle)
  BY DEF Crash, SlotFits
<1>2. JobsOK' /\ JobsKept /\ FailedKept
  BY <1>1, SameJobs DEF QueueInv
<1>3. RecOK'
  BY <1>1, <1>2, RecKept DEF QueueInv
<1>4. SlotsOK' /\ \A t \in Slots : slot'[t] = IF t = s THEN Idle ELSE slot[t]
  BY <1>1, <1>2, SlotWritten DEF QueueInv
<1>5. Exclusive'
  BY <1>1, <1>2, <1>4, LocksKept DEF Idle
<1>6. EventsOK' /\ scenario' \in Scenarios
  BY <1>1, Fixed DEF QueueInv, EventsOK
<1> QED BY <1>1, <1>2, <1>3, <1>4, <1>5, <1>6 DEF QueueInv

-----------------------------------------------------------------------------
(* Handlers.                                                                *)

Moved(s) ==
  /\ DOMAIN slot' = Slots /\ slot'[s] # Idle /\ slot'[s].pc # "idle"
  /\ slot'[s].work = slot[s].work /\ slot'[s].n = slot[s].n
  /\ \A t \in Slots : t # s => slot'[t] = slot[t]
  /\ SlotFits(slot'[s])

LEMMA HandlerQueue ==
  ASSUME QueueInv, UNCHANGED <<sent, jobs, rec, scenario>>,
         outbox \subseteq outbox', outbox' \subseteq Events,
         NEW s \in Slots, Executing(s), Moved(s)
  PROVE  QueueInv'
<1>1. JobsOK' /\ JobsKept /\ FailedKept
  BY SameJobs DEF QueueInv
<1>2. \A t \in Slots : SlotFits(slot'[t])
  BY DEF Moved, QueueInv, SlotsOK
<1>3. SlotsOK'
  <2>1. ASSUME NEW t \in Slots PROVE SlotFits(slot[t])'
    BY <1>1, <1>2, Fixed DEF SlotFits, JobsKept
  <2> QED BY <2>1 DEF SlotsOK, Moved
<1>4. RecOK'
  BY <1>1, RecKept DEF QueueInv
<1>5. Exclusive'
  BY <1>1, LocksKept DEF Moved, Executing
<1>6. EventsOK' /\ scenario' \in Scenarios
  BY Fixed DEF EventsOK, QueueInv
<1> QED BY <1>1, <1>3, <1>4, <1>5, <1>6 DEF QueueInv

LEMMA ExecutingFacts ==
  ASSUME QueueInv, NEW s \in Slots, Executing(s)
  PROVE  /\ slot[s] # Idle /\ slot[s].work \in Works /\ slot[s].n \in DOMAIN jobs[slot[s].work]
         /\ DOMAIN slot = Slots /\ Target(s) \in Files /\ slot[s].work.topic \in Topics
         /\ slot[s].work = Work(slot[s].work.topic, Target(s))
BY SlotFacts, WorkFacts DEF Executing, Idle, Target, QueueInv, SlotsOK

LEMMA ReportMoves ==
  ASSUME QueueInv, NEW s \in Slots, Executing(s),
         NEW result \in {"completed", "deadletter", "failed"}, Report(s, result)
  PROVE  Moved(s) /\ slot'[s].pc = "ack" /\ slot'[s].result = result
<1> DEFINE v == [pc |-> "ack", work |-> slot[s].work, n |-> slot[s].n, result |-> result]
<1>1. slot' = [slot EXCEPT ![s] = v]
  BY DEF Report
<1>2. SlotFits(v)
  BY ExecutingFacts DEF SlotFits, Attempting
<1> QED BY <1>1, <1>2, ExecutingFacts DEF Moved, Idle

LEMMA ContinueMoves ==
  ASSUME QueueInv, NEW s \in Slots, Executing(s),
         NEW pc \in Attempting \cup {"tidy", "classify"}, NEW run, Continue(s, pc, run),
         pc = "classify" => slot[s].work.topic = "import.analyze",
         pc # "classify" => slot[s].work.topic = "upload.finalize",
         pc \in {"reserve", "write"} => ~run.written, pc = "commit" => run.written,
         pc \in Attempting => run \in Run
  PROVE  Moved(s) /\ slot'[s].pc = pc /\ slot'[s].run = run
<1> DEFINE v == [pc |-> pc, work |-> slot[s].work, n |-> slot[s].n, last |-> slot[s].last, run |-> run]
<1>1. slot' = [slot EXCEPT ![s] = v]
  BY DEF Continue
<1>2. SlotFits(v)
  BY ExecutingFacts DEF SlotFits, Attempting
<1> QED BY <1>1, <1>2, ExecutingFacts DEF Moved, Idle, Attempting

LEMMA RaiseMoves ==
  ASSUME QueueInv, NEW s \in Slots, Executing(s), NEW run, NEW verdict, Raise(s, run, verdict),
         slot[s].work.topic = "upload.finalize", run \in Run
  PROVE  Moved(s) /\ slot'[s].pc = "undo" /\ slot'[s].run = run
<1> DEFINE v == [pc |-> "undo", work |-> slot[s].work, n |-> slot[s].n, last |-> slot[s].last,
                 run |-> run, verdict |-> verdict]
<1>1. slot' = [slot EXCEPT ![s] = v]
  BY DEF Raise
<1>2. SlotFits(v)
  BY ExecutingFacts DEF SlotFits, Attempting
<1> QED BY <1>1, <1>2, ExecutingFacts DEF Moved, Idle

LEMMA ProjectMoves ==
  ASSUME QueueInv, NEW s \in Slots, Executing(s), NEW pc \in {"project", "sweep"},
         NEW result \in {"deadletter", "failed"}, NEW code, ProjectThen(s, pc, result, code),
         pc = "sweep" => slot[s].work.topic = "upload.finalize"
  PROVE  Moved(s) /\ slot'[s].pc = pc /\ slot'[s].result = result
<1> DEFINE v == [pc |-> pc, work |-> slot[s].work, n |-> slot[s].n, last |-> slot[s].last,
                 result |-> result, code |-> code]
<1>1. slot' = [slot EXCEPT ![s] = v]
  BY DEF ProjectThen
<1>2. SlotFits(v)
  BY ExecutingFacts DEF SlotFits, Attempting
<1> QED BY <1>1, <1>2, ExecutingFacts DEF Moved, Idle

LEMMA TransientMoves ==
  ASSUME QueueInv, NEW s \in Slots, Executing(s), TransientFailure(s)
  PROVE  Moved(s) /\ slot'[s].pc \in {"ack", "project"} /\ slot'[s].result = "failed"
<1>1. CASE slot[s].last
  <2>1. ProjectThen(s, "project", "failed", "exhausted")
    BY <1>1 DEF TransientFailure
  <2> QED BY <2>1, ProjectMoves
<1>2. CASE ~slot[s].last
  <2>1. Report(s, "failed")
    BY <1>2 DEF TransientFailure
  <2> QED BY <2>1, ReportMoves
<1> QED BY <1>1, <1>2

-----------------------------------------------------------------------------
(* What each step of a handler does to the slot.                            *)

LEMMA RestoreMoves ==
  ASSUME QueueInv, NEW s \in Slots, Restore(s), scenario' = scenario
  PROVE  /\ QueueInv' /\ Executing(s) /\ Moved(s) /\ Target(s) \in Files /\ slot[s].work = Fin(Target(s))
         /\ slot'[s].pc = "ack" /\ slot'[s].result = "completed"
<1>1. /\ Executing(s) /\ slot[s].work.topic = "upload.finalize" /\ Report(s, "completed")
      /\ UNCHANGED <<sent, jobs, rec>>
      /\ outbox' \in {outbox, outbox \cup {Event("import.analyze", Target(s))}}
  BY DEF Restore, Handles, Executing, Target
<1>2. Moved(s) /\ slot'[s].pc = "ack" /\ slot'[s].result = "completed"
  BY <1>1, ReportMoves
<1>3. Target(s) \in Files /\ slot[s].work = Fin(Target(s))
  BY <1>1, ExecutingFacts DEF Fin
<1>4. outbox \subseteq outbox' /\ outbox' \subseteq Events
  BY <1>1, <1>3, EventsTyped DEF QueueInv, EventsOK, Topics
<1> QED BY <1>1, <1>2, <1>3, <1>4, HandlerQueue

LEMMA ClaimMoves ==
  ASSUME QueueInv, NEW s \in Slots, Claim(s), scenario' = scenario
  PROVE  LET f == Target(s)
             claimable == file[f].status \in {"COMPLETE", "ENCRYPTING"} /\ Archivable(Shape[f].batch)
         IN  /\ QueueInv' /\ Executing(s) /\ Moved(s) /\ f \in Files /\ slot[s].work = Fin(f)
             /\ claimable => slot'[s].pc = "reserve" /\ slot'[s].run = Fresh
             /\ ~claimable => slot'[s].pc \in {"ack", "project"} /\ slot'[s].result = "failed"
<1> DEFINE f == Target(s)
           claimable == file[f].status \in {"COMPLETE", "ENCRYPTING"} /\ Archivable(Shape[f].batch)
<1>1. /\ Executing(s) /\ slot[s].work.topic = "upload.finalize"
      /\ IF claimable THEN Continue(s, "reserve", Fresh) ELSE TransientFailure(s)
      /\ UNCHANGED <<outbox, sent, jobs, rec>>
  BY DEF Claim, Handles, Executing, Target
<1>2. f \in Files /\ slot[s].work = Fin(f)
  BY <1>1, ExecutingFacts DEF Fin
<1>3. CASE claimable
  <2>1. Continue(s, "reserve", Fresh)
    BY <1>1, <1>3
  <2>2. Moved(s) /\ slot'[s].pc = "reserve" /\ slot'[s].run = Fresh
    BY <1>1, <2>1, ContinueMoves DEF Attempting, Fresh, Run
  <2> QED BY <1>1, <1>2, <1>3, <2>2, HandlerQueue DEF QueueInv, EventsOK
<1>4. CASE ~claimable
  <2>1. Moved(s) /\ slot'[s].pc \in {"ack", "project"} /\ slot'[s].result = "failed"
    BY <1>1, <1>4, TransientMoves
  <2> QED BY <1>1, <1>2, <1>4, <2>1, HandlerQueue DEF QueueInv, EventsOK
<1> QED BY <1>3, <1>4

LEMMA ReserveMoves ==
  ASSUME QueueInv, NEW s \in Slots, Reserve(s), scenario' = scenario
  PROVE  /\ QueueInv' /\ Executing(s) /\ Moved(s) /\ Target(s) \in Files /\ slot[s].work = Fin(Target(s))
         /\ slot'[s].pc \in {"undo", "write"} /\ ~slot'[s].run.written
<1> DEFINE zip == Shape[Target(s)].kind = "ZIP"
<1>1. /\ Executing(s) /\ slot[s].work.topic = "upload.finalize"
      /\ \/ Raise(s, Fresh, "transient")
         \/ Raise(s, Fresh, "permanent")
         \/ Continue(s, "write", [Fresh EXCEPT !.reserved = zip])
      /\ UNCHANGED <<outbox, sent, jobs, rec>>
  BY DEF Reserve, Handles, Executing
<1>2. Target(s) \in Files /\ slot[s].work = Fin(Target(s))
  BY <1>1, ExecutingFacts DEF Fin
<1> DEFINE run == [Fresh EXCEPT !.reserved = zip]
<1>3. Fresh \in Run /\ Fresh.written = FALSE /\ run \in Run /\ run.written = FALSE
  BY DEF Fresh, Run
<1>4. CASE Raise(s, Fresh, "transient") \/ Raise(s, Fresh, "permanent")
  <2>1. Moved(s) /\ slot'[s].pc = "undo" /\ slot'[s].run = Fresh
    BY <1>1, <1>3, <1>4, RaiseMoves
  <2> QED BY <1>1, <1>2, <1>3, <2>1, HandlerQueue DEF QueueInv, EventsOK
<1>5. CASE Continue(s, "write", run)
  <2> HIDE DEF run
  <2>1. Moved(s) /\ slot'[s].pc = "write" /\ slot'[s].run = run
    BY <1>1, <1>3, <1>5, ContinueMoves DEF Attempting
  <2> QED BY <1>1, <1>2, <1>3, <2>1, HandlerQueue DEF QueueInv, EventsOK
<1> QED BY <1>1, <1>4, <1>5

LEMMA WriteMoves ==
  ASSUME QueueInv, NEW s \in Slots, WriteCiphertext(s), scenario' = scenario
  PROVE  /\ QueueInv' /\ Executing(s) /\ Moved(s) /\ Target(s) \in Files /\ slot[s].work = Fin(Target(s))
         /\ slot[s].pc = "write" /\ ~slot[s].run.written
         /\ Target(s) \in staged => slot'[s].pc = "commit" /\ slot'[s].run.written
         /\ Target(s) \notin staged => slot'[s].pc = "undo" /\ slot'[s].run = slot[s].run
<1> DEFINE f == Target(s)
           run == [slot[s].run EXCEPT !.written = TRUE]
<1>1. /\ Executing(s) /\ slot[s].work.topic = "upload.finalize" /\ slot[s].pc = "write"
      /\ f \in staged => Continue(s, "commit", run)
      /\ f \notin staged => \E verdict : Raise(s, slot[s].run, verdict)
      /\ UNCHANGED <<outbox, sent, jobs, rec>>
  BY DEF WriteCiphertext, Handles, Executing
<1>2. f \in Files /\ slot[s].work = Fin(f)
  BY <1>1, ExecutingFacts DEF Fin
<1>3. ~slot[s].run.written /\ slot[s] # Idle /\ slot[s].run \in Run
  BY <1>1, ExecutingFacts DEF QueueInv, SlotsOK, SlotFits, Attempting
<1>4. CASE f \in staged
  <2>1. run \in Run /\ run.written = TRUE
    BY <1>3 DEF Run
  <2> HIDE DEF run
  <2>2. Moved(s) /\ slot'[s].pc = "commit" /\ slot'[s].run = run
    BY <1>1, <1>4, <2>1, ContinueMoves DEF Attempting
  <2> QED BY <1>1, <1>2, <1>3, <1>4, <2>1, <2>2, HandlerQueue DEF QueueInv, EventsOK
<1>5. CASE f \notin staged
  <2>1. PICK verdict : Raise(s, slot[s].run, verdict)
    BY <1>1, <1>5
  <2>2. Moved(s) /\ slot'[s].pc = "undo" /\ slot'[s].run = slot[s].run
    BY <1>1, <1>3, <2>1, RaiseMoves
  <2> QED BY <1>1, <1>2, <1>3, <1>5, <2>2, HandlerQueue DEF QueueInv, EventsOK
<1> QED BY <1>4, <1>5

LEMMA StoredEvents ==
  ASSUME QueueInv, NEW f \in Files, Stored(f)
  PROVE  outbox \subseteq outbox' /\ outbox' \subseteq Events
<1>1. \A g \in Entries(f) : g \in Files
  BY DEF Entries
<1> QED BY <1>1, EventsTyped DEF Stored, QueueInv, EventsOK, Topics

(* Both ways a COMMIT is left: with the file stored, or with nothing done.  *)
LEMMA CommitMoves ==
  ASSUME QueueInv, NEW s \in Slots, CommitStored(s) \/ CommitUnanswered(s), scenario' = scenario
  PROVE  LET f == Target(s)
         IN  /\ QueueInv' /\ Executing(s) /\ Moved(s) /\ f \in Files /\ slot[s].work = Fin(f)
             /\ slot[s].pc = "commit" /\ slot[s].run.written
             /\ slot'[s].pc = "undo" => slot'[s].run = slot[s].run
             /\ UNCHANGED <<sent, jobs, rec, upload, imp, receipts, inflight, withdrawn, analysis, staged,
                            cipher, cleaning>>
             /\ \/ /\ Storable(f) /\ ~Conflicting(f) /\ (Shape[f].kind = "ZIP" => file[f].resv = "RESERVED")
                   /\ Stored(f) /\ slot'[s].pc \in {"tidy", "undo"}
                \/ UNCHANGED <<objects, file, outbox>> /\ slot'[s].pc = "undo"
<1> DEFINE f == Target(s)
<1>1. /\ Executing(s) /\ slot[s].work.topic = "upload.finalize" /\ slot[s].pc = "commit"
      /\ UNCHANGED <<sent, jobs, rec, upload, imp, receipts, inflight, withdrawn, analysis, staged,
                     cipher, cleaning>>
      /\ \/ /\ Storable(f) /\ ~Conflicting(f) /\ (Shape[f].kind = "ZIP" => file[f].resv = "RESERVED")
            /\ Stored(f)
            /\ Continue(s, "tidy", Fresh) \/ Raise(s, slot[s].run, "transient")
         \/ UNCHANGED <<objects, file, outbox>> /\ \E verdict : Raise(s, slot[s].run, verdict)
  BY DEF CommitStored, CommitUnanswered, Handles, Executing
<1>2. f \in Files /\ slot[s].work = Fin(f)
  BY <1>1, ExecutingFacts DEF Fin
<1>3. slot[s].run.written /\ slot[s].run \in Run
  BY <1>1, ExecutingFacts DEF QueueInv, SlotsOK, SlotFits, Attempting
<1>4. \A verdict : Raise(s, slot[s].run, verdict) =>
        Moved(s) /\ slot'[s].pc = "undo" /\ slot'[s].run = slot[s].run
  BY <1>1, <1>3, RaiseMoves
<1>5. Continue(s, "tidy", Fresh) => Moved(s) /\ slot'[s].pc = "tidy"
  BY <1>1, ContinueMoves DEF Attempting
<1>6. Moved(s) /\ slot'[s].pc \in {"tidy", "undo"} /\ (slot'[s].pc = "undo" => slot'[s].run = slot[s].run)
  BY <1>1, <1>4, <1>5
<1>7. outbox \subseteq outbox' /\ outbox' \subseteq Events
  BY <1>1, <1>2, StoredEvents DEF QueueInv, EventsOK
<1>8. QueueInv'
  BY <1>1, <1>6, <1>7, HandlerQueue
<1>9. UNCHANGED <<objects, file, outbox>> /\ (\E verdict : Raise(s, slot[s].run, verdict)) => slot'[s].pc = "undo"
  BY <1>4
<1> QED BY <1>1, <1>2, <1>3, <1>6, <1>8, <1>9

LEMMA TidyMoves ==
  ASSUME QueueInv, NEW s \in Slots, Tidy(s), scenario' = scenario
  PROVE  /\ QueueInv' /\ Executing(s) /\ Moved(s) /\ Target(s) \in Files /\ slot[s].work = Fin(Target(s))
         /\ slot[s].pc = "tidy" /\ slot'[s].pc = "ack" /\ slot'[s].result = "completed"
<1>1. /\ Executing(s) /\ slot[s].work.topic = "upload.finalize" /\ slot[s].pc = "tidy"
      /\ Report(s, "completed") /\ UNCHANGED <<outbox, sent, jobs, rec>>
  BY DEF Tidy, Handles, Executing
<1> QED BY <1>1, ExecutingFacts, ReportMoves, HandlerQueue DEF Fin, QueueInv, EventsOK

LEMMA UndoMoves ==
  ASSUME QueueInv, NEW s \in Slots, Undo(s), scenario' = scenario
  PROVE  /\ QueueInv' /\ Executing(s) /\ Moved(s) /\ Target(s) \in Files /\ slot[s].work = Fin(Target(s))
         /\ slot[s].pc = "undo" /\ slot[s].run \in Run
         /\ slot'[s].pc \in {"ack", "project"} /\ slot'[s].result # "completed"
<1>1. /\ Executing(s) /\ slot[s].work.topic = "upload.finalize" /\ slot[s].pc = "undo"
      /\ ProjectThen(s, "project", "deadletter", "none") \/ Report(s, "failed")
      /\ UNCHANGED <<outbox, sent, jobs, rec>>
  BY DEF Undo, Handles, Executing
<1>2. Moved(s) /\ slot'[s].pc \in {"ack", "project"} /\ slot'[s].result # "completed"
  BY <1>1, ProjectMoves, ReportMoves
<1>3. slot[s].run \in Run
  BY <1>1, ExecutingFacts DEF QueueInv, SlotsOK, SlotFits
<1> QED BY <1>1, <1>2, <1>3, ExecutingFacts, HandlerQueue DEF Fin, QueueInv, EventsOK

LEMMA ProjectFinalizeMoves ==
  ASSUME QueueInv, NEW s \in Slots, ProjectFinalizeFailure(s), scenario' = scenario
  PROVE  LET failable == Failable(Target(s), {"COMPLETE", "ENCRYPTING"})
         IN  /\ QueueInv' /\ Executing(s) /\ Moved(s) /\ Target(s) \in Files /\ slot[s].work = Fin(Target(s))
             /\ failable => slot'[s].pc = "sweep"
             /\ ~failable => slot'[s].pc = "ack"
             /\ slot'[s].result # "completed"
<1> DEFINE failable == Failable(Target(s), {"COMPLETE", "ENCRYPTING"})
<1>1. /\ Executing(s) /\ slot[s].work.topic = "upload.finalize"
      /\ failable => ProjectThen(s, "sweep", "deadletter", "none")
      /\ ~failable => Report(s, "failed")
      /\ UNCHANGED <<outbox, sent, jobs, rec>>
  BY DEF ProjectFinalizeFailure, Handles, Executing
<1> HIDE DEF failable
<1>2. /\ Moved(s) /\ slot'[s].result # "completed"
      /\ failable => slot'[s].pc = "sweep"
      /\ ~failable => slot'[s].pc = "ack"
  BY <1>1, ProjectMoves, ReportMoves
<1> QED BY <1>1, <1>2, ExecutingFacts, HandlerQueue DEF Fin, QueueInv, EventsOK, failable

LEMMA SweepMoves ==
  ASSUME QueueInv, NEW s \in Slots, SweepFailed(s), scenario' = scenario
  PROVE  /\ QueueInv' /\ Executing(s) /\ Moved(s) /\ Target(s) \in Files /\ slot[s].work = Fin(Target(s))
         /\ slot[s].pc = "sweep" /\ slot'[s].pc = "ack" /\ slot'[s].result # "completed"
<1>1. /\ Executing(s) /\ slot[s].work.topic = "upload.finalize" /\ slot[s].pc = "sweep"
      /\ Report(s, slot[s].result) /\ UNCHANGED <<outbox, sent, jobs, rec>>
  BY DEF SweepFailed, Handles, Executing
<1>2. slot[s].result \in {"deadletter", "failed"}
  BY <1>1, ExecutingFacts DEF QueueInv, SlotsOK, SlotFits
<1> QED BY <1>1, <1>2, ExecutingFacts, ReportMoves, HandlerQueue DEF Fin, QueueInv, EventsOK

LEMMA ReadMoves ==
  ASSUME QueueInv, NEW s \in Slots, ReadObject(s), scenario' = scenario
  PROVE  LET f == Target(s)
         IN  /\ QueueInv' /\ Executing(s) /\ Moved(s) /\ f \in Files /\ slot[s].work = Ana(f)
             /\ \/ /\ slot'[s].pc = "ack" /\ slot'[s].result = "completed"
                   /\ file[f].object # NoFile /\ Row(f) # {}
                \/ slot'[s].pc = "classify"
                \/ slot'[s].pc \in {"ack", "project"} /\ slot'[s].result # "completed"
<1>1. /\ Executing(s) /\ slot[s].work.topic = "import.analyze"
      /\ \/ Report(s, "completed") /\ file[Target(s)].object # NoFile /\ Row(Target(s)) # {}
         \/ Continue(s, "classify", Fresh)
         \/ TransientFailure(s)
      /\ UNCHANGED <<outbox, sent, jobs, rec>>
  BY DEF ReadObject, Handles, Executing
<1>2. Target(s) \in Files /\ slot[s].work = Ana(Target(s))
  BY <1>1, ExecutingFacts DEF Ana
<1>3. CASE Report(s, "completed") /\ file[Target(s)].object # NoFile /\ Row(Target(s)) # {}
  BY <1>1, <1>2, <1>3, ReportMoves, HandlerQueue DEF QueueInv, EventsOK
<1>4. CASE Continue(s, "classify", Fresh)
  <2>1. Moved(s) /\ slot'[s].pc = "classify"
    BY <1>1, <1>4, ContinueMoves DEF Attempting
  <2> QED BY <1>1, <1>2, <2>1, HandlerQueue DEF QueueInv, EventsOK
<1>5. CASE TransientFailure(s)
  BY <1>1, <1>2, <1>5, TransientMoves, HandlerQueue DEF QueueInv, EventsOK
<1> QED BY <1>1, <1>3, <1>4, <1>5

LEMMA RecordMoves ==
  ASSUME QueueInv, NEW s \in Slots, RecordAnalysis(s), scenario' = scenario
  PROVE  /\ QueueInv' /\ Executing(s) /\ Moved(s) /\ Target(s) \in Files /\ slot[s].work = Ana(Target(s))
         /\ slot[s].pc = "classify" /\ slot'[s].pc = "ack" /\ slot'[s].result = "completed"
<1>1. /\ Executing(s) /\ slot[s].work.topic = "import.analyze" /\ slot[s].pc = "classify"
      /\ Report(s, "completed") /\ UNCHANGED <<outbox, sent, jobs, rec>>
  BY DEF RecordAnalysis, Handles, Executing
<1> QED BY <1>1, ExecutingFacts, ReportMoves, HandlerQueue DEF Ana, QueueInv, EventsOK

LEMMA ProjectAnalysisMoves ==
  ASSUME QueueInv, NEW s \in Slots, ProjectAnalysisFailure(s), scenario' = scenario
  PROVE  /\ QueueInv' /\ Executing(s) /\ Moved(s) /\ Target(s) \in Files /\ slot[s].work = Ana(Target(s))
         /\ slot'[s].pc = "ack" /\ slot'[s].result # "completed"
<1>1. /\ Executing(s) /\ slot[s].work.topic = "import.analyze"
      /\ Report(s, "failed") /\ UNCHANGED <<outbox, sent, jobs, rec>>
  BY DEF ProjectAnalysisFailure, Handles, Executing
<1> QED BY <1>1, ExecutingFacts, ReportMoves, HandlerQueue DEF Ana, QueueInv, EventsOK

LEMMA RefusedMoves ==
  ASSUME QueueInv, NEW s \in Slots, StepRefused(s)
  PROVE  /\ scenario' = scenario /\ QueueInv' /\ Executing(s) /\ Moved(s)
         /\ \/ /\ slot[s].pc \in Attempting /\ slot'[s].pc = "undo" /\ slot'[s].run = slot[s].run
            \/ /\ slot'[s].pc \in {"ack", "project"} /\ slot'[s].result # "completed"
<1>1. /\ scenario' = scenario /\ UNCHANGED <<outbox, sent, jobs, rec>> /\ Executing(s)
      /\ \/ slot[s].pc \in Attempting /\ Raise(s, slot[s].run, "transient")
         \/ TransientFailure(s)
         \/ Report(s, "failed")
  BY DEF StepRefused, Fault, Executing, Attempting
<1>2. CASE slot[s].pc \in Attempting /\ Raise(s, slot[s].run, "transient")
  <2>1. slot[s].run \in Run /\ slot[s].work.topic = "upload.finalize"
    BY <1>1, <1>2, ExecutingFacts DEF QueueInv, SlotsOK, SlotFits
  <2>2. Moved(s) /\ slot'[s].pc = "undo" /\ slot'[s].run = slot[s].run
    BY <1>1, <1>2, <2>1, RaiseMoves
  <2> QED BY <1>1, <1>2, <2>2, HandlerQueue DEF QueueInv, EventsOK
<1>3. CASE TransientFailure(s)
  BY <1>1, <1>3, TransientMoves, HandlerQueue DEF QueueInv, EventsOK
<1>4. CASE Report(s, "failed")
  BY <1>1, <1>4, ReportMoves, HandlerQueue DEF QueueInv, EventsOK
<1> QED BY <1>1, <1>2, <1>3, <1>4

-----------------------------------------------------------------------------
(* The reconciler.                                                          *)

LEMMA ReconciledJob ==
  ASSUME QueueInv, NEW w \in Works, NEW n \in DOMAIN jobs[w], jobs[w][n].state = "failed"
  PROVE  /\ JobEdit(w, n, Reconciled(jobs[w][n]))
         /\ Reconciled(jobs[w][n]).marked /\ Reconciled(jobs[w][n]).state = "failed"
<1> DEFINE job == jobs[w][n]
<1>1. job \in JobRow /\ JobFits(w, job)
  BY QueueJobFacts
<1>2. Reconciled(job) \in JobRow
  BY <1>1 DEF Reconciled, JobRow
<1>3. /\ Reconciled(job).event = job.event /\ Reconciled(job).retries = job.retries
      /\ Reconciled(job).state = job.state /\ Reconciled(job).marked
  BY <1>1 DEF Reconciled, JobRow
<1> QED BY <1>1, <1>2, <1>3 DEF JobEdit, JobFits

(* A job is marked while nobody is at work on its object.                   *)
LEMMA MarkQueue ==
  ASSUME QueueInv, UNCHANGED <<outbox, sent, slot, scenario>>,
         NEW w \in Works, NEW n \in DOMAIN jobs[w], jobs[w][n].state = "failed",
         jobs' = [jobs EXCEPT ![w][n] = Reconciled(jobs[w][n])], rec' = RecIdle,
         \A s \in Slots : Executing(s) => slot[s].work # w
  PROVE  QueueInv' /\ JobsKept /\ Edited(w, n, Reconciled(jobs[w][n])) /\ Reconciled(jobs[w][n]).marked
<1> DEFINE job == Reconciled(jobs[w][n])
<1>1. JobEdit(w, n, job) /\ job.marked
  BY ReconciledJob
<1> HIDE DEF job
<1>2. jobs' = [jobs EXCEPT ![w][n] = job]
  BY DEF job
<1>3. JobsOK' /\ JobsKept /\ Edited(w, n, job)
  BY <1>1, <1>2, EditJob DEF QueueInv
<1>4. SlotsOK'
  BY <1>3, SlotsKept DEF QueueInv
<1>5. RecOK'
  BY DEF RecOK
<1>6. Exclusive'
  <2> SUFFICES ASSUME NEW s \in Slots, Executing(s)'
      PROVE  /\ \A t \in Slots : t # s /\ Executing(t)' => slot'[t].work # slot'[s].work
             /\ ~(Job(slot[s]).marked)'
    BY DEF Exclusive
  <2>1. Executing(s) /\ slot[s] # Idle /\ slot[s].work # w
    BY DEF Executing, Idle
  <2>2. slot[s].work \in Works /\ slot[s].n \in DOMAIN jobs[slot[s].work]
    BY <2>1, SlotFacts
  <2>3. jobs'[slot[s].work][slot[s].n] = jobs[slot[s].work][slot[s].n]
    BY <1>3, <2>1, <2>2 DEF Edited
  <2> QED BY <2>1, <2>3 DEF QueueInv, Exclusive, Executing, Job
<1>7. EventsOK' /\ scenario' \in Scenarios
  BY Fixed DEF QueueInv, EventsOK
<1> QED BY <1>1, <1>3, <1>4, <1>5, <1>6, <1>7 DEF QueueInv, job

LEMMA BeginReconciliationQueue ==
  ASSUME QueueInv, NEW w \in Works, NEW n \in DOMAIN jobs[w], BeginReconciliation(w, n), scenario' = scenario
  PROVE  /\ QueueInv' /\ JobsKept /\ UNCHANGED <<outbox, sent, slot>> /\ rec = RecIdle
         /\ jobs[w][n].state = "failed" /\ ~jobs[w][n].marked
         /\ \/ \E job : Edited(w, n, job) /\ job.marked /\ Superseded(w, n) /\ rec' = RecIdle
                        /\ job.state # "completed"
            \/ jobs' = jobs /\ ~Superseded(w, n) /\ rec'.pc = "project" /\ rec'.work = w
<1>1. /\ rec = RecIdle /\ jobs[w][n].state = "failed" /\ ~jobs[w][n].marked
      /\ \A s \in Slots : Executing(s) => slot[s].work # w
      /\ UNCHANGED <<outbox, sent, slot>>
  BY DEF BeginReconciliation, Reconcilable, LockFree
<1>2. CASE Superseded(w, n)
  <2>1. jobs' = [jobs EXCEPT ![w][n] = Reconciled(jobs[w][n])] /\ rec' = RecIdle
    BY <1>1, <1>2 DEF BeginReconciliation
  <2>2. QueueInv' /\ JobsKept /\ Edited(w, n, Reconciled(jobs[w][n])) /\ Reconciled(jobs[w][n]).marked
    BY <1>1, <2>1, MarkQueue
  <2>3. Reconciled(jobs[w][n]).state # "completed"
    BY <1>1, ReconciledJob
  <2> QED BY <1>1, <1>2, <2>1, <2>2, <2>3
<1>3. CASE ~Superseded(w, n)
  <2>1. jobs' = jobs /\ rec' = [pc |-> "project", work |-> w, n |-> n]
    BY <1>3 DEF BeginReconciliation
  <2>2. JobsOK' /\ JobsKept /\ FailedKept
    BY <1>1, <2>1, SameJobs DEF QueueInv
  <2>3. SlotsOK'
    BY <1>1, <2>2, SlotsKept DEF QueueInv
  <2>4. RecOK'
    BY <1>1, <2>1, Fixed DEF RecOK, Job
  <2>5. Exclusive'
    BY <1>1, <2>1 DEF QueueInv, Exclusive, Executing, Job
  <2>6. EventsOK' /\ scenario' \in Scenarios
    BY <1>1, Fixed DEF QueueInv, EventsOK
  <2> QED BY <1>1, <1>3, <2>1, <2>2, <2>3, <2>4, <2>5, <2>6 DEF QueueInv
<1> QED BY <1>2, <1>3

LEMMA RecFacts ==
  ASSUME QueueInv, rec # RecIdle
  PROVE  /\ rec.work \in Works /\ rec.n \in DOMAIN jobs[rec.work] /\ rec.work.obj \in Files
         /\ rec.work.topic \in Topics /\ rec.work = Work(rec.work.topic, rec.work.obj)
         /\ rec.pc \in {"project", "sweep", "record"} /\ rec.pc = "sweep" => rec.work.topic = "upload.finalize"
         /\ rec = [pc |-> rec.pc, work |-> rec.work, n |-> rec.n]
         /\ jobs[rec.work][rec.n].state = "failed" /\ ~jobs[rec.work][rec.n].marked
         /\ \A s \in Slots : Executing(s) => slot[s].work # rec.work
BY WorkFacts DEF QueueInv, RecOK, Job, Exclusive

LEMMA ProjectionQueue ==
  ASSUME QueueInv, UNCHANGED <<outbox, sent, jobs, slot, scenario>>, rec # RecIdle,
         NEW pc \in {"sweep", "record"}, rec' = [rec EXCEPT !.pc = pc],
         pc = "sweep" => rec.work.topic = "upload.finalize"
  PROVE  QueueInv' /\ rec' # RecIdle /\ rec'.pc = pc /\ rec'.work = rec.work
<1>1. rec' = [pc |-> pc, work |-> rec.work, n |-> rec.n]
  BY RecFacts
<1>2. rec' # RecIdle
  BY <1>1 DEF RecIdle
<1>3. JobsOK' /\ JobsKept /\ FailedKept
  BY SameJobs DEF QueueInv
<1>4. SlotsOK'
  BY <1>3, SlotsKept DEF QueueInv
<1>5. RecOK'
  BY <1>1, RecFacts, Fixed DEF RecOK, Job
<1>6. Exclusive'
  BY <1>1 DEF QueueInv, Exclusive, Executing, Job
<1>7. EventsOK' /\ scenario' \in Scenarios
  BY Fixed DEF QueueInv, EventsOK
<1> QED BY <1>1, <1>2, <1>3, <1>4, <1>5, <1>6, <1>7 DEF QueueInv

LEMMA EndReconciliationQueue ==
  ASSUME QueueInv, EndReconciliation, scenario' = scenario
  PROVE  /\ QueueInv' /\ JobsKept /\ UNCHANGED <<outbox, sent, slot>> /\ rec # RecIdle /\ rec' = RecIdle
         /\ rec.pc = "record" /\ rec.work \in Works /\ rec.n \in DOMAIN jobs[rec.work]
         /\ \E job : Edited(rec.work, rec.n, job) /\ job.marked /\ job.state # "completed"
<1>1. /\ rec # RecIdle /\ rec.pc = "record" /\ rec' = RecIdle /\ UNCHANGED <<outbox, sent, slot>>
      /\ jobs' = [jobs EXCEPT ![rec.work][rec.n] = Reconciled(jobs[rec.work][rec.n])]
  BY DEF EndReconciliation, RecIdle
<1>2. /\ rec.work \in Works /\ rec.n \in DOMAIN jobs[rec.work] /\ jobs[rec.work][rec.n].state = "failed"
      /\ \A s \in Slots : Executing(s) => slot[s].work # rec.work
  BY <1>1, RecFacts
<1>3. QueueInv' /\ JobsKept /\ Edited(rec.work, rec.n, Reconciled(jobs[rec.work][rec.n]))
      /\ Reconciled(jobs[rec.work][rec.n]).marked
  BY <1>1, <1>2, MarkQueue
<1>4. Reconciled(jobs[rec.work][rec.n]).state # "completed"
  BY <1>2, ReconciledJob
<1> QED BY <1>1, <1>2, <1>3, <1>4

LEMMA LostQueue ==
  ASSUME QueueInv, ReconciliationLost
  PROVE  QueueInv' /\ UNCHANGED <<outbox, sent, jobs, slot, scenario>> /\ rec' = RecIdle
<1>1. UNCHANGED <<outbox, sent, jobs, slot, scenario>> /\ rec' = RecIdle
  BY DEF ReconciliationLost, Fault
<1>2. JobsOK' /\ JobsKept /\ FailedKept
  BY <1>1, SameJobs DEF QueueInv
<1>3. SlotsOK'
  BY <1>1, <1>2, SlotsKept DEF QueueInv
<1>4. RecOK' /\ Exclusive'
  BY <1>1 DEF QueueInv, RecOK, Exclusive, Executing, Job
<1>5. EventsOK' /\ scenario' \in Scenarios
  BY <1>1, Fixed DEF QueueInv, EventsOK
<1> QED BY <1>1, <1>2, <1>3, <1>4, <1>5 DEF QueueInv

-----------------------------------------------------------------------------
(* All of it.                                                               *)

LEMMA CompleteQueue ==
  ASSUME QueueInv, NEW b \in Batches, CompleteBatch(b), scenario' = scenario
  PROVE  QueueInv'
<1>1. UNCHANGED <<sent, jobs, slot, rec>>
  BY DEF CompleteBatch
<1>2. outbox \subseteq outbox' /\ outbox' \subseteq Events
  <2>1. \A f \in Of(b) : f \in Files
    BY DEF Of
  <2> QED BY <2>1, EventsTyped DEF CompleteBatch, QueueInv, EventsOK, Topics
<1> QED BY <1>1, <1>2, StagingQueue

LEMMA InitQueue == Init => QueueInv
<1> SUFFICES ASSUME Init PROVE QueueInv
  OBVIOUS
<1>1. /\ scenario \in Scenarios /\ outbox = {} /\ sent = {} /\ jobs = [w \in Works |-> <<>>]
      /\ slot = [s \in Slots |-> Idle] /\ rec = RecIdle
  BY DEF Init, QueueInit
<1>2. JobsOK
  BY <1>1 DEF JobsOK
<1>3. SlotsOK /\ RecOK /\ Exclusive /\ EventsOK
  BY <1>1 DEF SlotsOK, SlotFits, RecOK, Exclusive, Executing, Idle, EventsOK
<1> QED BY <1>1, <1>2, <1>3 DEF QueueInv

LEMMA StutterQueue ==
  ASSUME QueueInv, UNCHANGED <<queueVars, scenario>>
  PROVE  QueueInv'
BY StagingQueue DEF queueVars, QueueInv, EventsOK

LEMMA NextQueue == QueueInv /\ [Next]_vars => QueueInv'
<1> SUFFICES ASSUME QueueInv, [Next]_vars PROVE QueueInv'
  OBVIOUS
<1> USE DEF faultVars
<1>0. DOMAIN jobs = Works
  BY DEF QueueInv, JobsOK
<1>1. CASE UNCHANGED vars \/ Staging(Api) \/ Staging(Time) \/ Staging(ExpireStaging) \/ Staging(Cleaner)
  BY <1>1, StutterQueue DEF vars, Staging, queueVars
<1>2. CASE NoFault(\E b \in Batches : CompleteBatch(b))
  BY <1>2, CompleteQueue DEF NoFault
<1>3. CASE QueueOnly(QueueStep)
  <2>1. QueueStep /\ scenario' = scenario
    BY <1>3 DEF QueueOnly
  <2>2. CASE DispatcherStep
    BY <2>1, <2>2, DispatchQueue DEF DispatcherStep
  <2>3. ASSUME NEW s \in Slots, Take(s) PROVE QueueInv'
    BY <1>0, <2>1, <2>3, FetchQueue DEF Take
  <2>4. ASSUME NEW s \in Slots, Begin(s) PROVE QueueInv'
    BY <2>1, <2>4, BeginQueue
  <2>5. ASSUME NEW s \in Slots, Ack(s) PROVE QueueInv'
    BY <2>1, <2>5, AckQueue
  <2>6. CASE Expiry
    BY <1>0, <2>1, <2>6, ExpireQueue DEF Expiry
  <2> QED BY <2>1, <2>2, <2>3, <2>4, <2>5, <2>6 DEF QueueStep
<1>4. CASE NoFault(\E s \in Slots : FinalizeStep(s) \/ AnalyzeStep(s))
  <2>1. PICK s \in Slots : FinalizeStep(s) \/ AnalyzeStep(s)
    BY <1>4 DEF NoFault
  <2>2. scenario' = scenario
    BY <1>4 DEF NoFault
  <2>3. CASE FinalizeStep(s)
    BY <2>2, <2>3, RestoreMoves, ClaimMoves, ReserveMoves, WriteMoves, CommitMoves, TidyMoves, UndoMoves,
       ProjectFinalizeMoves, SweepMoves DEF FinalizeStep
  <2>4. CASE AnalyzeStep(s)
    BY <2>2, <2>4, ReadMoves, RecordMoves, ProjectAnalysisMoves DEF AnalyzeStep
  <2> QED BY <2>1, <2>3, <2>4
<1>5. CASE NoFault(ReconcilerStep)
  <2>1. ReconcilerStep /\ scenario' = scenario
    BY <1>5 DEF NoFault
  <2>2. ASSUME NEW w \in DOMAIN jobs, NEW n \in DOMAIN jobs[w], BeginReconciliation(w, n) PROVE QueueInv'
    BY <1>0, <2>1, <2>2, BeginReconciliationQueue
  <2>3. CASE ReconcileFinalize
    <3>1. /\ rec # RecIdle /\ rec.work.topic = "upload.finalize" /\ UNCHANGED <<outbox, sent, jobs, slot>>
          /\ rec' = [rec EXCEPT !.pc = "sweep"] \/ rec' = [rec EXCEPT !.pc = "record"]
      BY <2>3 DEF ReconcileFinalize, RecIdle
    <3> QED BY <2>1, <3>1, ProjectionQueue
  <2>4. CASE ReconcileSweep
    <3>1. rec # RecIdle /\ UNCHANGED <<outbox, sent, jobs, slot>> /\ rec' = [rec EXCEPT !.pc = "record"]
      BY <2>4 DEF ReconcileSweep, RecIdle
    <3> QED BY <2>1, <3>1, ProjectionQueue
  <2>5. CASE ReconcileAnalysis
    <3>1. rec # RecIdle /\ UNCHANGED <<outbox, sent, jobs, slot>> /\ rec' = [rec EXCEPT !.pc = "record"]
      BY <2>5 DEF ReconcileAnalysis, RecIdle
    <3> QED BY <2>1, <3>1, ProjectionQueue
  <2>6. CASE EndReconciliation
    BY <2>1, <2>6, EndReconciliationQueue
  <2> QED BY <2>1, <2>2, <2>3, <2>4, <2>5, <2>6 DEF ReconcilerStep
<1>6. CASE \E f \in Files : CleanUpLost(f) /\ UNCHANGED queueVars
  BY <1>6, StutterQueue DEF CleanUpLost, Fault
<1>7. CASE QueueFault /\ UNCHANGED uploadVars
  <2>1. ASSUME NEW e \in outbox, DispatchUnmarked(e) PROVE QueueInv'
    <3>1. scenario' = scenario
      BY <2>1 DEF DispatchUnmarked, Fault
    <3> QED BY <2>1, <3>1, DispatchQueue
  <2>2. ASSUME NEW w \in DOMAIN jobs, NEW n \in DOMAIN jobs[w], ExpireLate(w, n) PROVE QueueInv'
    <3>1. scenario' = scenario
      BY <2>2 DEF ExpireLate, Fault
    <3> QED BY <1>0, <2>2, <3>1, ExpireQueue
  <2>3. ASSUME NEW s \in Slots, Crash(s) PROVE QueueInv'
    <3>1. scenario' = scenario
      BY <2>3 DEF Crash, Fault
    <3> QED BY <2>3, <3>1, CrashQueue
  <2> QED BY <1>7, <2>1, <2>2, <2>3 DEF QueueFault
<1>8. CASE \E s \in Slots : CommitUnanswered(s) \/ StepRefused(s)
  <2>1. PICK s \in Slots : CommitUnanswered(s) \/ StepRefused(s)
    BY <1>8
  <2>2. CASE CommitUnanswered(s)
    <3>1. scenario' = scenario
      BY <2>2 DEF CommitUnanswered, Fault
    <3> QED BY <2>2, <3>1, CommitMoves
  <2>3. CASE StepRefused(s)
    BY <2>3, RefusedMoves
  <2> QED BY <2>1, <2>2, <2>3
<1>9. CASE ReconciliationLost /\ UNCHANGED uploadVars
  BY <1>9, LostQueue
<1> QED BY <1>1, <1>2, <1>3, <1>4, <1>5, <1>6, <1>7, <1>8, <1>9 DEF Next

(* Every job, every running handler and the reconciler keep to the events,  *)
(* the locks and the attempts there are: worker/job-execution-lock.ts and   *)
(* pg-boss under crashes, late answers and lost dispatches.                 *)
THEOREM QueueInvHolds == Spec => []QueueInv
<1>1. Init => QueueInv
  BY InitQueue
<1>2. QueueInv /\ [Next]_vars => QueueInv'
  BY NextQueue
<1> QED BY <1>1, <1>2, PTL DEF Spec

-----------------------------------------------------------------------------
(* The files: what the rows, the two directories, the events, the handlers  *)
(* under way and the reconciler say of each other.                          *)

UploadRow == [status : UploadStatus, declared : Int, received : Int, count : Int, expanded : Int,
              due : BOOLEAN]
FileRow   == [status : FileStatus, received : Nat, temp : BOOLEAN,
              resv : {"NONE", "RESERVED", "COMMITTED"}, object : Files \cup {NoFile}]
RowsOK ==
  /\ upload \in [Batches -> UploadRow] /\ imp \in [Batches -> ImportStatus] /\ file \in [Files -> FileRow]
  /\ inflight \in [Requests -> [file : Files, offset : Nat, len : Nat] \cup {NoRequest}]
  /\ objects \subseteq Files /\ staged \subseteq Files /\ cipher \subseteq Files
  /\ withdrawn \subseteq Files /\ cleaning \subseteq Files

AnalysisOK ==
  /\ IsFiniteSet(analysis)
  /\ analysis \subseteq [batch : Batches, object : Files, status : Outcomes \cup {"FAILED"}]
  /\ \A a, c \in analysis : a.batch = c.batch /\ a.object = c.object => a = c

Needed == {"PENDING", "UPLOADING", "COMPLETE", "ENCRYPTING"}
Waited == {"ABSENT", "PENDING", "UPLOADING"}     \* nothing to archive yet

(* A row, its batch and its archive.                                        *)
StatusFits(f) ==
  LET row == file[f]  b == Shape[f].batch  p == Shape[f].parent
  IN  /\ row.status = "STORED" <=> row.object # NoFile
      /\ row.resv = "RESERVED" => row.status = "ENCRYPTING"
      /\ row.resv = "COMMITTED" => row.status = "STORED"
      /\ row.resv # "NONE" => Shape[f].kind = "ZIP"
      /\ row.status = "ABSENT" => row.received = 0 /\ ~row.temp
      /\ row.status # "ABSENT" => upload[b].status # "ABSENT"
      /\ row.status # "ABSENT" /\ p # NoFile => file[p].status = "STORED"
      /\ row.status \in {"ENCRYPTING", "STORED"} => upload[b].status = "READY"
      /\ upload[b].status = "READY" => row.status \notin {"PENDING", "UPLOADING"}
      /\ Listed(f) => row.status \in {"ABSENT", "COMPLETE", "FAILED"}
      /\ f \in withdrawn => row.status = "FAILED"

(* A row and what was staged for it.                                        *)
PlaintextFits(f) ==
  /\ file[f].status \in Needed => file[f].temp /\ (Listed(f) \/ f \in staged)
  /\ f \in cleaning => /\ file[f].status \in {"FAILED", "STORED"}
                       /\ \A g \in Entries(f) : file[g].status \notin Needed

(* A row and what was stored and analysed of it.                            *)
ObjectFits(f) ==
  /\ file[f].object # NoFile => file[f].object \in objects
  /\ f \in objects => file[f].object = f /\ f \in cipher
  /\ Listed(f) /\ file[f].status = "COMPLETE" => \E a \in analysis : a.batch = Shape[f].batch /\ a.object = f

FileFits(f) == StatusFits(f) /\ PlaintextFits(f) /\ ObjectFits(f)

BatchFits(b) ==
  /\ imp[b] \in {"ANALYZING", "COMMITTING", "FAILED"} => upload[b].status = "READY"
  /\ upload[b].status \in {"OPEN", "UPLOADING", "READY"} /\ imp[b] \in {"UPLOADING", "ANALYZING"} =>
       \A a \in analysis : a.batch = b /\ Listed(a.object) => file[a.object].status = "COMPLETE"

RowFits(a) ==
  \/ Listed(a.object) /\ Shape[a.object].batch = a.batch /\ file[a.object].status # "ABSENT"
  \/ \E f \in Files : Shape[f].batch = a.batch /\ file[f].object = a.object

EventFits(e) ==
  LET f == e.work.obj
  IN  /\ e.work.topic = "upload.finalize" => /\ file[f].status \notin Waited /\ ~Listed(f)
                                             /\ upload[Shape[f].batch].status = "READY"
      /\ e.work.topic = "import.analyze" => file[f].status = "STORED"

SlotSees(v) ==
  v # Idle =>
    LET f == v.work.obj
    IN  /\ v.pc \in Attempting \/ (v.pc = "undo" /\ ~v.run.written) => file[f].object = NoFile
        /\ v.pc = "tidy" => file[f].status = "STORED"
        /\ v.pc = "sweep" => file[f].status = "FAILED"
        /\ v.pc = "commit" => f \in cipher /\ (file[f].status = "ENCRYPTING" => Entries(f) \subseteq staged)

RecSees ==
  rec # RecIdle =>
    LET f == rec.work.obj
    IN  /\ rec.pc = "sweep" => file[f].status = "FAILED"
        /\ rec.pc = "record" /\ rec.work.topic = "upload.finalize" =>
             file[f].status = "STORED" \/ (file[f].status = "FAILED" /\ f \notin cipher)
        /\ rec.pc = "record" /\ rec.work.topic = "import.analyze" => file[f].object # NoFile /\ Row(f) # {}

FilesInv ==
  /\ RowsOK /\ AnalysisOK
  /\ \A f \in Files : FileFits(f)
  /\ \A b \in Batches : BatchFits(b)
  /\ \A a \in analysis : RowFits(a)
  /\ \A e \in outbox : EventFits(e)
  /\ \A s \in Slots : SlotSees(slot[s])
  /\ RecSees

-----------------------------------------------------------------------------

LEMMA ShapeFacts ==
  ASSUME scenario \in Scenarios
  PROVE  /\ IsFiniteSet(Files) /\ NoFile \notin Files /\ MaxBatchBytes \in Nat /\ MaxFiles \in Nat
         /\ MaxExpanded \in Nat /\ ChunkLengths \subseteq Nat
         /\ \A f \in Files : /\ Shape[f].batch \in Batches /\ Shape[f].size \in Nat
                             /\ Shape[f].kind \in Kinds /\ Shape[f].outcome \in Outcomes
                             /\ Shape[f].parent \in Files \cup {NoFile}
                             /\ Listed(f) => Shape[f].size = 0 /\ Shape[f].parent = NoFile
                             /\ Shape[f].parent # NoFile => /\ Shape[Shape[f].parent].kind = "ZIP"
                                                            /\ Shape[Shape[f].parent].batch = Shape[f].batch
<1>1. /\ IsFiniteSet(DOMAIN scenario.shape) /\ NoFile \notin DOMAIN scenario.shape
      /\ scenario.chunkLengths \subseteq Nat
      /\ scenario.maxBatchBytes \in Nat /\ scenario.maxFiles \in Nat /\ scenario.maxExpanded \in Nat
      /\ \A f \in DOMAIN scenario.shape :
           LET row == scenario.shape[f]
           IN  /\ row.size \in Nat /\ row.kind \in Kinds
               /\ row.parent \in DOMAIN scenario.shape \cup {NoFile} /\ row.outcome \in Outcomes
               /\ row.kind = "LISTED" => row.size = 0 /\ row.parent = NoFile
               /\ row.parent # NoFile => /\ scenario.shape[row.parent].kind = "ZIP"
                                         /\ scenario.shape[row.parent].batch = row.batch
  BY UploadsAssumption
<1> QED BY <1>1 DEF Files, Shape, Batches, MaxBatchBytes, MaxFiles, MaxExpanded, ChunkLengths, Listed

LEMMA FileFacts ==
  ASSUME FilesInv, NEW f \in Files
  PROVE  /\ StatusFits(f) /\ PlaintextFits(f) /\ ObjectFits(f)
         /\ file[f] \in FileRow
BY DEF FilesInv, FileFits, RowsOK

(* The entries of an archive that is not stored are not there yet.          *)
LEMMA EntriesAbsent ==
  ASSUME QueueInv, FilesInv, NEW f \in Files, file[f].status # "STORED", NEW g \in Entries(f)
  PROVE  g \in Files /\ (file[f].status # "ABSENT" => g # f) /\ file[g].status = "ABSENT" /\ Shape[g].batch = Shape[f].batch /\ ~Listed(g)
<1>1. g \in Files /\ Shape[g].parent = f /\ f # NoFile
  BY ShapeFacts DEF Entries, QueueInv
<1>2. StatusFits(g) /\ StatusFits(f)
  BY <1>1, FileFacts
<1>3. file[g].status = "ABSENT"
  BY <1>1, <1>2 DEF StatusFits
<1>4. Shape[g].batch = Shape[f].batch /\ ~Listed(g)
  BY <1>1, ShapeFacts DEF QueueInv
<1> QED BY <1>1, <1>3, <1>4

(* An event of the outbox, a job, a running handler tell of their file.     *)
LEMMA EventSees ==
  ASSUME QueueInv, FilesInv, NEW e \in outbox
  PROVE  /\ e.work.obj \in Files
         /\ e.work = Fin(e.work.obj) => /\ file[e.work.obj].status \notin Waited /\ ~Listed(e.work.obj)
                                        /\ upload[Shape[e.work.obj].batch].status = "READY"
         /\ e.work = Ana(e.work.obj) => file[e.work.obj].status = "STORED"
<1>1. e \in Events /\ EventFits(e)
  BY DEF QueueInv, EventsOK, FilesInv
<1>2. e.work.obj \in Files
  BY <1>1, EventFacts
<1> QED BY <1>1, <1>2, FileWorks DEF EventFits

LEMMA JobSees ==
  ASSUME QueueInv, FilesInv, NEW w \in Works, NEW n \in DOMAIN jobs[w]
  PROVE  /\ w.obj \in Files
         /\ w = Fin(w.obj) => /\ file[w.obj].status \notin Waited /\ ~Listed(w.obj)
                              /\ upload[Shape[w.obj].batch].status = "READY"
         /\ w = Ana(w.obj) => file[w.obj].status = "STORED"
<1>1. jobs[w][n].event \in outbox /\ jobs[w][n].event.work = w
  BY QueueJobFacts
<1> QED BY <1>1, EventSees

-----------------------------------------------------------------------------
(* What every step keeps.                                                   *)

Onward ==
  /\ \A b \in Batches : /\ upload[b].status = "READY" => upload'[b].status = "READY"
                        /\ upload[b].status # "ABSENT" => upload'[b].status # "ABSENT"
  /\ \A f \in Files : /\ file[f].status \in {"FAILED", "STORED"} =>
                           file'[f].status = file[f].status /\ file'[f].object = file[f].object
                      /\ file[f].status \notin Waited => file'[f].status \notin Waited
                      /\ file[f].status # "ABSENT" => file'[f].status # "ABSENT"

(* own holds the file whose lock the step has, if any.                      *)
Careful(own) ==
  \A f \in Files \ own :
    /\ file'[f].object = file[f].object
    /\ f \in cipher' <=> f \in cipher
    /\ file'[f].status = "ENCRYPTING" => file[f].status = "ENCRYPTING"
    /\ file[f].status = "ENCRYPTING" /\ Entries(f) \subseteq staged => Entries(f) \subseteq staged'

RowsStay == \A a \in analysis : a.object \in objects =>
              \E c \in analysis' : c.batch = a.batch /\ c.object = a.object

Locked(own) == {Fin(f) : f \in own}

LEMMA EventsStay ==
  ASSUME QueueInv, FilesInv, Onward, scenario' = scenario, NEW e \in outbox
  PROVE  EventFits(e)'
<1>1. e \in Events /\ EventFits(e) /\ e.work.obj \in Files
  BY EventFacts DEF QueueInv, EventsOK, FilesInv
<1>2. Shape[e.work.obj].batch \in Batches
  BY <1>1, ShapeFacts DEF QueueInv
<1> QED BY <1>1, <1>2, Fixed DEF EventFits, Onward, Listed

LEMMA RowStays ==
  ASSUME QueueInv, FilesInv, Onward, scenario' = scenario, NEW a \in analysis
  PROVE  RowFits(a)'
<1>0. Shape' = Shape /\ Files' = Files /\ NoFile \notin Files /\ a.object \in Files
  BY Fixed, ShapeFacts DEF QueueInv, FilesInv, AnalysisOK
<1>1. CASE Listed(a.object) /\ Shape[a.object].batch = a.batch /\ file[a.object].status # "ABSENT"
  BY <1>0, <1>1 DEF RowFits, Onward, Listed
<1>2. ASSUME NEW f \in Files, Shape[f].batch = a.batch, file[f].object = a.object
      PROVE  RowFits(a)'
  <2>1. file[f].status = "STORED"
    BY <1>0, <1>2, FileFacts DEF StatusFits
  <2> QED BY <1>0, <1>2, <2>1 DEF RowFits, Onward
<1> QED BY <1>1, <1>2 DEF FilesInv, RowFits

LEMMA SlotStays ==
  ASSUME QueueInv, FilesInv, Onward, scenario' = scenario, NEW own, Careful(own),
         NEW s \in Slots, slot'[s] = slot[s], Executing(s) => slot[s].work \notin Locked(own)
  PROVE  SlotSees(slot[s])'
<1> SUFFICES ASSUME slot[s] # Idle, slot[s].pc \in Attempting \cup {"undo", "tidy", "sweep"}
    PROVE  SlotSees(slot[s])'
  <2>1. (slot[s] # Idle /\ slot[s].pc \in Attempting \cup {"undo", "tidy", "sweep"}) \/ SlotSees(slot[s])'
    BY DEF SlotSees, Attempting
  <2> QED BY <2>1
<1>1. Executing(s) /\ SlotFits(slot[s]) /\ SlotSees(slot[s])
  BY DEF Executing, QueueInv, SlotsOK, FilesInv, Attempting
<1> DEFINE f == slot[s].work.obj
<1>2. f \in Files /\ slot[s].work = Fin(f)
  BY <1>1, SlotFacts, WorkFacts DEF SlotFits, Attempting, Fin
<1>3. f \notin own
  BY <1>1, <1>2 DEF Locked
<1>4. Entries(f)' = Entries(f)
  BY Fixed DEF Entries
<1> QED BY <1>1, <1>2, <1>3, <1>4 DEF SlotSees, Careful, Onward

LEMMA RecStays ==
  ASSUME QueueInv, FilesInv, Onward, scenario' = scenario, NEW own, Careful(own), RowsStay,
         rec' = rec, rec # RecIdle => rec.work \notin Locked(own)
  PROVE  RecSees'
<1> SUFFICES ASSUME rec # RecIdle PROVE RecSees'
  BY DEF RecSees
<1> DEFINE f == rec.work.obj
<1>1. f \in Files /\ RecSees /\ StatusFits(f) /\ ObjectFits(f) /\ rec.work = Work(rec.work.topic, f)
  BY RecFacts, FileFacts DEF FilesInv
<1>2. rec.work.topic = "upload.finalize" => f \notin own
  BY <1>1 DEF Locked, Fin
<1>3. CASE rec.pc = "record" /\ rec.work.topic = "import.analyze"
  <2>1. file[f].object # NoFile /\ file[f].status = "STORED" /\ file'[f].object = file[f].object
        /\ file[f].object \in objects
    BY <1>1, <1>3 DEF RecSees, StatusFits, ObjectFits, Onward
  <2>2. PICK a \in analysis : a.batch = Shape[f].batch /\ a.object = file[f].object
    BY <1>1, <1>3 DEF RecSees, Row
  <2>3. Row(f)' # {}
    BY <2>1, <2>2, Fixed DEF RowsStay, Row
  <2> QED BY <1>3, <2>1, <2>3 DEF RecSees
<1>4. CASE ~(rec.pc = "record" /\ rec.work.topic = "import.analyze")
  BY <1>1, <1>2, <1>4, RecFacts DEF RecSees, Careful, Onward
<1> QED BY <1>3, <1>4

(* What every step shows.                                                   *)
FilesKept == FilesInv' /\ Onward /\ RowsStay

LEMMA FilesStep ==
  ASSUME QueueInv, FilesInv, scenario' = scenario, Onward, NEW own, Careful(own), RowsStay,
         RowsOK', AnalysisOK', \A f \in Files : FileFits(f)', \A b \in Batches : BatchFits(b)',
         \A a \in analysis' : a \in analysis \/ RowFits(a)',
         \A e \in outbox' : e \in outbox \/ EventFits(e)',
         \A s \in Slots : \/ slot'[s] = slot[s] /\ (Executing(s) => slot[s].work \notin Locked(own))
                          \/ SlotSees(slot[s])',
         \/ rec' = rec /\ (rec # RecIdle => rec.work \notin Locked(own))
         \/ RecSees'
  PROVE  FilesKept
<1>1. Files' = Files /\ Batches' = Batches
  BY Fixed
<1>2. \A a \in analysis' : RowFits(a)'
  BY RowStays
<1>3. \A e \in outbox' : EventFits(e)'
  BY EventsStay
<1>4. \A s \in Slots : SlotSees(slot[s])'
  BY SlotStays
<1>5. RecSees'
  BY RecStays
<1> QED BY <1>1, <1>2, <1>3, <1>4, <1>5 DEF FilesInv, FilesKept

-----------------------------------------------------------------------------
(* Amounts.                                                                 *)

LEMMA EntriesFinite ==
  ASSUME scenario \in Scenarios, NEW S \in SUBSET Files
  PROVE  /\ IsFiniteSet(S) /\ IsFiniteSet(UNION {Entries(f) : f \in S}) /\ UNION {Entries(f) : f \in S} \subseteq Files
         /\ Cardinality(S) \in Nat
<1>1. IsFiniteSet(Files) /\ UNION {Entries(f) : f \in S} \subseteq Files
  BY ShapeFacts DEF Entries
<1> QED BY <1>1, FS_Subset, FS_CardinalityType

LEMMA Amounts ==
  ASSUME scenario \in Scenarios, NEW S \in SUBSET Files
  PROVE  Sizes(S) \in Nat /\ EntryBytes(S) \in Nat /\ EntryCount(S) \in Nat
<1> DEFINE size == [f \in Files |-> Shape[f].size]
           T == UNION {Entries(f) : f \in S}
<1>1. IsFiniteSet(S) /\ IsFiniteSet(T) /\ T \subseteq Files
  BY EntriesFinite
<1>2. \A f \in Files : size[f] \in Nat
  BY ShapeFacts
<1> HIDE DEF size, T
<1>3. SumFunctionOnSet(size, S) \in Nat /\ SumFunctionOnSet(size, T) \in Nat
  BY <1>1, <1>2, SumNat
<1>4. Cardinality(T) \in Nat
  BY <1>1, FS_CardinalityType
<1> QED BY <1>3, <1>4 DEF Sizes, EntryBytes, EntryCount, size, T

LEMMA ReceivedNat ==
  ASSUME scenario \in Scenarios, RowsOK, NEW S \in SUBSET Files
  PROVE  Received(S) \in Nat
<1> DEFINE amount == [f \in Files |-> file[f].received]
<1>1. \A f \in Files : amount[f] \in Nat
  BY DEF RowsOK, FileRow
<1>2. IsFiniteSet(S)
  BY EntriesFinite
<1> HIDE DEF amount
<1>3. SumFunctionOnSet(amount, S) \in Nat
  BY <1>1, <1>2, SumNat
<1> QED BY <1>3 DEF Received, amount

Returned(row, x, y) == [row EXCEPT !.expanded = @ - x, !.count = @ - y]

LEMMA ReturnedRow ==
  ASSUME NEW row \in UploadRow, NEW x \in Nat, NEW y \in Nat
  PROVE  LET r == Returned(row, x, y)
         IN  /\ r \in UploadRow
             /\ r.status = row.status /\ r.declared = row.declared /\ r.received = row.received
             /\ r.due = row.due /\ r.expanded = row.expanded - x /\ r.count = row.count - y
<1> DEFINE e == row.expanded - x
           c == row.count - y
           r == [row EXCEPT !.expanded = e, !.count = c]
<1>1. e \in Int /\ c \in Int
  BY DEF UploadRow
<1>2. r = Returned(row, x, y)
  BY DEF Returned
<1> HIDE DEF e, c
<1>3. r \in UploadRow
  BY <1>1 DEF UploadRow
<1>4. /\ r.status = row.status /\ r.declared = row.declared /\ r.received = row.received
      /\ r.due = row.due /\ r.expanded = e /\ r.count = c
  BY DEF UploadRow
<1> QED BY <1>2, <1>3, <1>4 DEF e, c

Back(S, b) == {f \in S : Shape[f].batch = b /\ file[f].resv = "RESERVED"}

(* Giving budgets back changes amounts only.                                *)
LEMMA ReleasedFacts ==
  ASSUME scenario \in Scenarios, NEW rows \in [Batches -> UploadRow], NEW S \in SUBSET Files
  PROVE  /\ Released(rows, S) \in [Batches -> UploadRow]
         /\ \A b \in Batches : LET r == Released(rows, S)[b]
                               IN  /\ r.status = rows[b].status /\ r.declared = rows[b].declared
                                   /\ r.received = rows[b].received /\ r.due = rows[b].due
                                   /\ r.expanded = rows[b].expanded - EntryBytes(Back(S, b))
                                   /\ r.count = rows[b].count - EntryCount(Back(S, b))
<1> DEFINE r(b) == Returned(rows[b], EntryBytes(Back(S, b)), EntryCount(Back(S, b)))
<1>1. ASSUME NEW b \in Batches
      PROVE  /\ r(b) \in UploadRow
             /\ r(b).status = rows[b].status /\ r(b).declared = rows[b].declared
             /\ r(b).received = rows[b].received /\ r(b).due = rows[b].due
             /\ r(b).expanded = rows[b].expanded - EntryBytes(Back(S, b))
             /\ r(b).count = rows[b].count - EntryCount(Back(S, b))
  <2>1. EntryBytes(Back(S, b)) \in Nat /\ EntryCount(Back(S, b)) \in Nat
    BY Amounts DEF Back
  <2> QED BY <2>1, ReturnedRow
<1>2. Released(rows, S) = [b \in Batches |-> r(b)]
  BY DEF Released, Returned, Back
<1> HIDE DEF r
<1> QED BY <1>1, <1>2

-----------------------------------------------------------------------------
(* Files that fail.                                                         *)

Failed(S) == {f \in S : file[f].status # "STORED"}

LEMMA FailingRows ==
  ASSUME FilesInv, NEW S \in SUBSET Files, file' = Failing(S)
  PROVE  /\ file' \in [Files -> FileRow]
         /\ \A f \in Failed(S) : /\ file'[f].status = "FAILED" /\ file'[f].resv = "NONE"
                                 /\ file'[f].object = NoFile /\ file'[f].object = file[f].object
                                 /\ file'[f].received = file[f].received /\ file'[f].temp = file[f].temp
         /\ \A f \in Files \ Failed(S) : file'[f] = file[f]
<1>1. ASSUME NEW f \in Failed(S)
      PROVE  /\ file'[f].status = "FAILED" /\ file'[f].resv = "NONE"
             /\ file'[f].object = NoFile /\ file'[f].object = file[f].object
             /\ file'[f].received = file[f].received /\ file'[f].temp = file[f].temp /\ file'[f] \in FileRow
  <2>1. f \in Files /\ file'[f] = [file[f] EXCEPT !.status = "FAILED", !.resv = "NONE"] /\ file[f] \in FileRow
    BY FileFacts DEF Failed, Failing, FailedRow
  <2>2. file[f].object = NoFile
    BY <2>1, FileFacts DEF Failed, StatusFits
  <2> QED BY <2>1, <2>2 DEF FileRow, FileStatus
<1>2. ASSUME NEW f \in Files \ Failed(S) PROVE file'[f] = file[f]
  BY DEF Failed, Failing, FailedRow
<1>3. file' = [f \in Files |-> file'[f]]
  BY DEF Failing
<1>4. \A f \in Files : file'[f] \in FileRow
  BY <1>1, <1>2, FileFacts
<1> QED BY <1>1, <1>2, <1>3, <1>4

(* The files S fail, C of them are left to be cleaned.                      *)
LEMMA FailingFits ==
  ASSUME QueueInv, FilesInv, scenario' = scenario, NEW S \in SUBSET Files, file' = Failing(S),
         \A f \in S : file[f].status # "ABSENT",
         \A b \in Batches : upload'[b].status # upload[b].status =>
                              {upload[b].status, upload'[b].status} \cap {"READY", "ABSENT"} = {},
         UNCHANGED <<objects, staged, cipher>>,
         withdrawn' \subseteq withdrawn \cup Failed(S),
         NEW C \in SUBSET S, cleaning' \subseteq cleaning \cup C,
         \A f \in C : \A g \in Entries(f) : file'[g].status \notin Needed,
         \A a \in analysis : a.object \notin Failed(S) => a \in analysis'
  PROVE  /\ \A f \in Files : FileFits(f)'
         /\ Onward /\ Careful({}) /\ RowsStay
<1>0. Shape' = Shape /\ Files' = Files /\ NoFile \notin Files
  BY Fixed, ShapeFacts DEF QueueInv
<1>1. /\ \A f \in Failed(S) : /\ file'[f].status = "FAILED" /\ file'[f].resv = "NONE"
                              /\ file'[f].object = NoFile /\ file[f].object = NoFile
                              /\ file'[f].received = file[f].received
      /\ \A f \in Files \ Failed(S) : file'[f] = file[f]
      /\ Failed(S) \subseteq S /\ S \subseteq Files
  BY FailingRows DEF Failed
<1>2. \A b \in Batches : /\ upload'[b].status = "READY" <=> upload[b].status = "READY"
                         /\ upload'[b].status = "ABSENT" <=> upload[b].status = "ABSENT"
  OBVIOUS
<1>3. \A f \in Files : file'[f].status = "STORED" <=> file[f].status = "STORED"
  BY <1>1 DEF Failed
<1>4. ASSUME NEW f \in Files PROVE StatusFits(f)'
  <2>1. Shape[f].batch \in Batches /\ Shape[f].parent \in Files \cup {NoFile} /\ StatusFits(f)
    BY ShapeFacts, FileFacts DEF QueueInv
  <2>2. CASE f \in Failed(S)
    BY <1>0, <1>1, <1>2, <1>3, <2>1, <2>2 DEF StatusFits, Listed
  <2>3. CASE f \notin Failed(S)
    BY <1>0, <1>1, <1>2, <1>3, <2>1, <2>3 DEF StatusFits, Listed
  <2> QED BY <2>2, <2>3
<1>5. ASSUME NEW f \in Files PROVE PlaintextFits(f)'
  <2>1. PlaintextFits(f) /\ Entries(f)' = Entries(f) /\ Entries(f) \subseteq Files
    BY FileFacts, Fixed DEF Entries
  <2>2. \A g \in Files : file'[g].status \in Needed => file'[g] = file[g]
    BY <1>1 DEF Needed
  <2>3. f \in C => file'[f].status \in {"FAILED", "STORED"}
    BY <1>1 DEF Failed
  <2>4. f \in cleaning => file'[f].status \in {"FAILED", "STORED"}
    BY <1>1, <2>1 DEF PlaintextFits
  <2> QED BY <1>0, <2>1, <2>2, <2>3, <2>4 DEF PlaintextFits, Listed
<1>6. ASSUME NEW f \in Files PROVE ObjectFits(f)'
  BY <1>0, <1>1, FileFacts DEF ObjectFits, Listed
<1>7. Onward
  BY <1>1, <1>2, FileFacts DEF Onward, Failed, Waited, StatusFits
<1>8. Careful({})
  BY <1>1 DEF Careful
<1>9. RowsStay
  BY <1>1, <1>0, FileFacts DEF RowsStay, ObjectFits, FilesInv, RowsOK
<1> QED BY <1>4, <1>5, <1>6, <1>7, <1>8, <1>9 DEF FileFits

LEMMA PreflightFacts ==
  ASSUME RowsOK, NEW b \in Batches, NEW row, NEW rows
  PROVE  LET p == Preflight(imp, row, rows, b)
         IN  /\ p \in [Batches -> ImportStatus]
             /\ \A c \in Batches : c # b => p[c] = imp[c]
             /\ \/ p = imp
                \/ imp[b] \in {"UPLOADING", "ANALYZING"} /\ p[b] \in {"ANALYZING", "COMMITTING", "FAILED"}
<1>1. \A x, y, z : DecidePreflight(x, y, z) \in {"ANALYZING", "COMMITTING", "FAILED"}
  BY DEF DecidePreflight
<1> QED BY <1>1 DEF Preflight, RowsOK, ImportStatus

LEMMA ListedRow ==
  ASSUME QueueInv, FilesInv, NEW a \in analysis
  PROVE  /\ a.object \in Files /\ a.batch \in Batches
         /\ Listed(a.object) => /\ Shape[a.object].batch = a.batch
                                /\ file[a.object].status \in {"COMPLETE", "FAILED"}
<1>1. a.object \in Files /\ a.batch \in Batches
  BY DEF FilesInv, AnalysisOK
<1>2. ASSUME Listed(a.object), NEW f \in Files, file[f].object = a.object PROVE FALSE
  <2>1. file[a.object].object = a.object
    BY <1>1, <1>2, FileFacts, ShapeFacts DEF ObjectFits, QueueInv
  <2> QED BY <1>1, <1>2, <2>1, FileFacts, ShapeFacts DEF StatusFits, QueueInv
<1>3. Listed(a.object) => Shape[a.object].batch = a.batch /\ file[a.object].status # "ABSENT"
  BY <1>2 DEF FilesInv, RowFits
<1> QED BY <1>1, <1>3, FileFacts DEF StatusFits

(* Objects are not listed files.                                            *)
LEMMA ObjectFacts ==
  ASSUME QueueInv, FilesInv, NEW f \in Files, file[f].object # NoFile
  PROVE  /\ file[f].status = "STORED" /\ file[f].object \in objects /\ file[f].object \in Files
         /\ ~Listed(file[f].object) /\ ~Listed(f) /\ upload[Shape[f].batch].status = "READY"
         /\ file[file[f].object].object = file[f].object
<1>1. file[f].status = "STORED" /\ file[f].object \in objects /\ file[f].object \in Files /\ ~Listed(f)
      /\ upload[Shape[f].batch].status = "READY"
  BY FileFacts DEF StatusFits, ObjectFits, FileRow, FilesInv, RowsOK
<1>2. file[file[f].object].object = file[f].object
  BY <1>1, FileFacts DEF ObjectFits
<1>3. ~Listed(file[f].object)
  BY <1>1, <1>2, FileFacts, ShapeFacts DEF StatusFits, QueueInv
<1> QED BY <1>1, <1>2, <1>3

LEMMA BatchStays ==
  ASSUME QueueInv, FilesInv, scenario' = scenario, NEW b \in Batches,
         \/ imp'[b] = imp[b] /\ (upload[b].status = "READY" => upload'[b].status = "READY")
         \/ upload'[b].status = "READY"
         \/ imp'[b] \notin {"ANALYZING", "COMMITTING", "FAILED"},
         upload'[b].status \in {"OPEN", "UPLOADING", "READY"} /\ imp'[b] \in {"UPLOADING", "ANALYZING"} =>
           \A a \in analysis' : a.batch = b /\ Listed(a.object) =>
             \/ file'[a.object].status = "COMPLETE"
             \/ /\ a \in analysis /\ file'[a.object].status = file[a.object].status
                /\ upload[b].status \in {"OPEN", "UPLOADING", "READY"} /\ imp[b] \in {"UPLOADING", "ANALYZING"}
  PROVE  BatchFits(b)'
BY Fixed DEF FilesInv, BatchFits, Listed

(* A step of the staging: no lock, no slot, no event.                       *)
LEMMA StagingStep ==
  ASSUME QueueInv, FilesInv, UNCHANGED <<outbox, slot, rec, scenario>>, Onward, Careful({}), RowsStay,
         RowsOK', AnalysisOK', \A f \in Files : FileFits(f)', \A b \in Batches : BatchFits(b)',
         \A a \in analysis' : a \in analysis \/ RowFits(a)'
  PROVE  FilesKept
<1>1. Locked({}) = {}
  BY DEF Locked
<1>2. \A s \in Slots : slot'[s] = slot[s] /\ (Executing(s) => slot[s].work \notin Locked({}))
  BY <1>1
<1>3. rec' = rec /\ (rec # RecIdle => rec.work \notin Locked({}))
  BY <1>1
<1> QED BY <1>2, <1>3, FilesStep

(* When the files' rows and what is stored stay as they are.                *)
LEMMA SameFiles ==
  ASSUME QueueInv, FilesInv, scenario' = scenario, UNCHANGED <<file, objects, staged, cipher, withdrawn, analysis>>,
         \A b \in Batches : upload'[b].status # upload[b].status => "READY" \notin {upload[b].status, upload'[b].status}
                                                                   /\ upload'[b].status # "ABSENT",
         NEW C \in SUBSET Files, cleaning' \subseteq cleaning \cup C,
         \A f \in C : file[f].status \in {"FAILED", "STORED"} /\ \A g \in Entries(f) : file[g].status \notin Needed
  PROVE  /\ \A f \in Files : FileFits(f)'
         /\ Onward /\ Careful({}) /\ RowsStay /\ AnalysisOK'
<1>0. Shape' = Shape /\ Files' = Files /\ Batches' = Batches
  BY Fixed
<1>1. ASSUME NEW f \in Files PROVE FileFits(f)'
  <2>1. Entries(f)' = Entries(f) /\ Shape[f].batch \in Batches
    BY Fixed, ShapeFacts DEF Entries, QueueInv
  <2>2. StatusFits(f)'
    BY <1>0, <2>1, FileFacts DEF StatusFits, Listed
  <2>3. PlaintextFits(f)'
    BY <1>0, <2>1, FileFacts DEF PlaintextFits, Listed
  <2>4. ObjectFits(f)'
    BY <1>0, <2>1, FileFacts DEF ObjectFits, Listed
  <2> QED BY <2>2, <2>3, <2>4 DEF FileFits
<1>2. Onward /\ Careful({}) /\ RowsStay
  BY DEF Onward, Careful, RowsStay
<1>3. AnalysisOK'
  BY <1>0 DEF FilesInv, AnalysisOK
<1> QED BY <1>1, <1>2, <1>3

-----------------------------------------------------------------------------
(* The requests.                                                            *)

LEMMA CreateBatchFiles ==
  ASSUME QueueInv, FilesInv, NEW b \in Batches, CreateBatch(b), UNCHANGED <<queueVars, scenario>>
  PROVE  FilesKept
<1>1. /\ upload[b].status = "ABSENT" /\ upload[b] \in UploadRow
      /\ upload' = [upload EXCEPT ![b].status = "OPEN"] /\ imp' = [imp EXCEPT ![b] = "UPLOADING"]
      /\ UNCHANGED <<file, receipts, inflight, withdrawn, analysis, objects, staged, cipher, cleaning, outbox, slot, rec>>
  BY DEF CreateBatch, queueVars, FilesInv, RowsOK
<1>2. /\ upload' \in [Batches -> UploadRow] /\ imp' \in [Batches -> ImportStatus]
      /\ upload'[b].status = "OPEN" /\ imp'[b] = "UPLOADING"
      /\ \A c \in Batches : c # b => upload'[c] = upload[c] /\ imp'[c] = imp[c]
  BY <1>1 DEF FilesInv, RowsOK, UploadRow, UploadStatus, ImportStatus
<1>3. RowsOK'
  BY <1>1, <1>2, Fixed DEF FilesInv, RowsOK, UploadRow, FileRow
<1>4. /\ \A f \in Files : FileFits(f)'
      /\ Onward /\ Careful({}) /\ RowsStay /\ AnalysisOK'
  BY <1>1, <1>2, SameFiles
<1>5. ASSUME NEW c \in Batches PROVE BatchFits(c)'
  <2>1. CASE c = b
    <3>1. ASSUME NEW a \in analysis, a.batch = b, Listed(a.object) PROVE FALSE
      BY <1>1, <3>1, ListedRow, FileFacts DEF StatusFits
    <3> QED BY <1>1, <1>2, <2>1, <3>1, BatchStays
  <2>2. CASE c # b
    BY <1>1, <1>2, <2>2, BatchStays
  <2> QED BY <2>1, <2>2
<1> QED BY <1>1, <1>3, <1>4, <1>5, StagingStep

LEMMA TickFiles ==
  ASSUME QueueInv, FilesInv, NEW b \in Batches, Tick(b), UNCHANGED <<queueVars, scenario>>
  PROVE  FilesKept
<1>1. /\ upload[b].status \in {"OPEN", "UPLOADING"} /\ upload[b] \in UploadRow
      /\ upload' = [upload EXCEPT ![b].due = TRUE]
      /\ UNCHANGED <<imp, file, receipts, inflight, withdrawn, analysis, objects, staged, cipher, cleaning,
                     outbox, slot, rec>>
  BY DEF Tick, queueVars, FilesInv, RowsOK
<1>2. upload' \in [Batches -> UploadRow] /\ \A c \in Batches : upload'[c].status = upload[c].status
  BY <1>1 DEF FilesInv, RowsOK, UploadRow
<1>3. RowsOK'
  BY <1>1, <1>2, Fixed DEF FilesInv, RowsOK, UploadRow, FileRow
<1>4. /\ \A f \in Files : FileFits(f)'
      /\ Onward /\ Careful({}) /\ RowsStay /\ AnalysisOK'
  BY <1>1, <1>2, SameFiles
<1>5. ASSUME NEW c \in Batches PROVE BatchFits(c)'
  BY <1>1, <1>2, BatchStays
<1> QED BY <1>1, <1>3, <1>4, <1>5, StagingStep

(* Chunks under way, and files that are cleaned.                            *)
LEMMA IdleFiles ==
  ASSUME QueueInv, FilesInv, UNCHANGED <<outbox, slot, rec, scenario>>,
         UNCHANGED <<upload, imp, file, withdrawn, analysis, objects, staged, cipher>>,
         inflight' \in [Requests -> [file : Files, offset : Nat, len : Nat] \cup {NoRequest}],
         NEW C \in SUBSET Files, cleaning' \subseteq cleaning \cup C,
         \A f \in C : file[f].status \in {"FAILED", "STORED"} /\ \A g \in Entries(f) : file[g].status \notin Needed
  PROVE  FilesKept
<1>1. cleaning' \subseteq Files
  BY DEF FilesInv, RowsOK
<1>2. RowsOK'
  BY <1>1, Fixed DEF FilesInv, RowsOK, UploadRow, FileRow
<1>3. /\ \A f \in Files : FileFits(f)'
      /\ Onward /\ Careful({}) /\ RowsStay /\ AnalysisOK'
  BY SameFiles
<1>4. ASSUME NEW c \in Batches PROVE BatchFits(c)'
  BY BatchStays
<1> QED BY <1>2, <1>3, <1>4, StagingStep

LEMMA QuietFiles ==
  ASSUME QueueInv, FilesInv, UNCHANGED <<outbox, slot, rec, scenario>>,
         UNCHANGED <<upload, imp, file, withdrawn, analysis, objects, staged, cipher>>,
         inflight' \in [Requests -> [file : Files, offset : Nat, len : Nat] \cup {NoRequest}],
         cleaning' \subseteq cleaning
  PROVE  FilesKept
<1> DEFINE C == {}
<1>1. C \subseteq Files /\ cleaning' \subseteq cleaning \cup C /\ \A f \in C : FALSE
  OBVIOUS
<1> HIDE DEF C
<1> QED BY <1>1, IdleFiles

LEMMA StageChunkFiles ==
  ASSUME QueueInv, FilesInv, NEW q \in Requests, NEW f \in Files, NEW len \in ChunkLengths,
         StageChunk(q, f, len), UNCHANGED <<queueVars, scenario>>
  PROVE  FilesKept
<1>1. [file |-> f, offset |-> file[f].received, len |-> len] \in [file : Files, offset : Nat, len : Nat]
  BY ShapeFacts, FileFacts DEF FileRow, QueueInv
<1>2. inflight' \in [Requests -> [file : Files, offset : Nat, len : Nat] \cup {NoRequest}]
  BY <1>1 DEF StageChunk, FilesInv, RowsOK
<1>3. cleaning' \subseteq cleaning
  BY DEF StageChunk
<1> QED BY <1>2, <1>3, QuietFiles DEF StageChunk, queueVars

LEMMA DropChunkFiles ==
  ASSUME QueueInv, FilesInv, NEW q \in Requests, DropChunk(q), UNCHANGED <<queueVars, scenario>>
  PROVE  FilesKept
<1>1. inflight' \in [Requests -> [file : Files, offset : Nat, len : Nat] \cup {NoRequest}]
  BY DEF DropChunk, FilesInv, RowsOK
<1>2. cleaning' \subseteq cleaning
  BY DEF DropChunk
<1> QED BY <1>1, <1>2, QuietFiles DEF DropChunk, queueVars

LEMMA RemoveAgainFiles ==
  ASSUME QueueInv, FilesInv, NEW b \in Batches, NEW S, RemoveAgain(b, S), UNCHANGED <<queueVars, scenario>>
  PROVE  FilesKept
<1> DEFINE C == {f \in S : file[f].temp}
<1>1. /\ C \subseteq Files /\ \A f \in C : file[f].status = "FAILED"
      /\ cleaning' \subseteq cleaning \cup C
      /\ UNCHANGED <<upload, imp, file, inflight, withdrawn, analysis, objects, staged, cipher>>
  BY DEF RemoveAgain, Of
<1>2. \A f \in C : \A g \in Entries(f) : file[g].status \notin Needed
  BY <1>1, EntriesAbsent DEF Needed
<1> HIDE DEF C
<1>3. inflight' \in [Requests -> [file : Files, offset : Nat, len : Nat] \cup {NoRequest}]
  BY <1>1 DEF FilesInv, RowsOK
<1> QED BY <1>1, <1>2, <1>3, IdleFiles DEF queueVars

LEMMA CleanUpLostFiles ==
  ASSUME QueueInv, FilesInv, NEW f \in Files, CleanUpLost(f), UNCHANGED queueVars
  PROVE  FilesKept
<1>1. cleaning' \subseteq cleaning /\ scenario' = scenario
  BY DEF CleanUpLost, Fault
<1>2. inflight' \in [Requests -> [file : Files, offset : Nat, len : Nat] \cup {NoRequest}]
  BY DEF CleanUpLost, FilesInv, RowsOK
<1> QED BY <1>1, <1>2, QuietFiles DEF CleanUpLost, queueVars

(* What a removal takes from the staging directory was not needed.          *)
LEMMA SweptFits ==
  ASSUME QueueInv, FilesInv, scenario' = scenario, NEW f \in Files, file[f].status \in {"FAILED", "STORED"},
         \/ staged' = Swept(f) /\ \A g \in Entries(f) : file[g].status \notin Needed
         \/ staged' = staged \ {f},
         file' = file \/ file' = [file EXCEPT ![f].temp = FALSE],
         UNCHANGED <<upload, objects, withdrawn, analysis>>, cleaning' \subseteq cleaning,
         cipher' \in {cipher, cipher \ {f}}, cipher' = cipher \/ file[f].object # f
  PROVE  /\ \A g \in Files : FileFits(g)'
         /\ file' \in [Files -> FileRow] /\ staged' \subseteq Files /\ cipher' \subseteq Files
         /\ \A g \in Files : file'[g].status = file[g].status /\ file'[g].object = file[g].object
         /\ Onward /\ Careful({f}) /\ (cipher' = cipher => Careful({})) /\ RowsStay /\ AnalysisOK'
<1>0. Shape' = Shape /\ Files' = Files /\ Batches' = Batches
  BY Fixed
<1>1. /\ file' \in [Files -> FileRow]
      /\ \A g \in Files : g # f => file'[g] = file[g]
      /\ \A g \in Files : /\ file'[g].status = file[g].status /\ file'[g].object = file[g].object
                          /\ file'[g].resv = file[g].resv /\ file'[g].received = file[g].received
  <2> DEFINE row == [file[f] EXCEPT !.temp = FALSE]
  <2>1. /\ row \in FileRow /\ row.status = file[f].status /\ row.object = file[f].object
        /\ row.resv = file[f].resv /\ row.received = file[f].received
    BY FileFacts DEF FileRow
  <2>2. file \in [Files -> FileRow]
    BY DEF FilesInv, RowsOK
  <2>3. CASE file' = file
    BY <2>2, <2>3
  <2>4. CASE file' = [file EXCEPT ![f] = row]
    <3> HIDE DEF row
    <3> QED BY <2>1, <2>2, <2>4
  <2> QED BY <2>3, <2>4
<1>2. \A g \in staged : file[g].status \in Needed => g \in staged'
  BY DEF Swept, Needed
<1>3. ASSUME NEW g \in Files PROVE FileFits(g)'
  <2>1. Entries(g)' = Entries(g) /\ Entries(g) \subseteq Files
    BY <1>0 DEF Entries
  <2>2. StatusFits(g)'
    BY <1>0, <1>1, FileFacts, ShapeFacts DEF StatusFits, Listed, QueueInv
  <2>3. file'[g].status \in Needed => file'[g] = file[g]
    BY <1>1 DEF Needed
  <2>4. PlaintextFits(g)'
    BY <1>0, <1>1, <1>2, <2>1, <2>3, FileFacts DEF PlaintextFits, Listed
  <2>5. ObjectFits(g)'
    BY <1>0, <1>1, FileFacts DEF ObjectFits, Listed
  <2> QED BY <2>2, <2>4, <2>5 DEF FileFits
<1>4. staged' \subseteq Files /\ cipher' \subseteq Files
  BY DEF FilesInv, RowsOK, Swept
<1>5. Onward /\ RowsStay
  BY <1>1 DEF Onward, RowsStay
<1>6. ASSUME NEW g \in Files, file[g].status = "ENCRYPTING", Entries(g) \subseteq staged
      PROVE  Entries(g) \subseteq staged'
  <2>1. g # f
    BY <1>6 DEF Needed
  <2>2. \A h \in Entries(g) : Shape[h].parent = g
    BY DEF Entries
  <2>3. f \notin Entries(g)
    <3> SUFFICES ASSUME f \in Entries(g) PROVE FALSE
      OBVIOUS
    <3>1. file[f].status = "ABSENT"
      BY <1>6, EntriesAbsent
    <3> QED BY <3>1, <1>6 
  <2>4. \A h \in Entries(f) : Shape[h].parent = f
    BY DEF Entries
  <2> QED BY <1>6, <2>1, <2>2, <2>3, <2>4 DEF Swept
<1>7. Careful({f}) /\ (cipher' = cipher => Careful({}))
  BY <1>1, <1>6 DEF Careful
<1>8. AnalysisOK'
  BY <1>0 DEF FilesInv, AnalysisOK
<1> QED BY <1>1, <1>3, <1>4, <1>5, <1>7, <1>8

LEMMA CleanUpFiles ==
  ASSUME QueueInv, FilesInv, NEW f \in Files, CleanUp(f), UNCHANGED <<queueVars, scenario>>
  PROVE  FilesKept
<1>1. /\ f \in cleaning /\ staged' = Swept(f) /\ file' = [file EXCEPT ![f].temp = FALSE]
      /\ cleaning' \subseteq cleaning
      /\ UNCHANGED <<upload, imp, receipts, inflight, withdrawn, analysis, objects, cipher>>
  BY DEF CleanUp
<1>2. file[f].status \in {"FAILED", "STORED"} /\ \A g \in Entries(f) : file[g].status \notin Needed
  BY <1>1, FileFacts DEF PlaintextFits
<1>3. /\ \A g \in Files : FileFits(g)'
      /\ file' \in [Files -> FileRow] /\ staged' \subseteq Files /\ cipher' \subseteq Files
      /\ \A g \in Files : file'[g].status = file[g].status
      /\ Onward /\ Careful({}) /\ RowsStay /\ AnalysisOK'
  BY <1>1, <1>2, SweptFits
<1>4. RowsOK'
  BY <1>1, <1>3, Fixed DEF FilesInv, RowsOK, UploadRow, FileRow
<1>5. ASSUME NEW c \in Batches PROVE BatchFits(c)'
  BY <1>1, <1>3, BatchStays, ListedRow
<1> QED BY <1>1, <1>3, <1>4, <1>5, StagingStep DEF queueVars

-----------------------------------------------------------------------------
(* Registration.                                                            *)

(* What is registered.                                                      *)
Registered(b, S) ==
  /\ upload' \in [Batches -> UploadRow] /\ file' \in [Files -> FileRow] /\ staged' \subseteq Files
  /\ upload'[b].status = "UPLOADING" /\ upload'[b].due = upload[b].due
  /\ upload'[b].declared = upload[b].declared + Sizes(S)
  /\ upload'[b].count = upload[b].count + Cardinality(S)
  /\ upload'[b].received = upload[b].received /\ upload'[b].expanded = upload[b].expanded
  /\ \A c \in Batches : c # b => upload'[c] = upload[c]
  /\ \A f \in S : /\ file[f].status = "ABSENT" /\ Shape[f].batch = b /\ Shape[f].parent = NoFile
                  /\ file'[f].status = (IF Shape[f].size = 0 THEN "COMPLETE" ELSE "PENDING")
                  /\ file'[f].temp = TRUE /\ file'[f].received = file[f].received
                  /\ file'[f].resv = file[f].resv /\ file'[f].object = file[f].object
  /\ \A f \in Files \ S : file'[f] = file[f]

LEMMA RegisterRows ==
  ASSUME QueueInv, FilesInv, NEW b \in Batches, NEW S \in SUBSET Files, Register(b, S),
         upload[b].status \in {"ABSENT", "OPEN", "UPLOADING"}
  PROVE  Registered(b, S)
<1>1. /\ \A f \in S : Shape[f].batch = b /\ Shape[f].parent = NoFile
      /\ Of(b) \cap S = {}
      /\ file' = [f \in Files |->
                IF f \in S THEN [file[f] EXCEPT !.status = IF Shape[f].size = 0 THEN "COMPLETE" ELSE "PENDING",
                                                !.temp = TRUE]
                           ELSE file[f]]
      /\ staged' = staged \cup {f \in S : ~Listed(f)}
      /\ upload' = [upload EXCEPT ![b].declared = @ + Sizes(S), ![b].count = @ + Cardinality(S),
                              ![b].status = "UPLOADING"]
  BY DEF Register
<1>2. \A f \in S : file[f].status = "ABSENT"
  BY <1>1 DEF Of
<1>3. ASSUME NEW f \in S
      PROVE  /\ file'[f].status = (IF Shape[f].size = 0 THEN "COMPLETE" ELSE "PENDING")
             /\ file'[f].temp = TRUE /\ file'[f].received = file[f].received
             /\ file'[f].resv = file[f].resv /\ file'[f].object = file[f].object /\ file'[f] \in FileRow
  <2> DEFINE st == IF Shape[f].size = 0 THEN "COMPLETE" ELSE "PENDING"
  <2>1. file'[f] = [file[f] EXCEPT !.status = st, !.temp = TRUE] /\ file[f] \in FileRow /\ st \in FileStatus
    BY <1>1, FileFacts DEF FileStatus
  <2> HIDE DEF st
  <2>2. /\ file'[f].status = st
        /\ file'[f].temp = TRUE /\ file'[f].received = file[f].received
        /\ file'[f].resv = file[f].resv /\ file'[f].object = file[f].object /\ file'[f] \in FileRow
    BY <2>1 DEF FileRow
  <2> QED BY <2>2 DEF st
<1>4. \A f \in Files \ S : file'[f] = file[f]
  BY <1>1
<1>5. file' \in [Files -> FileRow]
  BY <1>1, <1>3, <1>4, FileFacts
<1>6. Sizes(S) \in Nat /\ Cardinality(S) \in Nat
  BY Amounts, EntriesFinite DEF QueueInv
<1> DEFINE d == upload[b].declared + Sizes(S)
           n == upload[b].count + Cardinality(S)
           row == [upload[b] EXCEPT !.declared = d, !.count = n, !.status = "UPLOADING"]
<1>7. upload[b] \in UploadRow /\ upload \in [Batches -> UploadRow] /\ d \in Int /\ n \in Int
  BY <1>6 DEF FilesInv, RowsOK, UploadRow
<1>8. upload' = [upload EXCEPT ![b] = row]
  BY <1>1
<1> HIDE DEF d, n
<1>9. /\ row \in UploadRow /\ row.declared = d /\ row.count = n /\ row.status = "UPLOADING"
      /\ row.due = upload[b].due /\ row.received = upload[b].received /\ row.expanded = upload[b].expanded
  BY <1>7 DEF UploadRow, UploadStatus
<1> HIDE DEF row
<1>10. /\ upload' \in [Batches -> UploadRow] /\ upload'[b] = row
       /\ \A c \in Batches : c # b => upload'[c] = upload[c]
  BY <1>7, <1>8, <1>9
<1>11. staged' \subseteq Files
  BY <1>1 DEF FilesInv, RowsOK
<1> QED BY <1>1, <1>2, <1>3, <1>4, <1>5, <1>9, <1>10, <1>11 DEF Registered, d, n

LEMMA RegisterFiles ==
  ASSUME QueueInv, FilesInv, NEW b \in Batches, NEW S \in SUBSET {f \in Files : Shape[f].batch = b},
         CreateBatchWithFiles(b, S) \/ CreateFiles(b, S), UNCHANGED <<queueVars, scenario>>
  PROVE  FilesKept
<1> DEFINE new == {[batch |-> b, object |-> f, status |-> "EXCLUDED"] : f \in {g \in S : Listed(g)}}
<1>0. Shape' = Shape /\ Files' = Files /\ Batches' = Batches /\ S \subseteq Files /\ NoFile \notin Files
  BY Fixed, ShapeFacts DEF QueueInv
<1>1. /\ Register(b, S) /\ upload[b].status \in {"ABSENT", "OPEN", "UPLOADING"}
      /\ staged' = staged \cup {f \in S : ~Listed(f)} /\ analysis' = analysis \cup new
      /\ UNCHANGED <<receipts, inflight, withdrawn, objects, cipher, cleaning, outbox, slot, rec>>
      /\ \/ upload[b].status = "ABSENT" /\ imp' = [imp EXCEPT ![b] = "UPLOADING"]
         \/ upload[b].status \in {"OPEN", "UPLOADING"} /\ imp' = imp
  BY DEF CreateBatchWithFiles, CreateFiles, Register, queueVars
<1> HIDE DEF new
<1>2. /\ upload' \in [Batches -> UploadRow] /\ file' \in [Files -> FileRow] /\ staged' \subseteq Files
      /\ upload'[b].status = "UPLOADING" /\ \A c \in Batches : c # b => upload'[c] = upload[c]
      /\ \A f \in S : /\ file[f].status = "ABSENT" /\ Shape[f].batch = b /\ Shape[f].parent = NoFile
                      /\ file'[f].status = (IF Shape[f].size = 0 THEN "COMPLETE" ELSE "PENDING")
                      /\ file'[f].temp = TRUE /\ file'[f].received = file[f].received
                      /\ file'[f].resv = file[f].resv /\ file'[f].object = file[f].object
      /\ \A f \in Files \ S : file'[f] = file[f]
  <2>1. Register(b, S) /\ upload[b].status \in {"ABSENT", "OPEN", "UPLOADING"} /\ S \in SUBSET Files
    BY <1>0, <1>1
  <2>2. Registered(b, S)
    BY <2>1, RegisterRows
  <2> QED BY <2>2 DEF Registered
<1>3. imp' \in [Batches -> ImportStatus] /\ (\A c \in Batches : c # b => imp'[c] = imp[c])
      /\ imp'[b] \notin {"ANALYZING", "COMMITTING", "FAILED"}
  BY <1>1 DEF FilesInv, RowsOK, ImportStatus, BatchFits
<1>4. RowsOK'
  BY <1>0, <1>1, <1>2, <1>3, Fixed DEF FilesInv, RowsOK, UploadRow, FileRow
<1>5. \A a \in new : a.batch = b /\ a.object \in S /\ Listed(a.object) /\ a.status = "EXCLUDED"
                     /\ a = [batch |-> b, object |-> a.object, status |-> "EXCLUDED"]
  BY DEF new
<1>6. \A f \in S : \A a \in analysis : a.object # f
  <2> SUFFICES ASSUME NEW f \in S, NEW a \in analysis, a.object = f PROVE FALSE
    OBVIOUS
  <2>1. ~Listed(f)
    BY <1>2, ListedRow
  <2>2. PICK g \in Files : file[g].object = f
    BY <2>1 DEF FilesInv, RowFits
  <2>3. file[f].object = f
    BY <1>0, <2>2, ObjectFacts
  <2> QED BY <1>0, <1>2, <2>3, ObjectFacts
<1>7. AnalysisOK'
  <2>1. IsFiniteSet(new)
    <3> DEFINE T == {g \in S : Listed(g)}
               row == [f \in T |-> [batch |-> b, object |-> f, status |-> "EXCLUDED"]]
    <3>1. IsFiniteSet(T)
      BY <1>0, EntriesFinite DEF QueueInv
    <3>2. row \in Surjection(T, new)
      BY DEF new, Surjection
    <3> QED BY <3>1, <3>2, FS_Surjection
  <2>2. IsFiniteSet(analysis')
    BY <1>1, <2>1, FS_Union DEF FilesInv, AnalysisOK
  <2>3. new \subseteq [batch : Batches, object : Files, status : Outcomes \cup {"FAILED"}]
    BY <1>0 DEF Outcomes, new
  <2>4. \A a, c \in analysis' : a.batch = c.batch /\ a.object = c.object => a = c
    <3> SUFFICES ASSUME NEW a \in analysis', NEW c \in analysis', a.batch = c.batch, a.object = c.object
        PROVE a = c
      OBVIOUS
    <3>1. CASE a \in analysis /\ c \in analysis
      BY <3>1 DEF FilesInv, AnalysisOK
    <3>2. CASE a \in new /\ c \in new
      BY <1>5, <3>2
    <3> QED BY <1>1, <1>5, <1>6, <3>1, <3>2
  <2> QED BY <1>0, <1>1, <2>2, <2>3, <2>4 DEF FilesInv, AnalysisOK
<1>8. ASSUME NEW f \in Files PROVE FileFits(f)'
  <2>0. Entries(f)' = Entries(f) /\ Entries(f) \subseteq Files /\ (\A g \in Entries(f) : Shape[g].parent = f)
        /\ Shape[f].batch \in Batches /\ (Listed(f) => Shape[f].size = 0 /\ Shape[f].parent = NoFile)
        /\ Shape[f].parent \in Files \cup {NoFile}
    BY <1>0, ShapeFacts DEF Entries, QueueInv
  <2>1. CASE f \in S
    <3>1. /\ file[f].resv = "NONE" /\ file[f].object = NoFile /\ f \notin withdrawn /\ f \notin cleaning
          /\ f \notin objects
      BY <1>0, <1>2, <2>1, FileFacts DEF StatusFits, PlaintextFits, ObjectFits, FileRow
    <3>2. StatusFits(f)'
      BY <1>0, <1>1, <1>2, <2>0, <2>1, <3>1 DEF StatusFits, Listed
    <3>3. PlaintextFits(f)'
      BY <1>0, <1>1, <1>2, <2>0, <2>1, <3>1 DEF PlaintextFits, Listed
    <3>4. ObjectFits(f)'
      <4>1. Listed(f) => [batch |-> b, object |-> f, status |-> "EXCLUDED"] \in analysis'
        BY <1>1, <2>1 DEF new
      <4> QED BY <1>0, <1>1, <1>2, <2>1, <3>1, <4>1 DEF ObjectFits, Listed
    <3> QED BY <3>2, <3>3, <3>4 DEF FileFits
  <2>2. CASE f \notin S
    <3>1. file'[f] = file[f]
      BY <1>2, <2>2
    <3>2. \A g \in Files : file[g].status = "STORED" => file'[g].status = "STORED"
      BY <1>2
    <3>3. StatusFits(f)'
      BY <1>0, <1>1, <1>2, <2>0, <3>1, <3>2, FileFacts DEF StatusFits, Listed
    <3>4. \A g \in Entries(f) : file'[g] = file[g]
      BY <1>0, <1>2, <2>0
    <3>5. PlaintextFits(f)'
      BY <1>0, <1>1, <2>0, <3>1, <3>4, FileFacts DEF PlaintextFits, Listed
    <3>6. ObjectFits(f)'
      BY <1>0, <1>1, <3>1, FileFacts DEF ObjectFits, Listed
    <3> QED BY <3>3, <3>5, <3>6 DEF FileFits
  <2> QED BY <2>1, <2>2
<1>9. Onward /\ RowsStay
  BY <1>1, <1>2 DEF Onward, Waited, RowsStay
<1>10. Careful({})
  BY <1>1, <1>2 DEF Careful
<1>11. \A a \in analysis' : a \in analysis \/ RowFits(a)'
  <2> QED BY <1>0, <1>1, <1>2, <1>5 DEF RowFits, Listed
<1>12. ASSUME NEW c \in Batches PROVE BatchFits(c)'
  <2>1. ASSUME NEW a \in new PROVE file'[a.object].status = "COMPLETE" /\ a.batch = b
    BY <1>2, <1>5, <2>1, ShapeFacts DEF QueueInv
  <2>2. ASSUME NEW a \in analysis PROVE file'[a.object].status = file[a.object].status
    BY <1>2, <1>6, <2>2, ListedRow
  <2>3. CASE c # b
    BY <1>1, <1>2, <1>3, <2>1, <2>2, <2>3, BatchStays
  <2>4. CASE c = b
    <3>1. ASSUME upload[b].status = "ABSENT", NEW a \in analysis, a.batch = b, Listed(a.object) PROVE FALSE
      BY <3>1, ListedRow, FileFacts DEF StatusFits
    <3> QED BY <1>1, <1>2, <1>3, <2>1, <2>2, <2>4, <3>1, BatchStays
  <2> QED BY <2>3, <2>4
<1> QED BY <1>1, <1>4, <1>7, <1>8, <1>9, <1>10, <1>11, <1>12, StagingStep

(* What the commit of a chunk does.                                         *)
Committed(q) ==
  LET c == inflight[q]  f == c.file  b == Shape[f].batch
  IN  /\ c \in [file : Files, offset : Nat, len : Nat] /\ f \in Files /\ b \in Batches
      /\ c.offset \in Nat /\ c.len \in Nat
      /\ c.offset = file[f].received /\ c.offset + c.len <= Shape[f].size
      /\ file[f].status \in {"PENDING", "UPLOADING"} /\ upload[b].status \in {"OPEN", "UPLOADING"}
      /\ \A r \in receipts : ~(r.file = f /\ r.offset = c.offset)
      /\ receipts' = receipts \cup {c}
      /\ upload' \in [Batches -> UploadRow] /\ file' \in [Files -> FileRow]
      /\ file'[f].status \in {"COMPLETE", "UPLOADING"} /\ file'[f].received = file[f].received + c.len
      /\ file'[f].temp = file[f].temp /\ file'[f].resv = file[f].resv /\ file'[f].object = file[f].object
      /\ \A g \in Files : g # f => file'[g] = file[g]
      /\ upload'[b].received = upload[b].received + c.len
      /\ upload'[b].declared = upload[b].declared /\ upload'[b].count = upload[b].count
      /\ upload'[b].expanded = upload[b].expanded /\ upload'[b].due = upload[b].due
      /\ upload'[b].status = upload[b].status
      /\ \A d \in Batches : d # b => upload'[d] = upload[d]
      /\ inflight' \in [Requests -> [file : Files, offset : Nat, len : Nat] \cup {NoRequest}]

LEMMA CommitChunkRows ==
  ASSUME QueueInv, FilesInv, NEW q \in Requests, CommitChunk(q)
  PROVE  Committed(q)
<1> DEFINE c == inflight[q]
           f == c.file
           b == Shape[f].batch
           received == file[f].received + c.len
           status == IF received = Shape[f].size THEN "COMPLETE" ELSE "UPLOADING"
           got == upload[b].received + c.len
           row == [file[f] EXCEPT !.received = received, !.status = status]
           urow == [upload[b] EXCEPT !.received = got]
<1>1. c \in [file : Files, offset : Nat, len : Nat]
  BY DEF CommitChunk, FilesInv, RowsOK
<1>2. f \in Files /\ c.offset \in Nat /\ c.len \in Nat /\ b \in Batches /\ file[f] \in FileRow
      /\ upload[b] \in UploadRow /\ file \in [Files -> FileRow] /\ upload \in [Batches -> UploadRow]
  BY <1>1, ShapeFacts, FileFacts DEF QueueInv, FilesInv, RowsOK
<1>3. /\ c.offset = file[f].received /\ c.offset + c.len <= Shape[f].size
      /\ file[f].status \in {"PENDING", "UPLOADING"} /\ upload[b].status \in {"OPEN", "UPLOADING"}
      /\ \A r \in receipts : ~(r.file = f /\ r.offset = c.offset)
      /\ receipts' = receipts \cup {c}
      /\ file' = [file EXCEPT ![f] = row] /\ upload' = [upload EXCEPT ![b] = urow]
      /\ inflight' = [inflight EXCEPT ![q] = NoRequest]
  BY DEF CommitChunk, Committable, Withheld, Receiving, Fitting
<1>4. received \in Nat /\ got \in Int /\ status \in {"COMPLETE", "UPLOADING"}
  BY <1>2 DEF FileRow, UploadRow
<1> HIDE DEF received, got, status
<1>5. /\ row \in FileRow /\ row.received = received /\ row.status = status
      /\ row.temp = file[f].temp /\ row.resv = file[f].resv /\ row.object = file[f].object
  BY <1>2, <1>4 DEF FileRow, FileStatus
<1>6. /\ urow \in UploadRow /\ urow.received = got /\ urow.declared = upload[b].declared
      /\ urow.count = upload[b].count /\ urow.expanded = upload[b].expanded
      /\ urow.due = upload[b].due /\ urow.status = upload[b].status
  BY <1>2, <1>4 DEF UploadRow
<1> HIDE DEF row, urow
<1>7. /\ file' \in [Files -> FileRow] /\ file'[f] = row /\ \A g \in Files : g # f => file'[g] = file[g]
  BY <1>2, <1>3, <1>5
<1>8. /\ upload' \in [Batches -> UploadRow] /\ upload'[b] = urow
      /\ \A d \in Batches : d # b => upload'[d] = upload[d]
  BY <1>2, <1>3, <1>6
<1>9. inflight' \in [Requests -> [file : Files, offset : Nat, len : Nat] \cup {NoRequest}]
  BY <1>3 DEF FilesInv, RowsOK
<1> QED BY <1>1, <1>2, <1>3, <1>4, <1>5, <1>6, <1>7, <1>8, <1>9 DEF Committed, received, got

LEMMA CommitChunkFiles ==
  ASSUME QueueInv, FilesInv, NEW q \in Requests, CommitChunk(q), UNCHANGED <<queueVars, scenario>>
  PROVE  FilesKept
<1> DEFINE f == inflight[q].file
           b == Shape[f].batch
<1>0. Shape' = Shape /\ Files' = Files /\ Batches' = Batches /\ NoFile \notin Files
  BY Fixed, ShapeFacts DEF QueueInv
<1>1. UNCHANGED <<imp, withdrawn, analysis, objects, staged, cipher, cleaning, outbox, slot, rec>>
  BY DEF CommitChunk, queueVars
<1>2. /\ f \in Files /\ b \in Batches
      /\ file[f].status \in {"PENDING", "UPLOADING"} /\ upload[b].status \in {"OPEN", "UPLOADING"}
      /\ upload' \in [Batches -> UploadRow] /\ file' \in [Files -> FileRow]
      /\ file'[f].status \in {"COMPLETE", "UPLOADING"}
      /\ file'[f].temp = file[f].temp /\ file'[f].resv = file[f].resv /\ file'[f].object = file[f].object
      /\ \A g \in Files : g # f => file'[g] = file[g]
      /\ \A d \in Batches : upload'[d].status = upload[d].status
      /\ inflight' \in [Requests -> [file : Files, offset : Nat, len : Nat] \cup {NoRequest}]
  BY CommitChunkRows DEF Committed
<1> HIDE DEF f, b
<1>3. RowsOK'
  BY <1>0, <1>1, <1>2, Fixed DEF FilesInv, RowsOK, UploadRow, FileRow
<1>4. ASSUME NEW g \in Files PROVE FileFits(g)'
  <2>0. Entries(g)' = Entries(g) /\ Entries(g) \subseteq Files
        /\ Shape[g].batch \in Batches /\ Shape[g].parent \in Files \cup {NoFile}
    BY <1>0, ShapeFacts DEF Entries, QueueInv
  <2>1. \A h \in Files : file'[h].status \in Needed <=> file[h].status \in Needed
    BY <1>2 DEF Needed
  <2>2. /\ \A h \in Files : file'[h].status = "STORED" <=> file[h].status = "STORED"
        /\ \A h \in Files : file'[h].status = "ENCRYPTING" <=> file[h].status = "ENCRYPTING"
        /\ \A h \in Files : file'[h].status = "ABSENT" <=> file[h].status = "ABSENT"
    BY <1>2
  <2>3. StatusFits(g)'
    <3>1. CASE g = f
      <4>1. ~Listed(f) /\ file[f].resv = "NONE"
        BY <1>2, FileFacts DEF StatusFits, FileRow
      <4>2. upload[b].status # "READY" /\ upload'[b].status # "READY" /\ b = Shape[f].batch
        BY <1>2 DEF b
      <4> QED BY <1>0, <1>1, <1>2, <2>0, <2>2, <3>1, <4>1, <4>2, FileFacts DEF StatusFits, Listed
    <3>2. CASE g # f
      BY <1>0, <1>1, <1>2, <2>0, <2>2, <3>2, FileFacts DEF StatusFits, Listed
    <3> QED BY <3>1, <3>2
  <2>4. PlaintextFits(g)'
    <3>1. file'[g].temp = file[g].temp
      BY <1>2
    <3>2. g \in cleaning => file'[g].status \in {"FAILED", "STORED"}
      BY <1>2, FileFacts DEF PlaintextFits
    <3> QED BY <1>0, <1>1, <2>0, <2>1, <3>1, <3>2, FileFacts DEF PlaintextFits, Listed
  <2>5. ObjectFits(g)'
    <3>1. file'[g].object = file[g].object
      BY <1>2
    <3>2. Listed(g) => file'[g].status = file[g].status
      BY <1>2, FileFacts DEF StatusFits
    <3> QED BY <1>0, <1>1, <3>1, <3>2, FileFacts DEF ObjectFits, Listed
  <2> QED BY <2>3, <2>4, <2>5 DEF FileFits
<1>5. Onward /\ RowsStay
  BY <1>1, <1>2 DEF Onward, Waited, RowsStay
<1>6. Careful({})
  BY <1>1, <1>2 DEF Careful
<1>7. AnalysisOK'
  BY <1>0, <1>1 DEF FilesInv, AnalysisOK
<1>8. ASSUME NEW c \in Batches PROVE BatchFits(c)'
  <2>1. \A a \in analysis : Listed(a.object) => file'[a.object].status = file[a.object].status
    BY <1>2, ListedRow
  <2> QED BY <1>1, <1>2, <2>1, BatchStays
<1> QED BY <1>1, <1>3, <1>4, <1>5, <1>6, <1>7, <1>8, StagingStep

(* A failure recorded: a step of the queue's or of the user's.              *)
FailureKept(f) ==
  /\ RowsOK' /\ AnalysisOK' /\ (\A g \in Files : FileFits(g)') /\ (\A b \in Batches : BatchFits(b)')
  /\ Onward /\ Careful({}) /\ RowsStay
  /\ file'[f].status = "FAILED"

LEMMA RecordFailure ==
  ASSUME QueueInv, FilesInv, scenario' = scenario, NEW f \in Files, file[f].status \notin {"ABSENT", "STORED"},
         Listed(f) => file[f].status = "FAILED", RecordUploadFileFailure(f),
         UNCHANGED <<inflight, withdrawn, analysis, objects, staged, cipher>>, cleaning' \subseteq cleaning \cup {f}
  PROVE  FailureKept(f)
<1> DEFINE b == Shape[f].batch
           S == {f}
<1>0. Shape' = Shape /\ Files' = Files /\ Batches' = Batches /\ S \in SUBSET Files /\ b \in Batches
      /\ Failed(S) = S /\ upload \in [Batches -> UploadRow] /\ f \in S /\ \A g \in S : g = f
  BY Fixed, ShapeFacts DEF QueueInv, Failed, FilesInv, RowsOK
<1>1. /\ upload' = Released(upload, S) /\ file' = Failing(S)
      /\ imp' = imp \/ (upload[b].status = "READY" /\ imp' = Preflight(imp, Failing({f}), analysis, b))
  BY DEF RecordUploadFileFailure
<1> HIDE DEF S
<1>2. upload' \in [Batches -> UploadRow] /\ \A c \in Batches : upload'[c].status = upload[c].status
  BY <1>0, <1>1, ReleasedFacts DEF QueueInv
<1>3. /\ file' \in [Files -> FileRow] /\ file'[f].status = "FAILED"
      /\ \A g \in Files : g # f => file'[g] = file[g]
  BY <1>0, <1>1, FailingRows
<1>4. \A g \in Entries(f) : file'[g].status \notin Needed
  <2>1. \A g \in Entries(f) : g \in Files /\ g # f /\ file[g].status = "ABSENT"
    BY EntriesAbsent
  <2> QED BY <1>3, <2>1 DEF Needed
<1>5. /\ \A g \in Files : FileFits(g)'
      /\ Onward /\ Careful({}) /\ RowsStay
  <2>1. \A g \in S : file[g].status # "ABSENT" /\ \A h \in Entries(g) : file'[h].status \notin Needed
    BY <1>4 DEF S
  <2>2. withdrawn' \subseteq withdrawn \cup Failed(S) /\ cleaning' \subseteq cleaning \cup S /\ S \in SUBSET S
    BY DEF S
  <2> QED BY <1>0, <1>1, <1>2, <2>1, <2>2, FailingFits
<1>6. /\ imp' \in [Batches -> ImportStatus] /\ (\A c \in Batches : c # b => imp'[c] = imp[c])
      /\ imp'[b] # imp[b] => /\ upload[b].status = "READY" /\ imp[b] \in {"UPLOADING", "ANALYZING"}
                             /\ imp'[b] \in {"ANALYZING", "COMMITTING", "FAILED"}
  <2>1. RowsOK
    BY DEF FilesInv
  <2> QED BY <1>0, <1>1, <2>1, PreflightFacts DEF RowsOK
<1>7. RowsOK'
  <2>1. UploadRow' = UploadRow /\ FileRow' = FileRow /\ Requests' = Requests
    BY <1>0, Fixed DEF UploadRow, FileRow
  <2>2. cleaning' \subseteq Files
    BY DEF FilesInv, RowsOK
  <2> QED BY <1>0, <1>2, <1>3, <1>6, <2>1, <2>2 DEF FilesInv, RowsOK
<1>8. AnalysisOK'
  BY <1>0 DEF FilesInv, AnalysisOK
<1>9. ASSUME NEW c \in Batches PROVE BatchFits(c)'
  <2>1. \A a \in analysis : Listed(a.object) => file'[a.object].status = file[a.object].status
    BY <1>3, ListedRow
  <2>2. CASE imp'[c] = imp[c]
    BY <1>2, <2>1, <2>2, BatchStays
  <2>3. CASE imp'[c] # imp[c]
    <3>1. c = b /\ upload'[c].status = "READY" /\ upload[c].status = "READY" /\ imp[c] \in {"UPLOADING", "ANALYZING"}
      BY <1>2, <1>6, <2>3
    <3> QED BY <2>1, <3>1, BatchStays
  <2> QED BY <2>2, <2>3
<1> QED BY <1>3, <1>5, <1>7, <1>8, <1>9 DEF FailureKept

LEMMA FailFileFiles ==
  ASSUME QueueInv, FilesInv, NEW f \in Files, FailFile(f), UNCHANGED <<queueVars, scenario>>
  PROVE  FilesKept
<1>1. /\ file[f].status \in {"PENDING", "UPLOADING", "FAILED"} /\ RecordUploadFileFailure(f)
      /\ cleaning' \subseteq cleaning \cup {f}
      /\ UNCHANGED <<inflight, withdrawn, analysis, objects, staged, cipher>>
  BY DEF FailFile, Failable
<1>2. Listed(f) => file[f].status = "FAILED"
  BY <1>1, FileFacts DEF StatusFits
<1>3. FailureKept(f)
  BY <1>1, <1>2, RecordFailure
<1> QED BY <1>1, <1>3, StagingStep DEF FailureKept, queueVars

LEMMA RemoveFilesFiles ==
  ASSUME QueueInv, FilesInv, NEW b \in Batches, NEW S \in SUBSET {f \in Files : Shape[f].batch = b},
         RemoveFiles(b, S), UNCHANGED <<queueVars, scenario>>
  PROVE  FilesKept
<1> DEFINE new == NewlyRemoved(S)
           over == \A f \in Of(b) \ S : file[f].status = "FAILED"
           C == {f \in S : file[f].temp}
           d == upload[b].declared - Sizes(new)
           r == upload[b].received - Received(new)
           n == upload[b].count - Cardinality(new)
           st == IF over THEN "CANCELLED" ELSE upload[b].status
           row == [upload[b] EXCEPT !.declared = d, !.received = r, !.count = n, !.status = st]
<1>0. Shape' = Shape /\ Files' = Files /\ Batches' = Batches /\ S \in SUBSET Files /\ new \in SUBSET Files
      /\ NoFile \notin Files
  BY Fixed, ShapeFacts DEF QueueInv, NewlyRemoved
<1>1. /\ S \subseteq Of(b) /\ upload[b].status = "UPLOADING" /\ imp[b] = "UPLOADING"
      /\ \A f \in S : file[f].object = NoFile /\ file[f].status # "ENCRYPTING" /\ file[f].resv = "NONE"
      /\ upload' = [upload EXCEPT ![b] = row]
      /\ imp' = [imp EXCEPT ![b] = "CANCELLED"] \/ imp' = imp
      /\ file' = Failing(S)
      /\ analysis' = {a \in analysis : ~(a.batch = b /\ a.object \in S)}
      /\ withdrawn' = withdrawn \cup S /\ cleaning' = cleaning \cup C
      /\ UNCHANGED <<receipts, inflight, objects, staged, cipher, outbox, slot, rec>>
  BY DEF RemoveFiles, queueVars
<1>2. /\ Sizes(new) \in Nat /\ Received(new) \in Nat /\ Cardinality(new) \in Nat
      /\ upload \in [Batches -> UploadRow] /\ upload[b] \in UploadRow
  BY <1>0, Amounts, ReceivedNat, EntriesFinite DEF QueueInv, FilesInv, RowsOK
<1>3. d \in Int /\ r \in Int /\ n \in Int /\ st \in {"CANCELLED", "UPLOADING"}
  BY <1>1, <1>2 DEF UploadRow
<1> HIDE DEF new, over, d, r, n, st
<1>4. row \in UploadRow /\ row.status = st
  BY <1>2, <1>3 DEF UploadRow, UploadStatus
<1> HIDE DEF row
<1>5. /\ upload' \in [Batches -> UploadRow] /\ upload'[b].status \in {"CANCELLED", "UPLOADING"}
      /\ \A c \in Batches : c # b => upload'[c] = upload[c]
  BY <1>1, <1>2, <1>3, <1>4
<1>6. Failed(S) = S /\ \A f \in S : file[f].status # "ABSENT" /\ file[f].status # "STORED"
  <2>1. \A f \in S : f \in Files /\ file[f].status # "ABSENT" /\ file[f].status # "STORED"
    BY <1>0, <1>1, FileFacts DEF Of, StatusFits
  <2> QED BY <2>1 DEF Failed
<1>7. \A f \in C : \A g \in Entries(f) : file'[g].status \notin Needed
  <2> SUFFICES ASSUME NEW f \in C, NEW g \in Entries(f) PROVE file'[g].status \notin Needed
    OBVIOUS
  <2>1. g \in Files /\ file[g].status = "ABSENT"
    BY <1>0, <1>6, EntriesAbsent
  <2>2. file'[g] = file[g]
    BY <1>0, <1>1, <1>6, <2>1, FailingRows
  <2> QED BY <2>1, <2>2 DEF Needed
<1>8. /\ \A f \in Files : FileFits(f)'
      /\ Onward /\ Careful({}) /\ RowsStay
  <2>1. \A a \in analysis : a.object \notin Failed(S) => a \in analysis'
    BY <1>1, <1>6
  <2>2. \A c \in Batches : upload'[c].status # upload[c].status =>
                              {upload[c].status, upload'[c].status} \cap {"READY", "ABSENT"} = {}
    BY <1>1, <1>5
  <2>3. withdrawn' \subseteq withdrawn \cup Failed(S) /\ cleaning' \subseteq cleaning \cup C /\ C \in SUBSET S
    BY <1>1, <1>6
  <2>4. UNCHANGED <<objects, staged, cipher>> /\ file' = Failing(S) /\ \A f \in S : file[f].status # "ABSENT"
    BY <1>1, <1>6
  <2> HIDE DEF C
  <2> QED BY <1>0, <1>7, <2>1, <2>2, <2>3, <2>4, FailingFits
<1>9. imp' \in [Batches -> ImportStatus] /\ (\A c \in Batches : c # b => imp'[c] = imp[c])
      /\ imp'[b] \in {"CANCELLED", "UPLOADING"}
  BY <1>1 DEF FilesInv, RowsOK, ImportStatus
<1>10. RowsOK'
  <2>1. file' \in [Files -> FileRow]
    BY <1>0, <1>1, FailingRows
  <2>2. withdrawn' \subseteq Files /\ cleaning' \subseteq Files
    BY <1>0, <1>1 DEF FilesInv, RowsOK
  <2> QED BY <1>0, <1>1, <1>5, <1>9, <2>1, <2>2, Fixed DEF FilesInv, RowsOK, UploadRow, FileRow
<1>11. AnalysisOK'
  <2>1. analysis' \subseteq analysis
    BY <1>1
  <2> QED BY <1>0, <2>1, FS_Subset DEF FilesInv, AnalysisOK
<1>12. ASSUME NEW c \in Batches PROVE BatchFits(c)'
  <2>1. ASSUME NEW a \in analysis', Listed(a.object) PROVE a \in analysis /\ file'[a.object].status = file[a.object].status
    <3>1. a \in analysis /\ a.object \notin S /\ a.object \in Files
      BY <1>0, <1>1, <2>1, ListedRow
    <3> QED BY <1>0, <1>1, <1>6, <3>1, FailingRows
  <2> QED BY <1>1, <1>5, <1>9, <2>1, BatchStays
<1>13. \A a \in analysis' : a \in analysis
  BY <1>1
<1> QED BY <1>1, <1>8, <1>10, <1>11, <1>12, <1>13, StagingStep

(* The files S, with what is staged of them, are taken back, and the        *)
(* batches that were still open are over.                                   *)
LEMMA TakenBack ==
  ASSUME QueueInv, FilesInv, UNCHANGED <<outbox, slot, rec, scenario>>, NEW S \in SUBSET Files, file' = Failing(S),
         \A f \in S : file[f].status # "ABSENT" /\ \A g \in Entries(f) : file'[g].status \notin Needed,
         UNCHANGED <<inflight, withdrawn, analysis, objects, staged, cipher>>, cleaning' = cleaning \cup S,
         upload' \in [Batches -> UploadRow], imp' \in [Batches -> ImportStatus],
         \A b \in Batches :
           \/ upload'[b].status = upload[b].status
           \/ upload[b].status \in {"OPEN", "UPLOADING"} /\ upload'[b].status \in {"CANCELLED", "EXPIRED"},
         \A b \in Batches :
           \/ imp'[b] = imp[b]
           \/ imp'[b] = "CANCELLED",
         \A f \in S : file[f].status = "COMPLETE" /\ Listed(f) =>
           LET b == Shape[f].batch
           IN  upload'[b].status \notin {"OPEN", "UPLOADING", "READY"} \/ imp'[b] \notin {"UPLOADING", "ANALYZING"}
  PROVE  FilesKept
<1>0. Shape' = Shape /\ Files' = Files /\ Batches' = Batches
  BY Fixed
<1>1. /\ file' \in [Files -> FileRow]
      /\ \A f \in Failed(S) : file'[f].status = "FAILED"
      /\ \A f \in Files \ Failed(S) : file'[f] = file[f]
      /\ Failed(S) \subseteq S
  BY FailingRows DEF Failed
<1>2. /\ \A f \in Files : FileFits(f)'
      /\ Onward /\ Careful({}) /\ RowsStay
  <2>1. \A b \in Batches : upload'[b].status # upload[b].status =>
                              {upload[b].status, upload'[b].status} \cap {"READY", "ABSENT"} = {}
    OBVIOUS
  <2>2. withdrawn' \subseteq withdrawn \cup Failed(S) /\ cleaning' \subseteq cleaning \cup S /\ S \in SUBSET S
    OBVIOUS
  <2> QED BY <2>1, <2>2, FailingFits
<1>3. RowsOK'
  <2>1. UploadRow' = UploadRow /\ FileRow' = FileRow /\ Requests' = Requests
    BY <1>0, Fixed DEF UploadRow, FileRow
  <2>2. cleaning' \subseteq Files
    BY DEF FilesInv, RowsOK
  <2> QED BY <1>0, <1>1, <2>1, <2>2 DEF FilesInv, RowsOK
<1>4. AnalysisOK'
  BY <1>0 DEF FilesInv, AnalysisOK
<1>5. ASSUME NEW b \in Batches PROVE BatchFits(b)'
  <2> DEFINE live == upload'[b].status \in {"OPEN", "UPLOADING", "READY"} /\ imp'[b] \in {"UPLOADING", "ANALYZING"}
  <2>1. \/ imp'[b] = imp[b] /\ (upload[b].status = "READY" => upload'[b].status = "READY")
        \/ imp'[b] \notin {"ANALYZING", "COMMITTING", "FAILED"}
    OBVIOUS
  <2>2. ASSUME live, NEW a \in analysis, a.batch = b, Listed(a.object)
        PROVE  /\ file'[a.object].status = file[a.object].status
               /\ upload[b].status \in {"OPEN", "UPLOADING", "READY"} /\ imp[b] \in {"UPLOADING", "ANALYZING"}
    <3>1. /\ upload[b].status \in {"OPEN", "UPLOADING", "READY"} /\ imp[b] \in {"UPLOADING", "ANALYZING"}
      BY <2>2
    <3>2. a.object \in Files /\ Shape[a.object].batch = b /\ file[a.object].status = "COMPLETE"
      BY <2>2, <3>1, ListedRow DEF FilesInv, BatchFits
    <3>3. a.object \notin S
      BY <2>2, <3>2
    <3> QED BY <1>1, <3>1, <3>2, <3>3
  <2> QED BY <2>1, <2>2, BatchStays
<1> QED BY <1>2, <1>3, <1>4, <1>5, StagingStep

LEMMA CancelBatchFiles ==
  ASSUME QueueInv, FilesInv, NEW b \in Batches, CancelBatch(b), UNCHANGED <<queueVars, scenario>>
  PROVE  FilesKept
<1> DEFINE S == {f \in Of(b) : file[f].temp}
           rel == Released(upload, S)
           st == IF upload[b].status \in {"OPEN", "UPLOADING"} THEN "CANCELLED" ELSE upload[b].status
           row == [rel[b] EXCEPT !.status = st]
           im == IF imp[b] \in {"UPLOADING", "ANALYZING", "FAILED"} THEN "CANCELLED" ELSE imp[b]
<1>0. S \in SUBSET Files /\ \A f \in S : file[f].status # "ABSENT" /\ Shape[f].batch = b
  BY DEF Of
<1>1. rel \in [Batches -> UploadRow] /\ \A c \in Batches : rel[c].status = upload[c].status
  BY <1>0, ReleasedFacts DEF QueueInv, FilesInv, RowsOK
<1>2. /\ upload' = [rel EXCEPT ![b] = row] /\ imp' = [imp EXCEPT ![b] = im]
      /\ file' = Failing(S) /\ cleaning' = cleaning \cup S
      /\ UNCHANGED <<inflight, withdrawn, analysis, objects, staged, cipher, outbox, slot, rec>>
  <2>1. upload' = [rel EXCEPT ![b] = [rel[b] EXCEPT !.status = IF rel[b].status \in {"OPEN", "UPLOADING"} THEN "CANCELLED" ELSE rel[b].status]]
    BY DEF CancelBatch
  <2> QED BY <1>1, <2>1 DEF CancelBatch, queueVars
<1>3. st \in UploadStatus /\ im \in ImportStatus /\ imp \in [Batches -> ImportStatus]
      /\ (st = upload[b].status \/ (upload[b].status \in {"OPEN", "UPLOADING"} /\ st = "CANCELLED"))
      /\ (im = imp[b] \/ im = "CANCELLED") /\ im \notin {"UPLOADING", "ANALYZING"}
  <2>1. imp[b] \in ImportStatus /\ upload[b] \in UploadRow /\ imp \in [Batches -> ImportStatus]
    BY DEF FilesInv, RowsOK
  <2>2. upload[b].status \in UploadStatus
    BY <2>1 DEF UploadRow
  <2>3. st \in UploadStatus /\ (st = upload[b].status \/ (upload[b].status \in {"OPEN", "UPLOADING"} /\ st = "CANCELLED"))
    BY <2>2 DEF UploadStatus
  <2>4. im \in ImportStatus /\ (im = imp[b] \/ im = "CANCELLED") /\ im \notin {"UPLOADING", "ANALYZING"}
    <3>1. CASE imp[b] \in {"UPLOADING", "ANALYZING", "FAILED"}
      BY <3>1 DEF ImportStatus
    <3>2. CASE imp[b] \notin {"UPLOADING", "ANALYZING", "FAILED"}
      BY <2>1, <3>2
    <3> QED BY <3>1, <3>2
  <2> QED BY <2>1, <2>3, <2>4
<1>4. ASSUME NEW f \in S, NEW g \in Entries(f) PROVE file'[g].status \notin Needed
  <2>1. g \in Files /\ Shape[g].parent = f /\ f \in Files /\ f # NoFile
    BY <1>0, ShapeFacts DEF Entries, QueueInv
  <2>2. Shape[g].batch = b
    BY <1>0, <2>1, ShapeFacts DEF QueueInv
  <2>3. file[g].status \in Needed => g \in Failed(S)
    BY <2>1, <2>2, FileFacts DEF PlaintextFits, Failed, Of, Needed
  <2> QED BY <1>0, <1>2, <2>1, <2>3, FailingRows DEF Needed
<1> HIDE DEF S, rel, st, im
<1>5. row \in UploadRow /\ row.status = st
  BY <1>1, <1>3 DEF UploadRow
<1> HIDE DEF row
<1>6. /\ upload' \in [Batches -> UploadRow] /\ upload'[b].status = st
      /\ \A c \in Batches : c # b => upload'[c].status = upload[c].status
  BY <1>1, <1>2, <1>5
<1>7. /\ imp' \in [Batches -> ImportStatus] /\ imp'[b] = im
      /\ \A c \in Batches : c # b => imp'[c] = imp[c]
  BY <1>2, <1>3
<1>8. /\ \A c \in Batches : \/ upload'[c].status = upload[c].status
                            \/ upload[c].status \in {"OPEN", "UPLOADING"} /\ upload'[c].status \in {"CANCELLED", "EXPIRED"}
      /\ \A c \in Batches : imp'[c] = imp[c] \/ imp'[c] = "CANCELLED"
      /\ \A f \in S : imp'[Shape[f].batch] \notin {"UPLOADING", "ANALYZING"}
  BY <1>0, <1>3, <1>6, <1>7
<1> QED BY <1>0, <1>2, <1>4, <1>6, <1>7, <1>8, TakenBack

LEMMA ExpireStagingFiles ==
  ASSUME QueueInv, FilesInv, ExpireStaging, UNCHANGED <<queueVars, scenario>>
  PROVE  FilesKept
<1> DEFINE S == {f \in Files : LeftOver(f)}
           row(b) == IF Expiring(b) THEN [upload[b] EXCEPT !.status = "EXPIRED"] ELSE upload[b]
           expired == [b \in Batches |-> row(b)]
<1>0. S \in SUBSET Files /\ upload \in [Batches -> UploadRow]
  BY DEF FilesInv, RowsOK
<1>1. ASSUME NEW b \in Batches
      PROVE  row(b) \in UploadRow /\ row(b).status = IF Expiring(b) THEN "EXPIRED" ELSE upload[b].status
  <2>1. upload[b] \in UploadRow
    BY <1>0
  <2> QED BY <2>1 DEF UploadRow, UploadStatus
<1>2. /\ upload' = Released(expired, S) /\ file' = Failing(S) /\ cleaning' = cleaning \cup S
      /\ UNCHANGED <<imp, inflight, withdrawn, analysis, objects, staged, cipher, outbox, slot, rec>>
  BY DEF ExpireStaging, queueVars
<1> HIDE DEF row
<1>3. expired \in [Batches -> UploadRow] /\ \A b \in Batches : expired[b].status = IF Expiring(b) THEN "EXPIRED" ELSE upload[b].status
  BY <1>1
<1> HIDE DEF expired
<1>4. /\ upload' \in [Batches -> UploadRow]
      /\ \A b \in Batches : upload'[b].status = IF Expiring(b) THEN "EXPIRED" ELSE upload[b].status
  BY <1>0, <1>2, <1>3, ReleasedFacts DEF QueueInv
<1>5. ASSUME NEW f \in S
      PROVE  /\ file[f].status # "ABSENT" /\ file[f].status # "STORED"
             /\ \/ file[f].status = "FAILED"
                \/ upload'[Shape[f].batch].status \in {"EXPIRED", "CANCELLED"}
  <2>1. f \in Files /\ file[f].temp /\ Shape[f].batch \in Batches /\ StatusFits(f)
    BY FileFacts, ShapeFacts DEF QueueInv, LeftOver
  <2>2. \/ file[f].status = "FAILED" \/ Expiring(Shape[f].batch)
        \/ upload[Shape[f].batch].status \in {"EXPIRED", "CANCELLED"}
    BY DEF LeftOver
  <2>3. file[f].status # "STORED"
    BY <2>1, <2>2 DEF StatusFits, Expiring
  <2>4. file[f].status # "ABSENT"
    BY <2>1 DEF StatusFits
  <2> QED BY <1>4, <2>1, <2>2, <2>3, <2>4
<1>6. ASSUME NEW f \in S, NEW g \in Entries(f) PROVE file'[g].status \notin Needed
  <2>1. g \in Files /\ file[g].status = "ABSENT" /\ f \in Files
    BY <1>0, <1>5, EntriesAbsent
  <2>2. g \notin S
    BY <1>5, <2>1
  <2>3. file'[g] = file[g]
    BY <1>0, <1>2, <2>1, <2>2, FailingRows DEF Failed
  <2> QED BY <2>1, <2>3 DEF Needed
<1> HIDE DEF S
<1>7. \A b \in Batches :
           \/ upload'[b].status = upload[b].status
           \/ upload[b].status \in {"OPEN", "UPLOADING"} /\ upload'[b].status \in {"CANCELLED", "EXPIRED"}
  BY <1>4 DEF Expiring
<1>8. \A f \in S : file[f].status = "COMPLETE" /\ Listed(f) =>
           upload'[Shape[f].batch].status \notin {"OPEN", "UPLOADING", "READY"}
  BY <1>5
<1>9. imp' \in [Batches -> ImportStatus] /\ \A b \in Batches : imp'[b] = imp[b]
  BY <1>2 DEF FilesInv, RowsOK
<1> QED BY <1>0, <1>2, <1>4, <1>5, <1>6, <1>7, <1>8, <1>9, TakenBack

LEMMA CompleteBatchFiles ==
  ASSUME QueueInv, FilesInv, NEW b \in Batches, CompleteBatch(b), scenario' = scenario
  PROVE  FilesKept
<1> DEFINE row == [upload[b] EXCEPT !.status = "READY"]
           own == {}
<1>0. Shape' = Shape /\ Files' = Files /\ Batches' = Batches /\ upload \in [Batches -> UploadRow]
      /\ upload[b] \in UploadRow /\ Locked(own) = {} /\ imp \in [Batches -> ImportStatus]
  BY Fixed DEF FilesInv, RowsOK, Locked
<1>1. /\ upload[b].status \in {"OPEN", "UPLOADING", "READY"} /\ imp[b] \in {"UPLOADING", "ANALYZING"}
      /\ Completable(b) /\ upload' = [upload EXCEPT ![b] = row]
      /\ imp' = Preflight(imp, file, analysis, b)
      /\ UNCHANGED <<sent, jobs, slot, rec, file, receipts, inflight, withdrawn, analysis, objects, staged,
                     cipher, cleaning>>
  BY DEF CompleteBatch
<1>2. row \in UploadRow /\ row.status = "READY"
  BY <1>0 DEF UploadRow, UploadStatus
<1> HIDE DEF row, own
<1>3. /\ upload' \in [Batches -> UploadRow] /\ upload'[b].status = "READY"
      /\ \A c \in Batches : c # b => upload'[c] = upload[c]
  BY <1>0, <1>1, <1>2
<1>4. /\ imp' \in [Batches -> ImportStatus] /\ \A c \in Batches : c # b => imp'[c] = imp[c]
  BY <1>1, PreflightFacts DEF FilesInv
<1>5. RowsOK'
  <2>1. UploadRow' = UploadRow /\ FileRow' = FileRow /\ Requests' = Requests
    BY <1>0, Fixed DEF UploadRow, FileRow
  <2> QED BY <1>0, <1>1, <1>3, <1>4, <2>1 DEF FilesInv, RowsOK
<1>6. AnalysisOK'
  BY <1>0, <1>1 DEF FilesInv, AnalysisOK
<1>7. ASSUME NEW f \in Files PROVE FileFits(f)'
  <2>0. Entries(f)' = Entries(f) /\ Shape[f].batch \in Batches
    BY <1>0, ShapeFacts DEF Entries, QueueInv
  <2>1. Shape[f].batch = b => file[f].status \notin {"PENDING", "UPLOADING"}
    BY <1>1 DEF Completable, Withheld, Of
  <2>2. StatusFits(f)'
    BY <1>0, <1>1, <1>3, <2>0, <2>1, FileFacts DEF StatusFits, Listed
  <2>3. PlaintextFits(f)'
    BY <1>0, <1>1, <2>0, FileFacts DEF PlaintextFits, Listed
  <2>4. ObjectFits(f)'
    BY <1>0, <1>1, <2>0, FileFacts DEF ObjectFits, Listed
  <2> QED BY <2>2, <2>3, <2>4 DEF FileFits
<1>8. Onward /\ Careful(own) /\ RowsStay
  BY <1>1, <1>3 DEF Onward, Careful, RowsStay, own
<1>9. ASSUME NEW c \in Batches PROVE BatchFits(c)'
  BY <1>1, <1>3, <1>4, BatchStays
<1>10. ASSUME NEW e \in outbox', e \notin outbox PROVE EventFits(e)'
  <2>1. PICK f \in Of(b) : e = Event("upload.finalize", f) /\ file[f].status = "COMPLETE" /\ ~Listed(f)
    BY <1>10 DEF CompleteBatch
  <2>2. f \in Files /\ Shape[f].batch = b /\ e.work = Fin(f)
    BY <2>1, EventWork DEF Of
  <2>3. e.work.obj = f /\ e.work.topic = "upload.finalize"
    BY <2>2, FileWorks
  <2> QED BY <1>0, <1>1, <1>3, <2>1, <2>2, <2>3 DEF EventFits, Waited, Listed
<1>11. /\ \A s \in Slots : slot'[s] = slot[s] /\ (Executing(s) => slot[s].work \notin Locked(own))
       /\ rec' = rec /\ (rec # RecIdle => rec.work \notin Locked(own))
  BY <1>0, <1>1
<1>12. \A a \in analysis' : a \in analysis
  BY <1>1
<1> QED BY <1>5, <1>6, <1>7, <1>8, <1>9, <1>10, <1>11, <1>12, FilesStep

(* Steps of the queue leave the files alone.                                *)
LEMMA QueueFiles ==
  ASSUME QueueInv, FilesInv, UNCHANGED <<outbox, scenario, uploadVars>>,
         \A s \in Slots : slot'[s] = slot[s] \/ SlotSees(slot[s])',
         rec' = rec \/ RecSees'
  PROVE  FilesKept
<1> DEFINE own == {}
<1>0. Shape' = Shape /\ Files' = Files /\ Batches' = Batches /\ Locked(own) = {}
  BY Fixed DEF Locked
<1>1. UNCHANGED <<upload, imp, file, receipts, inflight, withdrawn, analysis, objects, staged, cipher, cleaning>>
  BY DEF uploadVars
<1> HIDE DEF own
<1>2. RowsOK'
  <2>1. UploadRow' = UploadRow /\ FileRow' = FileRow /\ Requests' = Requests
    BY <1>0, Fixed DEF UploadRow, FileRow
  <2> QED BY <1>0, <1>1, <2>1 DEF FilesInv, RowsOK
<1>3. Onward /\ Careful(own) /\ RowsStay /\ AnalysisOK'
  BY <1>0, <1>1 DEF Onward, Careful, RowsStay, FilesInv, AnalysisOK, own
<1>4. ASSUME NEW f \in Files PROVE FileFits(f)'
  <2>0. Entries(f)' = Entries(f)
    BY <1>0 DEF Entries
  <2>1. StatusFits(f)' /\ PlaintextFits(f)' /\ ObjectFits(f)'
    BY <1>0, <1>1, <2>0, FileFacts DEF StatusFits, PlaintextFits, ObjectFits, Listed
  <2> QED BY <2>1 DEF FileFits
<1>5. ASSUME NEW b \in Batches PROVE BatchFits(b)'
  BY <1>1, BatchStays
<1>6. /\ \A s \in Slots : \/ slot'[s] = slot[s] /\ (Executing(s) => slot[s].work \notin Locked(own))
                          \/ SlotSees(slot[s])'
      /\ \/ rec' = rec /\ (rec # RecIdle => rec.work \notin Locked(own))
         \/ RecSees'
      /\ \A a \in analysis' : a \in analysis
      /\ \A e \in outbox' : e \in outbox
  BY <1>0, <1>1
<1> QED BY <1>2, <1>3, <1>4, <1>5, <1>6, FilesStep

-----------------------------------------------------------------------------
(* Handlers at work on a file.                                              *)

LEMMA Unconcerned ==
  ASSUME NEW v, v # Idle => v.pc \in {"idle", "fetched", "work", "ack", "project", "classify"}
  PROVE  SlotSees(v)
BY DEF SlotSees, Attempting

(* The handler of s works on its file, whose lock it has.                   *)
LEMMA HandlerStep ==
  ASSUME QueueInv, FilesInv, scenario' = scenario, NEW s \in Slots, Executing(s), Moved(s), rec' = rec,
         NEW own, own = {} \/ (own = {Target(s)} /\ slot[s].work = Fin(Target(s))),
         Onward, Careful(own), RowsStay, RowsOK', AnalysisOK', \A f \in Files : FileFits(f)',
         \A b \in Batches : BatchFits(b)', \A a \in analysis' : a \in analysis \/ RowFits(a)',
         \A e \in outbox' : e \in outbox \/ EventFits(e)', SlotSees(slot[s])'
  PROVE  FilesKept
<1>1. \A w \in Locked(own) : w = slot[s].work
  BY DEF Locked
<1>2. \A t \in Slots : \/ slot'[t] = slot[t] /\ (Executing(t) => slot[t].work \notin Locked(own))
                       \/ SlotSees(slot[t])'
  <2> SUFFICES ASSUME NEW t \in Slots, t # s
      PROVE  slot'[t] = slot[t] /\ (Executing(t) => slot[t].work \notin Locked(own))
    OBVIOUS
  <2>1. Executing(t) => slot[t].work # slot[s].work
    BY DEF QueueInv, Exclusive
  <2> QED BY <1>1, <2>1 DEF Moved
<1>3. rec' = rec /\ (rec # RecIdle => rec.work \notin Locked(own))
  BY <1>1 DEF QueueInv, Exclusive
<1> QED BY <1>2, <1>3, FilesStep

(* What an attempt does before its file is stored: to the row, to the       *)
(* plaintexts of the entries, to the ciphertext.                            *)
RowKept(f) ==
  \/ file' = file
  \/ \E row \in FileRow :
       /\ file' = [file EXCEPT ![f] = row]
       /\ file[f].status \in {"COMPLETE", "ENCRYPTING"} /\ row.status = "ENCRYPTING"
       /\ row.temp = file[f].temp /\ row.object = file[f].object /\ row.received = file[f].received
       /\ row.resv \in {"NONE", "RESERVED"} /\ (row.resv = "RESERVED" => Shape[f].kind = "ZIP")

StagedKept(f) ==
  \/ staged' = staged
  \/ file[f].object = NoFile /\ staged' = staged \ Entries(f)
  \/ file[f].object = NoFile /\ staged' = staged \cup Entries(f)

CipherKept(f) ==
  \/ cipher' = cipher
  \/ cipher' = cipher \cup {f}
  \/ file[f].object = NoFile /\ cipher' = cipher \ {f}

Attempted(f) ==
  /\ \A g \in Files : FileFits(g)'
  /\ Onward /\ Careful({f}) /\ RowsStay
  /\ file' \in [Files -> FileRow] /\ staged' \subseteq Files /\ cipher' \subseteq Files
  /\ \A g \in Files : /\ file'[g].object = file[g].object /\ file'[g].received = file[g].received
                      /\ file'[g].temp = file[g].temp
                      /\ g # f => file'[g] = file[g]

LEMMA AttemptFits ==
  ASSUME QueueInv, FilesInv, scenario' = scenario, NEW f \in Files, ~Listed(f), upload[Shape[f].batch].status = "READY",
         RowKept(f), StagedKept(f), CipherKept(f), UNCHANGED <<withdrawn, analysis, objects, cleaning>>,
         \A b \in Batches : upload'[b].status = upload[b].status
  PROVE  Attempted(f)
<1>0. Shape' = Shape /\ Files' = Files /\ Batches' = Batches /\ (\A g \in Files : Shape[g].batch \in Batches)
      /\ file \in [Files -> FileRow] /\ NoFile \notin Files
  BY Fixed, ShapeFacts DEF QueueInv, FilesInv, RowsOK
<1>1. /\ file' \in [Files -> FileRow]
      /\ \A g \in Files : g # f => file'[g] = file[g]
      /\ \/ file'[f] = file[f]
         \/ /\ file[f].status \in {"COMPLETE", "ENCRYPTING"} /\ file'[f].status = "ENCRYPTING"
            /\ file'[f].temp = file[f].temp /\ file'[f].object = file[f].object
            /\ file'[f].received = file[f].received
            /\ file'[f].resv \in {"NONE", "RESERVED"} /\ (file'[f].resv = "RESERVED" => Shape[f].kind = "ZIP")
  <2>1. CASE file' = file
    BY <1>0, <2>1
  <2>2. ASSUME NEW row \in FileRow, file' = [file EXCEPT ![f] = row] PROVE file'[f] = row
    BY <1>0, <2>2
  <2> QED BY <1>0, <2>1, <2>2 DEF RowKept
<1>2. \A g \in Files : /\ file'[g].object = file[g].object /\ file'[g].received = file[g].received
                       /\ file'[g].temp = file[g].temp
  BY <1>1
<1>3. \A g \in Files : file[g].status \in Needed <=> file'[g].status \in Needed
  BY <1>1 DEF Needed
<1>4. \A g \in Entries(f) : file[f].object = NoFile => g \in Files /\ file[g].status = "ABSENT" /\ Shape[g].parent = f
  <2>1. file[f].object = NoFile => file[f].status # "STORED"
    BY FileFacts DEF StatusFits
  <2> QED BY <2>1, EntriesAbsent DEF Entries
<1>5. \A g \in staged : file[g].status \in Needed => g \in staged'
  BY <1>4 DEF StagedKept, Needed
<1>6. \A g \in objects : g \in cipher => g \in cipher'
  <2>1. f \in objects => file[f].object # NoFile
    BY <1>0, FileFacts DEF ObjectFits
  <2> QED BY <2>1 DEF CipherKept
<1>7. ASSUME NEW g \in Files PROVE FileFits(g)'
  <2>1. Entries(g)' = Entries(g) /\ Entries(g) \subseteq Files
    BY <1>0 DEF Entries
  <2>2. StatusFits(g)'
    <3>1. StatusFits(g)
      BY FileFacts
    <3>2. Shape[g].parent \in Files /\ file[Shape[g].parent].status = "STORED" => file'[Shape[g].parent].status = "STORED"
      BY <1>1
    <3>3. Shape[g].parent \in Files \cup {NoFile}
      BY ShapeFacts DEF QueueInv
    <3>4. CASE file'[g] = file[g]
      BY <1>0, <3>1, <3>2, <3>3, <3>4 DEF StatusFits, Listed
    <3>5. CASE g = f /\ file[f].status \in {"COMPLETE", "ENCRYPTING"} /\ file'[f].status = "ENCRYPTING"
      BY <1>0, <1>1, <3>1, <3>2, <3>3, <3>5 DEF StatusFits, Listed
    <3> QED BY <1>1, <3>4, <3>5
  <2>4. PlaintextFits(g)'
    <3>1. file[g].status \in {"FAILED", "STORED"} => file'[g].status = file[g].status
      BY <1>1
    <3> QED BY <1>0, <1>2, <1>3, <1>5, <2>1, <3>1, FileFacts DEF PlaintextFits, Listed
  <2>5. ObjectFits(g)'
    <3>1. Listed(g) => file'[g].status = file[g].status
      BY <1>1
    <3> QED BY <1>0, <1>2, <1>6, <3>1, FileFacts DEF ObjectFits, Listed
  <2> QED BY <2>2, <2>4, <2>5 DEF FileFits
<1>8. Onward /\ RowsStay
  BY <1>1 DEF Onward, RowsStay, Waited
<1>9. Careful({f})
  <2>1. ASSUME NEW g \in Files \ {f}, Entries(g) \subseteq staged PROVE Entries(g) \subseteq staged'
    <3>1. Entries(g) \cap Entries(f) = {}
      BY DEF Entries
    <3> QED BY <2>1, <3>1 DEF StagedKept
  <2> QED BY <1>1, <2>1 DEF Careful, CipherKept
<1>10. staged' \subseteq Files /\ cipher' \subseteq Files
  BY DEF FilesInv, RowsOK, StagedKept, CipherKept, Entries
<1> QED BY <1>1, <1>2, <1>7, <1>8, <1>9, <1>10 DEF Attempted

LEMMA AttemptStep ==
  ASSUME QueueInv, FilesInv, scenario' = scenario, NEW s \in Slots, Executing(s), Moved(s), Target(s) \in Files,
         slot[s].work = Fin(Target(s)), UNCHANGED <<outbox, rec, imp, inflight, withdrawn, analysis, objects, cleaning>>,
         RowKept(Target(s)), StagedKept(Target(s)), CipherKept(Target(s)),
         upload' \in [Batches -> UploadRow], \A b \in Batches : upload'[b].status = upload[b].status,
         SlotSees(slot[s])'
  PROVE  FilesKept
<1> DEFINE f == Target(s)
<1>1. ~Listed(f) /\ upload[Shape[f].batch].status = "READY"
  BY ExecutingFacts, FileWorks, JobSees
<1>2. Attempted(f)
  BY <1>1, AttemptFits
<1>3. RowsOK'
  BY <1>2, Fixed DEF FilesInv, RowsOK, UploadRow, FileRow, Attempted
<1>4. AnalysisOK'
  BY Fixed DEF FilesInv, AnalysisOK
<1>5. \A a \in analysis : Listed(a.object) => file'[a.object].status = file[a.object].status
  BY <1>1, <1>2, ListedRow DEF Attempted
<1>6. ASSUME NEW b \in Batches PROVE BatchFits(b)'
  BY <1>5, BatchStays
<1> HIDE DEF f
<1> QED BY <1>2, <1>3, <1>4, <1>6, HandlerStep DEF Attempted, f

LEMMA ClaimFiles ==
  ASSUME QueueInv, FilesInv, NEW s \in Slots, Claim(s), scenario' = scenario
  PROVE  FilesKept
<1> DEFINE f == Target(s)
           claimable == file[f].status \in {"COMPLETE", "ENCRYPTING"} /\ Archivable(Shape[f].batch)
           row == [file[f] EXCEPT !.status = "ENCRYPTING"]
<1>1. /\ Executing(s) /\ Moved(s) /\ f \in Files /\ slot[s].work = Fin(f)
      /\ slot'[s].pc \in {"reserve", "ack", "project"}
      /\ slot'[s].work = slot[s].work /\ slot[s].work.obj = f
  BY ClaimMoves DEF Moved, Target
<1>2. /\ file[f].object = NoFile /\ file' = IF claimable THEN [file EXCEPT ![f] = row] ELSE file
      /\ UNCHANGED <<outbox, rec, imp, inflight, withdrawn, analysis, objects, cleaning, staged, cipher, upload>>
  BY DEF Claim
<1>3. file[f] \in FileRow
  BY <1>1, FileFacts
<1>4. /\ row \in FileRow /\ row.status = "ENCRYPTING" /\ row.temp = file[f].temp /\ row.object = file[f].object
      /\ row.received = file[f].received /\ row.resv = file[f].resv
  BY <1>3 DEF FileRow, FileStatus
<1>5. file[f].status \in {"COMPLETE", "ENCRYPTING"} => file[f].resv \in {"NONE", "RESERVED"}
      /\ (file[f].resv = "RESERVED" => Shape[f].kind = "ZIP")
  BY <1>1, <1>3, FileFacts DEF StatusFits, FileRow
<1> HIDE DEF row
<1>6. RowKept(f)
  BY <1>2, <1>4, <1>5 DEF RowKept
<1>7. file'[f].object = NoFile
  BY <1>1, <1>2, <1>4 DEF FilesInv, RowsOK
<1>8. SlotSees(slot[s])'
  BY <1>1, <1>7 DEF SlotSees, Attempting
<1>9. upload' \in [Batches -> UploadRow]
  BY <1>2 DEF FilesInv, RowsOK
<1> QED BY <1>1, <1>2, <1>6, <1>8, <1>9, AttemptStep DEF StagedKept, CipherKept

(* What a reservation takes.                                                *)
Took(f) ==
  LET b == Shape[f].batch
  IN  /\ Shape[f].kind = "ZIP" /\ file[f].status = "ENCRYPTING" /\ file[f].resv = "NONE"
      /\ file' = [file EXCEPT ![f].resv = "RESERVED"]
      /\ upload[b].expanded + EntryBytes({f}) <= MaxExpanded
      /\ upload[b].count + EntryCount({f}) <= MaxFiles
      /\ upload' = [upload EXCEPT ![b].expanded = @ + EntryBytes({f}), ![b].count = @ + EntryCount({f})]

LEMMA ReserveTakes ==
  ASSUME NEW s \in Slots, Reserve(s)
  PROVE  \/ UNCHANGED <<file, upload>>
         \/ Took(Target(s))
BY DEF Reserve, InBudget, ReserveAnew, Took

Charged(row, x, y) == [row EXCEPT !.expanded = @ + x, !.count = @ + y]

LEMMA ChargedRow ==
  ASSUME NEW row \in UploadRow, NEW x \in Nat, NEW y \in Nat
  PROVE  LET r == Charged(row, x, y)
         IN  /\ r \in UploadRow
             /\ r.status = row.status /\ r.declared = row.declared /\ r.received = row.received
             /\ r.due = row.due /\ r.expanded = row.expanded + x /\ r.count = row.count + y
<1> DEFINE e == row.expanded + x
           c == row.count + y
           r == [row EXCEPT !.expanded = e, !.count = c]
<1>1. e \in Int /\ c \in Int
  BY DEF UploadRow
<1>2. Charged(row, x, y) = r
  BY DEF Charged
<1> HIDE DEF e, c
<1>3. /\ r \in UploadRow /\ r.status = row.status /\ r.declared = row.declared /\ r.received = row.received
      /\ r.due = row.due /\ r.expanded = e /\ r.count = c
  BY <1>1 DEF UploadRow
<1> QED BY <1>2, <1>3 DEF e, c

LEMMA TookRow ==
  ASSUME QueueInv, FilesInv, NEW f \in Files, Took(f)
  PROVE  LET b == Shape[f].batch
         IN  /\ upload' \in [Batches -> UploadRow] /\ file' \in [Files -> FileRow]
             /\ upload'[b].expanded = upload[b].expanded + EntryBytes({f})
             /\ upload'[b].count = upload[b].count + EntryCount({f})
             /\ upload'[b].declared = upload[b].declared /\ upload'[b].received = upload[b].received
             /\ upload'[b].status = upload[b].status
             /\ \A c \in Batches : c # b => upload'[c] = upload[c]
             /\ RowKept(f) /\ file'[f].resv = "RESERVED" /\ file'[f].received = file[f].received
             /\ file'[f].status = file[f].status
             /\ \A g \in Files : g # f => file'[g] = file[g]
<1> DEFINE b == Shape[f].batch
           x == EntryBytes({f})
           y == EntryCount({f})
           r == Charged(upload[b], x, y)
           row == [file[f] EXCEPT !.resv = "RESERVED"]
<1>1. b \in Batches /\ x \in Nat /\ y \in Nat /\ upload \in [Batches -> UploadRow] /\ file \in [Files -> FileRow]
  BY ShapeFacts, Amounts DEF QueueInv, FilesInv, RowsOK
<1>2. upload' = [upload EXCEPT ![b] = r] /\ file' = [file EXCEPT ![f] = row]
      /\ Shape[f].kind = "ZIP" /\ file[f].status = "ENCRYPTING"
  BY DEF Took, Charged
<1>3. upload[b] \in UploadRow /\ file[f] \in FileRow
  BY <1>1
<1> HIDE DEF b, x, y
<1>4. /\ r \in UploadRow /\ r.expanded = upload[b].expanded + x /\ r.count = upload[b].count + y
      /\ r.declared = upload[b].declared /\ r.received = upload[b].received /\ r.status = upload[b].status
  BY <1>1, <1>3, ChargedRow
<1>5. /\ row \in FileRow /\ row.resv = "RESERVED" /\ row.status = file[f].status /\ row.received = file[f].received
      /\ row.temp = file[f].temp /\ row.object = file[f].object
  BY <1>3 DEF FileRow
<1> HIDE DEF r, row
<1>6. RowKept(f)
  BY <1>2, <1>5 DEF RowKept
<1>7. /\ upload' \in [Batches -> UploadRow] /\ file' \in [Files -> FileRow]
      /\ upload'[b] = r /\ file'[f] = row
      /\ \A c \in Batches : c # b => upload'[c] = upload[c]
      /\ \A g \in Files : g # f => file'[g] = file[g]
  BY <1>1, <1>2, <1>4, <1>5
<1> QED BY <1>4, <1>5, <1>6, <1>7 DEF b, x, y

LEMMA ReserveFiles ==
  ASSUME QueueInv, FilesInv, NEW s \in Slots, Reserve(s), scenario' = scenario
  PROVE  FilesKept
<1> DEFINE f == Target(s)
<1>1. /\ Executing(s) /\ Moved(s) /\ f \in Files /\ slot[s].work = Fin(f)
      /\ slot'[s].pc \in {"undo", "write"} /\ slot'[s].work = slot[s].work /\ slot[s].work.obj = f
  BY ReserveMoves DEF Moved, Target
<1>2. slot[s].pc = "reserve"
      /\ UNCHANGED <<outbox, rec, imp, inflight, withdrawn, analysis, objects, cleaning, staged, cipher>>
  BY DEF Reserve, Handles
<1>3. file[f].object = NoFile
  BY <1>1, <1>2, ExecutingFacts DEF FilesInv, SlotSees, Attempting
<1>4. /\ upload' \in [Batches -> UploadRow] /\ RowKept(f)
      /\ \A b \in Batches : upload'[b].status = upload[b].status
  <2>1. CASE UNCHANGED <<file, upload>>
    BY <2>1 DEF FilesInv, RowsOK, RowKept
  <2>2. CASE Took(f)
    BY <1>1, <2>2, TookRow
  <2> QED BY <2>1, <2>2, ReserveTakes
<1>5. file'[f].object = NoFile
  BY <1>1, <1>3, <1>4 DEF RowKept, FilesInv, RowsOK
<1>6. SlotSees(slot[s])'
  BY <1>1, <1>5 DEF SlotSees, Attempting
<1> QED BY <1>1, <1>2, <1>4, <1>6, AttemptStep DEF StagedKept, CipherKept

LEMMA WriteFiles ==
  ASSUME QueueInv, FilesInv, NEW s \in Slots, WriteCiphertext(s), scenario' = scenario
  PROVE  FilesKept
<1> DEFINE f == Target(s)
<1>1. /\ Executing(s) /\ Moved(s) /\ f \in Files /\ slot[s].work = Fin(f) /\ slot[s].pc = "write"
      /\ slot'[s].work = slot[s].work /\ slot[s].work.obj = f
      /\ f \in staged => slot'[s].pc = "commit"
      /\ f \notin staged => slot'[s].pc = "undo"
  BY WriteMoves DEF Moved, Target
<1>2. /\ UNCHANGED <<outbox, rec, imp, inflight, withdrawn, analysis, objects, cleaning, file, upload>>
      /\ f \in staged => staged' = staged \cup Entries(f) /\ cipher' = cipher \cup {f}
      /\ f \notin staged => UNCHANGED <<staged, cipher>>
  BY DEF WriteCiphertext
<1>3. file[f].object = NoFile
  BY <1>1, ExecutingFacts DEF FilesInv, SlotSees, Attempting
<1>4. RowKept(f) /\ StagedKept(f) /\ CipherKept(f) /\ upload' \in [Batches -> UploadRow]
  BY <1>2, <1>3 DEF RowKept, StagedKept, CipherKept, FilesInv, RowsOK
<1>5. \A g \in Files : Entries(g)' = Entries(g)
  BY Fixed DEF Entries
<1>6. SlotSees(slot[s])'
  <2>1. CASE f \in staged
    BY <1>1, <1>2, <1>3, <1>5, <2>1 DEF SlotSees, Attempting
  <2>2. CASE f \notin staged
    BY <1>1, <1>2, <1>3, <2>2 DEF SlotSees, Attempting
  <2> QED BY <2>1, <2>2
<1> QED BY <1>1, <1>2, <1>4, <1>6, AttemptStep

(* What the catch block gives back.                                         *)
Gave(f) ==
  /\ file[f].resv = "RESERVED"
  /\ upload' = Released(upload, {f})
  /\ file' = [file EXCEPT ![f].resv = "NONE"]

LEMMA GaveRow ==
  ASSUME QueueInv, FilesInv, NEW f \in Files, Gave(f)
  PROVE  /\ upload' \in [Batches -> UploadRow] /\ file' \in [Files -> FileRow] /\ RowKept(f)
         /\ file'[f].resv = "NONE" /\ file'[f].received = file[f].received /\ file'[f].status = file[f].status
         /\ \A b \in Batches : upload'[b].status = upload[b].status
         /\ \A g \in Files : g # f => file'[g] = file[g]
<1> DEFINE row == [file[f] EXCEPT !.resv = "NONE"]
<1>1. file \in [Files -> FileRow] /\ file[f] \in FileRow /\ upload \in [Batches -> UploadRow] /\ {f} \in SUBSET Files
  BY DEF FilesInv, RowsOK
<1>2. file[f].status = "ENCRYPTING"
  BY FileFacts DEF StatusFits, Gave
<1>3. /\ row \in FileRow /\ row.resv = "NONE" /\ row.status = file[f].status /\ row.received = file[f].received
      /\ row.temp = file[f].temp /\ row.object = file[f].object
  BY <1>1 DEF FileRow
<1>4. file' = [file EXCEPT ![f] = row] /\ upload' = Released(upload, {f})
  BY DEF Gave
<1> HIDE DEF row
<1>5. RowKept(f)
  BY <1>2, <1>3, <1>4 DEF RowKept
<1>6. upload' \in [Batches -> UploadRow] /\ \A b \in Batches : upload'[b].status = upload[b].status
  BY <1>1, <1>4, ReleasedFacts DEF QueueInv
<1>7. file' \in [Files -> FileRow] /\ file'[f] = row /\ \A g \in Files : g # f => file'[g] = file[g]
  BY <1>1, <1>3, <1>4
<1> QED BY <1>3, <1>5, <1>6, <1>7

LEMMA UndoGives ==
  ASSUME NEW s \in Slots, Undo(s)
  PROVE  \/ UNCHANGED <<file, upload>>
         \/ Gave(Target(s))
BY DEF Undo, Gave

LEMMA UndoFiles ==
  ASSUME QueueInv, FilesInv, NEW s \in Slots, Undo(s), scenario' = scenario
  PROVE  FilesKept
<1> DEFINE f == Target(s)
<1>1. /\ Executing(s) /\ Moved(s) /\ f \in Files /\ slot[s].work = Fin(f) /\ slot[s].pc = "undo"
      /\ slot'[s].pc \in {"ack", "project"} /\ slot[s].work.obj = f /\ slot[s] # Idle
  BY UndoMoves, ExecutingFacts DEF Moved, Target
<1>2. /\ UNCHANGED <<outbox, rec, imp, inflight, withdrawn, analysis, objects, cleaning>>
      /\ staged' = IF ~slot[s].run.written THEN staged \ Entries(f) ELSE staged
      /\ cipher' = IF ~slot[s].run.written THEN cipher \ {f} ELSE cipher
  BY DEF Undo, Discards
<1>3. ~slot[s].run.written => file[f].object = NoFile
  BY <1>1 DEF FilesInv, SlotSees
<1>4. StagedKept(f) /\ CipherKept(f)
  BY <1>2, <1>3 DEF StagedKept, CipherKept
<1>5. /\ upload' \in [Batches -> UploadRow] /\ RowKept(f)
      /\ \A b \in Batches : upload'[b].status = upload[b].status
  <2>1. CASE UNCHANGED <<file, upload>>
    BY <2>1 DEF FilesInv, RowsOK, RowKept
  <2>2. CASE Gave(f)
    BY <1>1, <2>2, GaveRow
  <2> QED BY <2>1, <2>2, UndoGives
<1>6. SlotSees(slot[s])'
  BY <1>1, Unconcerned, Fixed DEF SlotSees, Attempting
<1> QED BY <1>1, <1>2, <1>4, <1>5, <1>6, AttemptStep

(* What the transaction that stores a file does.                            *)
StoredNow(f) ==
  LET o == StoredAs(f)
  IN  /\ o \in Files /\ (o = f \/ o \in objects) /\ objects' = objects \cup {o}
      /\ file' \in [Files -> FileRow]
      /\ file'[f].status = "STORED" /\ file'[f].object = o /\ file'[f].temp = file[f].temp
      /\ file'[f].received = file[f].received
      /\ file'[f].resv = IF Shape[f].kind = "ZIP" THEN "COMMITTED" ELSE file[f].resv
      /\ \A g \in Entries(f) : /\ g \in Files /\ g # f /\ file[g].status = "ABSENT" /\ ~Listed(g)
                               /\ file[g].object = NoFile /\ Shape[g].batch = Shape[f].batch
                               /\ file'[g].status = "COMPLETE" /\ file'[g].received = Shape[g].size
                               /\ file'[g].temp = TRUE /\ file'[g].resv = "NONE" /\ file'[g].object = NoFile
      /\ \A g \in Files : g # f /\ g \notin Entries(f) => file'[g] = file[g]

LEMMA StoredRows ==
  ASSUME QueueInv, FilesInv, NEW f \in Files, file[f].status = "ENCRYPTING", Stored(f)
  PROVE  StoredNow(f)
<1> DEFINE o == StoredAs(f)
<1>0. /\ \A g \in Entries(f) : /\ g \in Files /\ g # f /\ file[g].status = "ABSENT" /\ ~Listed(g)
                               /\ file[g].object = NoFile /\ Shape[g].batch = Shape[f].batch
      /\ file \in [Files -> FileRow] /\ file[f] \in FileRow /\ objects \subseteq Files
  <2>1. \A g \in Entries(f) : g \in Files /\ g # f /\ file[g].status = "ABSENT" /\ Shape[g].batch = Shape[f].batch /\ ~Listed(g)
    BY EntriesAbsent
  <2>2. \A g \in Entries(f) : file[g].object = NoFile
    BY <2>1, FileFacts DEF StatusFits
  <2> QED BY <2>1, <2>2 DEF FilesInv, RowsOK
<1>1. o \in Files /\ (o = f \/ o \in objects)
  BY <1>0 DEF StoredAs, Same
<1>2. objects' = objects \cup {o}
  BY DEF Stored
<1> DEFINE row == [file[f] EXCEPT !.status = "STORED", !.object = o,
                                  !.resv = IF Shape[f].kind = "ZIP" THEN "COMMITTED" ELSE @]
<1>3. file' = [g \in Files |-> CASE g = f -> row
                                [] g \in Entries(f) -> ChildRow(g)
                                [] OTHER -> file[g]]
  BY DEF Stored, StoredRow
<1> HIDE DEF o
<1>4. /\ row \in FileRow /\ row.status = "STORED" /\ row.object = o /\ row.temp = file[f].temp
      /\ row.received = file[f].received
      /\ row.resv = IF Shape[f].kind = "ZIP" THEN "COMMITTED" ELSE file[f].resv
  BY <1>0, <1>1 DEF FileRow, FileStatus
<1> HIDE DEF row
<1>5. ASSUME NEW g \in Entries(f)
      PROVE  /\ ChildRow(g) \in FileRow /\ ChildRow(g).status = "COMPLETE" /\ ChildRow(g).received = Shape[g].size
             /\ ChildRow(g).temp = TRUE /\ ChildRow(g).resv = "NONE" /\ ChildRow(g).object = NoFile
  <2>1. Shape[g].size \in Nat
    BY <1>0, ShapeFacts DEF QueueInv
  <2> QED BY <2>1 DEF ChildRow, FileRow, FileStatus
<1>6. /\ file'[f] = row
      /\ \A g \in Entries(f) : file'[g] = ChildRow(g)
      /\ \A g \in Files : g # f /\ g \notin Entries(f) => file'[g] = file[g]
  BY <1>0, <1>3
<1>7. file' \in [Files -> FileRow]
  BY <1>0, <1>3, <1>4, <1>5
<1>8. /\ file'[f].status = "STORED" /\ file'[f].object = o /\ file'[f].temp = file[f].temp
      /\ file'[f].received = file[f].received
      /\ file'[f].resv = IF Shape[f].kind = "ZIP" THEN "COMMITTED" ELSE file[f].resv
  BY <1>4, <1>6
<1>9. \A g \in Entries(f) :
        /\ file'[g].status = "COMPLETE" /\ file'[g].received = Shape[g].size
        /\ file'[g].temp = TRUE /\ file'[g].resv = "NONE" /\ file'[g].object = NoFile
  BY <1>5, <1>6
<1>10. StoredAs(f) = o
  BY DEF o
<1> QED BY <1>0, <1>1, <1>2, <1>6, <1>7, <1>8, <1>9, <1>10 DEF StoredNow

LEMMA StoredFits ==
  ASSUME QueueInv, FilesInv, scenario' = scenario, NEW f \in Files, file[f].status = "ENCRYPTING",
         StoredNow(f), f \in cipher, Entries(f) \subseteq staged,
         UNCHANGED <<upload, withdrawn, staged, cipher, cleaning>>,
         NEW g \in Files
  PROVE  StatusFits(g)' /\ PlaintextFits(g)' /\ (f \in objects' => f \in cipher')
<1>0. Shape' = Shape /\ Files' = Files /\ NoFile \notin Files
  BY Fixed, ShapeFacts DEF QueueInv
<1>1. StatusFits(g) /\ StatusFits(f) /\ PlaintextFits(g) /\ PlaintextFits(f) /\ file[f] \in FileRow
  BY FileFacts
<1>2. upload[Shape[f].batch].status = "READY" /\ f \notin withdrawn /\ f \notin cleaning /\ ~Listed(f)
      /\ file[f].resv # "COMMITTED" /\ (file[f].resv # "NONE" => Shape[f].kind = "ZIP") /\ file[f].temp
      /\ (Shape[f].parent # NoFile => file[Shape[f].parent].status = "STORED")
  BY <1>1 DEF StatusFits, PlaintextFits, Needed
<1>3. Entries(g)' = Entries(g) /\ Entries(g) \subseteq Files
  BY <1>0 DEF Entries
<1>4. \A h \in Files : file[h].status = "STORED" => file'[h].status = "STORED"
  BY DEF StoredNow
<1>5. StatusFits(g)'
  <2>1. CASE g = f
    <3>1. file'[f].resv \in {"NONE", "COMMITTED"} /\ (file'[f].resv = "COMMITTED" => Shape[f].kind = "ZIP")
      BY <1>1, <1>2 DEF StoredNow, FileRow, StatusFits
    <3>2. Shape[f].parent # NoFile => file'[Shape[f].parent].status = "STORED"
      BY <1>2, <1>4, ShapeFacts DEF QueueInv
    <3> QED BY <1>0, <1>2, <2>1, <3>1, <3>2 DEF StatusFits, Listed, StoredNow
  <2>2. CASE g \in Entries(f)
    <3>1. Shape[g].parent = f
      BY <2>2 DEF Entries
    <3>2. g \notin withdrawn
      BY <1>1, <2>2 DEF StatusFits, StoredNow
    <3> QED BY <1>0, <1>2, <2>2, <3>1, <3>2 DEF StatusFits, Listed, StoredNow
  <2>3. CASE g # f /\ g \notin Entries(f)
    <3>1. Shape[g].parent \in Files \cup {NoFile} /\ file'[g] = file[g]
      BY <2>3, ShapeFacts DEF QueueInv, StoredNow
    <3> QED BY <1>0, <1>1, <1>4, <3>1 DEF StatusFits, Listed
  <2> QED BY <2>1, <2>2, <2>3
<1>6. PlaintextFits(g)'
  <2>1. file'[g].status \in Needed => file'[g].temp /\ (Listed(g) \/ g \in staged)
    BY <1>1 DEF PlaintextFits, StoredNow, Needed
  <2>2. g \in cleaning => g # f /\ g \notin Entries(f)
    BY <1>1, <1>2 DEF PlaintextFits, StoredNow
  <2>3. ASSUME g \in cleaning PROVE /\ file'[g].status \in {"FAILED", "STORED"}
                                    /\ \A h \in Entries(g) : file'[h].status \notin Needed
    <3>1. file'[g].status \in {"FAILED", "STORED"}
      BY <1>1, <2>2, <2>3 DEF PlaintextFits, StoredNow
    <3>2. ASSUME NEW h \in Entries(g) PROVE file'[h].status \notin Needed
      <4>1. h \notin Entries(f) /\ h \in Files
        BY <2>2, <2>3 DEF Entries
      <4>2. h = f => file'[h].status = "STORED"
        BY DEF StoredNow
      <4> QED BY <1>1, <2>3, <4>1, <4>2 DEF PlaintextFits, StoredNow, Needed
    <3> QED BY <3>1, <3>2
  <2> QED BY <1>0, <1>3, <2>1, <2>3 DEF PlaintextFits, Listed
<1> QED BY <1>5, <1>6

LEMMA StoredObjects ==
  ASSUME QueueInv, FilesInv, scenario' = scenario, NEW f \in Files, file[f].status = "ENCRYPTING",
         StoredNow(f), f \in cipher, UNCHANGED <<upload, cipher, analysis>>,
         NEW g \in Files
  PROVE  ObjectFits(g)'
<1>0. Shape' = Shape /\ NoFile \notin Files
  BY Fixed, ShapeFacts DEF QueueInv
<1>1. ObjectFits(g) /\ ObjectFits(StoredAs(f)) /\ StatusFits(g) /\ StatusFits(f)
  BY FileFacts DEF StoredNow
<1>2. file[f].object = NoFile /\ f \notin objects /\ ~Listed(f)
  BY <1>0, <1>1, FileFacts DEF StatusFits, ObjectFits
<1>3. CASE g = f
  BY <1>0, <1>2, <1>3 DEF ObjectFits, Listed, StoredNow
<1>4. CASE g \in Entries(f)
  <2>1. g \notin objects' /\ ~Listed(g)
    BY <1>0, <1>1, <1>4 DEF ObjectFits, StoredNow
  <2> QED BY <1>0, <1>4, <2>1 DEF ObjectFits, Listed, StoredNow
<1>5. CASE g # f /\ g \notin Entries(f)
  <2>1. file'[g] = file[g] /\ objects \subseteq objects' /\ (g \in objects' => g \in objects)
    BY <1>5 DEF StoredNow
  <2> QED BY <1>0, <1>1, <2>1 DEF ObjectFits, Listed
<1> QED BY <1>3, <1>4, <1>5

LEMMA StoredStep ==
  ASSUME QueueInv, FilesInv, scenario' = scenario, NEW s \in Slots, Executing(s), Moved(s), Target(s) \in Files,
         slot[s].work = Fin(Target(s)), slot[s].pc = "commit", slot[s].run.written,
         slot'[s].pc \in {"tidy", "undo"}, slot'[s].pc = "undo" => slot'[s].run = slot[s].run,
         UNCHANGED <<rec, upload, imp, inflight, withdrawn, analysis, staged, cipher, cleaning>>,
         file[Target(s)].status = "ENCRYPTING", Stored(Target(s))
  PROVE  FilesKept
<1> DEFINE f == Target(s)
<1>0. Shape' = Shape /\ Files' = Files /\ Batches' = Batches /\ Shape[f].batch \in Batches
  BY Fixed, ShapeFacts DEF QueueInv
<1>1. StoredNow(f)
  BY StoredRows
<1>2. f \in cipher /\ Entries(f) \subseteq staged
  BY ExecutingFacts DEF FilesInv, SlotSees, Target
<1>3. ~Listed(f) /\ upload[Shape[f].batch].status = "READY"
  BY ExecutingFacts, FileWorks, JobSees
<1>t. file'[f].status = "STORED"
  BY <1>1 DEF StoredNow
<1>4. SlotSees(slot[s])'
  <2>1. slot'[s].run.written \/ slot'[s].pc = "tidy"
    BY FileWorks DEF Moved
  <2>2. slot'[s].work.obj = f
    BY FileWorks DEF Moved
  <2> HIDE DEF f
  <2> QED BY <1>t, <2>1, <2>2 DEF SlotSees, Attempting
<1> HIDE DEF f
<1>5. \A g \in Files : FileFits(g)'
  <2>1. f \in Files /\ file[f].status = "ENCRYPTING"
    BY DEF f
  <2> QED BY <1>1, <1>2, <2>1, StoredFits, StoredObjects DEF FileFits
<1>6. RowsOK'
  <2>1. objects' \subseteq Files
    BY <1>1 DEF StoredNow, FilesInv, RowsOK
  <2>2. file' \in [Files -> FileRow]
    BY <1>1 DEF StoredNow
  <2> QED BY <1>0, <2>1, <2>2, Fixed DEF FilesInv, RowsOK, UploadRow, FileRow
<1>7. AnalysisOK' /\ RowsStay
  BY <1>0 DEF FilesInv, AnalysisOK, RowsStay
<1>8. Onward
  BY <1>1 DEF Onward, Waited, StoredNow, f
<1>9. Careful({f})
  <2>1. \A g \in Files \ {f} : g \in Entries(f) => file'[g].object = file[g].object /\ file'[g].status = "COMPLETE"
    BY <1>1 DEF StoredNow
  <2>2. \A g \in Files \ {f} : g \notin Entries(f) => file'[g] = file[g]
    BY <1>1 DEF StoredNow
  <2> QED BY <2>1, <2>2 DEF Careful
<1>10. ASSUME NEW b \in Batches PROVE BatchFits(b)'
  <2>1. \A a \in analysis : Listed(a.object) => file'[a.object].status = file[a.object].status
    BY <1>1, <1>3, ListedRow DEF StoredNow
  <2> QED BY <2>1, BatchStays
<1>11. ASSUME NEW e \in outbox', e \notin outbox PROVE EventFits(e)'
  <2>0. outbox' = outbox \cup {Event("upload.finalize", g) : g \in Entries(f)} \cup {Event("import.analyze", f)}
    BY DEF Stored, f
  <2>1. CASE e = Event("import.analyze", f)
    <3>1. e.work.topic = "import.analyze" /\ e.work.obj = f
      BY <2>1 DEF Event, Work
    <3> QED BY <1>t, <3>1 DEF EventFits, f
  <2>2. ASSUME NEW g \in Entries(f), e = Event("upload.finalize", g) PROVE EventFits(e)'
    <3>1. e.work.topic = "upload.finalize" /\ e.work.obj = g
      BY <2>2 DEF Event, Work
    <3>2. file'[g].status = "COMPLETE" /\ ~Listed(g) /\ Shape[g].batch = Shape[f].batch
      BY <1>1 DEF StoredNow
    <3> QED BY <1>0, <1>3, <3>1, <3>2 DEF EventFits, Waited, Listed
  <2> QED BY <1>11, <2>0, <2>1, <2>2
<1>12. {f} = {} \/ ({f} = {Target(s)} /\ slot[s].work = Fin(Target(s)))
  BY DEF f
<1>13. (\A a \in analysis' : a \in analysis \/ RowFits(a)') /\ (\A e \in outbox' : e \in outbox \/ EventFits(e)')
  BY <1>11
<1> QED BY <1>4, <1>5, <1>6, <1>7, <1>8, <1>9, <1>10, <1>12, <1>13, HandlerStep

LEMMA CommitFiles ==
  ASSUME QueueInv, FilesInv, NEW s \in Slots, CommitStored(s) \/ CommitUnanswered(s), scenario' = scenario
  PROVE  FilesKept
<1> DEFINE f == Target(s)
<1>1. /\ Executing(s) /\ Moved(s) /\ f \in Files /\ slot[s].work = Fin(f)
      /\ slot[s].pc = "commit" /\ slot[s].run.written
      /\ slot'[s].pc = "undo" => slot'[s].run = slot[s].run
      /\ UNCHANGED <<rec, upload, imp, inflight, withdrawn, analysis, staged, cipher, cleaning>>
      /\ \/ Storable(f) /\ Stored(f) /\ slot'[s].pc \in {"tidy", "undo"}
         \/ UNCHANGED <<objects, file, outbox>> /\ slot'[s].pc = "undo"
  BY CommitMoves
<1>2. CASE Storable(f) /\ Stored(f) /\ slot'[s].pc \in {"tidy", "undo"}
  <2>1. file[f].status = "ENCRYPTING"
    BY <1>2 DEF Storable
  <2> QED BY <1>1, <1>2, <2>1, StoredStep
<1>3. CASE UNCHANGED <<objects, file, outbox>> /\ slot'[s].pc = "undo"
  <2>1. SlotSees(slot[s])'
    BY <1>1, <1>3, Fixed DEF SlotSees, Attempting
  <2>2. upload' \in [Batches -> UploadRow] /\ RowKept(f) /\ StagedKept(f) /\ CipherKept(f)
    BY <1>1, <1>3 DEF FilesInv, RowsOK, RowKept, StagedKept, CipherKept
  <2> QED BY <1>1, <1>3, <2>1, <2>2, AttemptStep
<1> QED BY <1>1, <1>2, <1>3

(* What is removed for a file that has failed or that is stored.            *)
LEMMA RemovalStep ==
  ASSUME QueueInv, FilesInv, scenario' = scenario, NEW s \in Slots, Executing(s), Moved(s), NEW f \in Files,
         f = Target(s), slot[s].work = Fin(f), slot'[s].pc = "ack", file[f].status \in {"FAILED", "STORED"},
         \/ staged' = Swept(f) /\ \A g \in Entries(f) : file[g].status \notin Needed
         \/ staged' = staged \ {f},
         file' = file \/ file' = [file EXCEPT ![f].temp = FALSE],
         cipher' = cipher \/ (file[f].object # f /\ cipher' = cipher \ {f}),
         \A e \in outbox' : e \in outbox \/ (e = Event("import.analyze", f) /\ file[f].status = "STORED"),
         UNCHANGED <<rec, upload, imp, inflight, withdrawn, analysis, objects, cleaning>>
  PROVE  FilesKept
<1>1. /\ \A g \in Files : FileFits(g)'
      /\ file' \in [Files -> FileRow] /\ staged' \subseteq Files /\ cipher' \subseteq Files
      /\ \A g \in Files : file'[g].status = file[g].status /\ file'[g].object = file[g].object
      /\ Onward /\ Careful({f}) /\ RowsStay /\ AnalysisOK'
  BY SweptFits
<1>2. RowsOK'
  BY <1>1, Fixed DEF FilesInv, RowsOK, UploadRow, FileRow
<1>3. ASSUME NEW c \in Batches PROVE BatchFits(c)'
  BY <1>1, BatchStays, ListedRow
<1>4. ASSUME NEW e \in outbox', e \notin outbox PROVE EventFits(e)'
  <2>1. e = Event("import.analyze", f) /\ file'[f].status = "STORED"
    BY <1>1, <1>4
  <2> QED BY <2>1 DEF EventFits, Event, Work
<1>5. SlotSees(slot[s])'
  BY DEF SlotSees, Attempting
<1> QED BY <1>1, <1>2, <1>3, <1>4, <1>5, HandlerStep

LEMMA RestoreFiles ==
  ASSUME QueueInv, FilesInv, NEW s \in Slots, Restore(s), scenario' = scenario
  PROVE  FilesKept
<1> DEFINE f == Target(s)
<1>1. /\ Executing(s) /\ Moved(s) /\ f \in Files /\ slot[s].work = Fin(f) /\ slot'[s].pc = "ack"
  BY RestoreMoves
<1>2. /\ file[f].object # NoFile /\ staged' = staged \ {f}
      /\ cipher' = cipher \/ (file[f].object # f /\ cipher' = cipher \ {f})
      /\ UNCHANGED <<rec, upload, imp, file, inflight, withdrawn, analysis, objects, cleaning>>
      /\ \A e \in outbox' : e \in outbox \/ e = Event("import.analyze", f)
  BY DEF Restore
<1>3. file[f].status = "STORED"
  BY <1>1, <1>2, FileFacts DEF StatusFits
<1> QED BY <1>1, <1>2, <1>3, RemovalStep

LEMMA TidyFiles ==
  ASSUME QueueInv, FilesInv, NEW s \in Slots, Tidy(s), scenario' = scenario
  PROVE  FilesKept
<1> DEFINE f == Target(s)
<1>1. /\ Executing(s) /\ Moved(s) /\ f \in Files /\ slot[s].work = Fin(f) /\ slot[s].pc = "tidy" /\ slot'[s].pc = "ack"
  BY TidyMoves
<1>2. /\ staged' = staged \ {f}
      /\ cipher' = cipher \/ (file[f].object # f /\ cipher' = cipher \ {f})
      /\ UNCHANGED <<outbox, rec, upload, imp, file, inflight, withdrawn, analysis, objects, cleaning>>
  BY DEF Tidy
<1>3. file[f].status = "STORED"
  BY <1>1, ExecutingFacts DEF FilesInv, SlotSees, Target
<1> QED BY <1>1, <1>2, <1>3, RemovalStep

(* A file that failed has nothing that is needed, and no object.            *)
LEMMA FailedFacts ==
  ASSUME QueueInv, FilesInv, NEW f \in Files, file[f].status = "FAILED"
  PROVE  file[f].object # f /\ \A g \in Entries(f) : file[g].status \notin Needed
<1>1. file[f].object = NoFile /\ NoFile \notin Files
  BY FileFacts, ShapeFacts DEF StatusFits, QueueInv
<1>2. \A g \in Entries(f) : file[g].status = "ABSENT"
  BY EntriesAbsent
<1> QED BY <1>1, <1>2 DEF Needed

LEMMA SweepFiles ==
  ASSUME QueueInv, FilesInv, NEW s \in Slots, SweepFailed(s), scenario' = scenario
  PROVE  FilesKept
<1> DEFINE f == Target(s)
<1>1. /\ Executing(s) /\ Moved(s) /\ f \in Files /\ slot[s].work = Fin(f) /\ slot[s].pc = "sweep" /\ slot'[s].pc = "ack"
  BY SweepMoves
<1>2. /\ staged' = Swept(f) /\ cipher' = cipher \ {f} /\ file' = [file EXCEPT ![f].temp = FALSE]
      /\ UNCHANGED <<outbox, rec, upload, imp, inflight, withdrawn, analysis, objects, cleaning>>
  BY DEF SweepFailed
<1>3. file[f].status = "FAILED"
  BY <1>1, ExecutingFacts DEF FilesInv, SlotSees, Target
<1>4. file[f].object # f /\ \A g \in Entries(f) : file[g].status \notin Needed
  BY <1>1, <1>3, FailedFacts
<1> QED BY <1>1, <1>2, <1>3, <1>4, RemovalStep

LEMMA ProjectFinalizeFiles ==
  ASSUME QueueInv, FilesInv, NEW s \in Slots, ProjectFinalizeFailure(s), scenario' = scenario
  PROVE  FilesKept
<1> DEFINE f == Target(s)
           failable == Failable(f, {"COMPLETE", "ENCRYPTING"})
<1>1. /\ Executing(s) /\ Moved(s) /\ f \in Files /\ slot[s].work = Fin(f)
      /\ failable => slot'[s].pc = "sweep"
      /\ ~failable => slot'[s].pc = "ack"
      /\ slot'[s].work = slot[s].work /\ slot[s].work.obj = f
  BY ProjectFinalizeMoves DEF Moved, Target
<1>2. /\ UNCHANGED <<outbox, rec, inflight, withdrawn, analysis, objects, staged, cipher, cleaning>>
      /\ failable => RecordUploadFileFailure(f)
      /\ ~failable => UNCHANGED <<upload, imp, file>>
  BY DEF ProjectFinalizeFailure
<1>3. CASE failable
  <2>1. file[f].status \notin {"ABSENT", "STORED"}
    BY <1>3 DEF Failable
  <2>2. ~Listed(f)
    BY <1>1, ExecutingFacts, FileWorks, JobSees
  <2>3. FailureKept(f)
    BY <1>1, <1>2, <1>3, <2>1, <2>2, RecordFailure
  <2>4. SlotSees(slot[s])'
    BY <1>1, <1>3, <2>3 DEF SlotSees, Attempting, FailureKept
  <2> QED BY <1>1, <1>2, <2>3, <2>4, HandlerStep DEF FailureKept
<1>4. CASE ~failable
  <2>1. SlotSees(slot[s])'
    BY <1>1, <1>4 DEF SlotSees, Attempting
  <2>2. upload' \in [Batches -> UploadRow] /\ RowKept(f) /\ StagedKept(f) /\ CipherKept(f)
    BY <1>2, <1>4 DEF FilesInv, RowsOK, RowKept, StagedKept, CipherKept
  <2> QED BY <1>1, <1>2, <1>4, <2>1, <2>2, AttemptStep
<1> QED BY <1>3, <1>4

-----------------------------------------------------------------------------
(* An analysis recorded.                                                    *)

Verdict(f, status) == [batch |-> Shape[f].batch, object |-> file[f].object, status |-> status]

AnalysisKept(f) ==
  /\ RowsOK' /\ AnalysisOK' /\ (\A g \in Files : FileFits(g)') /\ (\A b \in Batches : BatchFits(b)')
  /\ Onward /\ Careful({}) /\ RowsStay
  /\ \A a \in analysis' : a \in analysis \/ RowFits(a)'
  /\ \E a \in analysis' : a.batch = Shape[f].batch /\ a.object = file[f].object

LEMMA RecordVerdict ==
  ASSUME QueueInv, FilesInv, scenario' = scenario, NEW f \in Files, file[f].object # NoFile,
         NEW status \in Outcomes \cup {"FAILED"},
         \/ analysis' = (analysis \ Row(f)) \cup {Verdict(f, status)}
         \/ Row(f) # {} /\ analysis' = analysis,
         imp' = Preflight(imp, file, analysis', Shape[f].batch),
         UNCHANGED <<upload, file, inflight, withdrawn, objects, staged, cipher, cleaning>>
  PROVE  AnalysisKept(f)
<1> DEFINE b == Shape[f].batch
           o == file[f].object
           v == Verdict(f, status)
<1>0. Shape' = Shape /\ Files' = Files /\ Batches' = Batches /\ b \in Batches /\ NoFile \notin Files
      /\ o \in Files /\ o \in objects /\ ~Listed(o) /\ upload[b].status = "READY"
  BY Fixed, ShapeFacts, ObjectFacts DEF QueueInv
<1>1. v \in [batch : Batches, object : Files, status : Outcomes \cup {"FAILED"}] /\ v.batch = b /\ v.object = o
  BY <1>0 DEF Verdict
<1> HIDE DEF v
<1>2. \A a \in Row(f) : a \in analysis /\ a.batch = b /\ a.object = o
  BY DEF Row
<1>3. \A a \in analysis : a.batch = b /\ a.object = o => a \in Row(f)
  BY DEF Row
<1>4. \/ analysis' = (analysis \ Row(f)) \cup {v}
      \/ Row(f) # {} /\ analysis' = analysis
  BY DEF v
<1>5. AnalysisOK'
  <2>1. AnalysisOK
    BY DEF FilesInv
  <2>2. CASE analysis' = (analysis \ Row(f)) \cup {v}
    <3>1. IsFiniteSet(analysis \ Row(f))
      BY <2>1, FS_Difference DEF AnalysisOK
    <3>2. IsFiniteSet(analysis')
      BY <2>2, <3>1, FS_AddElement
    <3>3. analysis' \subseteq [batch : Batches, object : Files, status : Outcomes \cup {"FAILED"}]
      BY <1>1, <2>1, <2>2 DEF AnalysisOK
    <3>4. \A a, c \in analysis' : a.batch = c.batch /\ a.object = c.object => a = c
      BY <1>1, <1>3, <2>1, <2>2 DEF AnalysisOK
    <3> QED BY <1>0, <3>2, <3>3, <3>4 DEF AnalysisOK, Outcomes
  <2>3. CASE analysis' = analysis
    BY <1>0, <2>1, <2>3 DEF AnalysisOK
  <2> QED BY <1>4, <2>2, <2>3
<1>6. RowsOK'
  <2>1. imp' \in [Batches -> ImportStatus]
    BY <1>0, PreflightFacts DEF FilesInv
  <2> QED BY <1>0, <2>1, Fixed DEF FilesInv, RowsOK, UploadRow, FileRow
<1>7. \A a \in analysis : Listed(a.object) => a \in analysis'
  BY <1>0, <1>2, <1>4
<1>8. ASSUME NEW g \in Files PROVE FileFits(g)'
  <2>1. Entries(g)' = Entries(g)
    BY <1>0 DEF Entries
  <2>2. StatusFits(g)' /\ PlaintextFits(g)' /\ ObjectFits(g)'
    BY <1>0, <1>7, <2>1, FileFacts DEF StatusFits, PlaintextFits, ObjectFits, Listed
  <2> QED BY <2>2 DEF FileFits
<1>9. ASSUME NEW c \in Batches PROVE BatchFits(c)'
  <2>1. imp'[c] = imp[c] \/ upload'[c].status = "READY"
    BY <1>0, PreflightFacts DEF FilesInv
  <2>2. \A a \in analysis' : Listed(a.object) => a \in analysis
    BY <1>0, <1>1, <1>4
  <2>3. ASSUME upload'[c].status \in {"OPEN", "UPLOADING", "READY"} /\ imp'[c] \in {"UPLOADING", "ANALYZING"}
        PROVE  upload[c].status \in {"OPEN", "UPLOADING", "READY"} /\ imp[c] \in {"UPLOADING", "ANALYZING"}
    <3>1. \/ imp'[c] = imp[c]
          \/ imp[c] \in {"UPLOADING", "ANALYZING"}
      <4>1. RowsOK
        BY DEF FilesInv
      <4>2. (\A d \in Batches : d # b => imp'[d] = imp[d]) /\ (imp' = imp \/ imp[b] \in {"UPLOADING", "ANALYZING"})
        BY <1>0, <4>1, PreflightFacts
      <4> QED BY <4>2
    <3> QED BY <2>3, <3>1
  <2> QED BY <2>1, <2>2, <2>3, BatchStays
<1>10. Onward /\ Careful({})
  BY DEF Onward, Careful
<1>11. RowsStay
  BY <1>1, <1>2, <1>4 DEF RowsStay
<1>12. ASSUME NEW a \in analysis', a \notin analysis PROVE RowFits(a)'
  <2>1. a = v
    BY <1>4, <1>12
  <2> QED BY <1>0, <1>1, <2>1 DEF RowFits
<1>13. \E a \in analysis' : a.batch = b /\ a.object = o
  BY <1>1, <1>2, <1>4
<1> QED BY <1>5, <1>6, <1>8, <1>9, <1>10, <1>11, <1>12, <1>13 DEF AnalysisKept

(* Whoever works on the analysis of a file works on a file that is stored.  *)
LEMMA AnalysisJob ==
  ASSUME QueueInv, FilesInv, NEW w \in Works, NEW n \in DOMAIN jobs[w], w = Ana(w.obj)
  PROVE  w.obj \in Files /\ file[w.obj].object # NoFile
BY JobSees, FileFacts DEF StatusFits

LEMMA RecordFiles ==
  ASSUME QueueInv, FilesInv, NEW s \in Slots, RecordAnalysis(s), scenario' = scenario
  PROVE  FilesKept
<1> DEFINE f == Target(s)
<1>1. /\ Executing(s) /\ Moved(s) /\ f \in Files /\ slot[s].work = Ana(f) /\ slot'[s].pc = "ack"
  BY RecordMoves
<1>2. /\ UNCHANGED <<outbox, rec, upload, file, inflight, withdrawn, objects, staged, cipher, cleaning>>
      /\ analysis' = (analysis \ Row(f)) \cup {Verdict(f, Shape[f].outcome)}
      /\ imp' = Preflight(imp, file, analysis', Shape[f].batch)
  BY DEF RecordAnalysis, Verdict
<1>3. file[f].object # NoFile
  BY <1>1, ExecutingFacts, FileWorks, AnalysisJob
<1>4. Shape[f].outcome \in Outcomes \cup {"FAILED"}
  BY <1>1, ShapeFacts DEF QueueInv
<1>5. AnalysisKept(f)
  BY <1>1, <1>2, <1>3, <1>4, RecordVerdict
<1>6. SlotSees(slot[s])'
  BY <1>1 DEF SlotSees, Attempting
<1> QED BY <1>1, <1>2, <1>5, <1>6, HandlerStep DEF AnalysisKept

(* markStoredUploadAnalysisFailed                                           *)
LEMMA MarkedVerdict ==
  ASSUME QueueInv, FilesInv, scenario' = scenario, NEW f \in Files, file[f].object # NoFile, MarkAnalysisFailed(f),
         UNCHANGED <<upload, file, inflight, withdrawn, objects, staged, cipher, cleaning>>
  PROVE  AnalysisKept(f)
<1>1. imp' = Preflight(imp, file, analysis', Shape[f].batch)
  BY DEF MarkAnalysisFailed
<1>2. \/ analysis' = (analysis \ Row(f)) \cup {Verdict(f, "FAILED")}
      \/ Row(f) # {} /\ analysis' = analysis
  BY DEF MarkAnalysisFailed, Verdict
<1> QED BY <1>1, <1>2, RecordVerdict

LEMMA ProjectAnalysisFiles ==
  ASSUME QueueInv, FilesInv, NEW s \in Slots, ProjectAnalysisFailure(s), scenario' = scenario
  PROVE  FilesKept
<1> DEFINE f == Target(s)
<1>1. /\ Executing(s) /\ Moved(s) /\ f \in Files /\ slot[s].work = Ana(f) /\ slot'[s].pc = "ack"
  BY ProjectAnalysisMoves
<1>2. file[f].object # NoFile
  BY <1>1, ExecutingFacts, FileWorks, AnalysisJob
<1>3. /\ UNCHANGED <<outbox, rec, upload, file, inflight, withdrawn, objects, staged, cipher, cleaning>>
      /\ MarkAnalysisFailed(f)
  BY <1>2 DEF ProjectAnalysisFailure
<1>5. AnalysisKept(f)
  BY <1>1, <1>2, <1>3, MarkedVerdict
<1>6. SlotSees(slot[s])'
  BY <1>1 DEF SlotSees, Attempting
<1> QED BY <1>1, <1>3, <1>5, <1>6, HandlerStep DEF AnalysisKept

LEMMA ReadFiles ==
  ASSUME QueueInv, FilesInv, NEW s \in Slots, ReadObject(s), scenario' = scenario
  PROVE  FilesKept
<1>1. Moved(s) /\ slot'[s].pc \in {"ack", "classify", "project"}
  BY ReadMoves
<1>2. UNCHANGED <<outbox, rec, uploadVars>>
  BY DEF ReadObject
<1>3. SlotSees(slot[s])'
  BY <1>1 DEF SlotSees, Attempting
<1> QED BY <1>1, <1>2, <1>3, QueueFiles DEF Moved

LEMMA RefusedFiles ==
  ASSUME QueueInv, FilesInv, NEW s \in Slots, StepRefused(s)
  PROVE  FilesKept
<1>1. /\ scenario' = scenario /\ Executing(s) /\ Moved(s)
      /\ \/ /\ slot[s].pc \in Attempting /\ slot'[s].pc = "undo" /\ slot'[s].run = slot[s].run
         \/ slot'[s].pc \in {"ack", "project"}
  BY RefusedMoves
<1>2. UNCHANGED <<outbox, rec, uploadVars>>
  BY DEF StepRefused
<1>3. SlotSees(slot[s])'
  <2>1. CASE slot'[s].pc \in {"ack", "project"}
    BY <2>1 DEF SlotSees, Attempting
  <2>2. CASE slot[s].pc \in Attempting /\ slot'[s].pc = "undo"
    <3>1. file[slot[s].work.obj].object = NoFile
      BY <1>1, <2>2, ExecutingFacts DEF FilesInv, SlotSees
    <3> QED BY <1>1, <1>2, <2>2, <3>1 DEF SlotSees, Attempting, Moved, uploadVars
  <2> QED BY <1>1, <2>1, <2>2
<1> QED BY <1>1, <1>2, <1>3, QueueFiles DEF Moved

-----------------------------------------------------------------------------
(* Steps of the queue.                                                      *)

LEMMA FrameFiles ==
  ASSUME QueueInv, FilesInv, UNCHANGED <<outbox, rec, scenario, uploadVars>>,
         \/ slot' = slot
         \/ \E s \in Slots : \E v : slot' = [slot EXCEPT ![s] = v] /\ (v = Idle \/ v.pc \in {"fetched", "work"})
  PROVE  FilesKept
<1>1. DOMAIN slot = Slots
  BY DEF QueueInv, SlotsOK
<1>2. \A t \in Slots : slot'[t] = slot[t] \/ SlotSees(slot[t])'
  BY <1>1 DEF SlotSees, Attempting
<1> QED BY <1>2, QueueFiles

LEMMA QueueStepFiles ==
  ASSUME QueueInv, FilesInv, UNCHANGED <<scenario, uploadVars>>,
         \/ QueueStep
         \/ \E e \in outbox : DispatchUnmarked(e)
         \/ \E w \in DOMAIN jobs : \E n \in DOMAIN jobs[w] : ExpireLate(w, n)
         \/ \E s \in Slots : Crash(s)
  PROVE  FilesKept
<1>1. ASSUME NEW s \in Slots, Take(s) PROVE FilesKept
  <2>1. UNCHANGED <<outbox, rec>> /\ \E v : slot' = [slot EXCEPT ![s] = v] /\ v.pc = "fetched"
    <3>1. PICK w \in DOMAIN jobs : \E n \in DOMAIN jobs[w] : Fetch(s, w, n)
      BY <1>1 DEF Take
    <3>2. PICK n \in DOMAIN jobs[w] : Fetch(s, w, n)
      BY <3>1
    <3> DEFINE last == (IF jobs[w][n].state = "retry" THEN jobs[w][n].retries + 1 ELSE jobs[w][n].retries) >= RetryLimit
               v == [pc |-> "fetched", work |-> w, n |-> n, last |-> last]
    <3>3. slot' = [slot EXCEPT ![s] = v] /\ UNCHANGED <<outbox, rec>>
      BY <3>2 DEF Fetch
    <3> HIDE DEF last
    <3>4. v.pc = "fetched"
      OBVIOUS
    <3> HIDE DEF v
    <3> QED BY <3>3, <3>4
  <2> QED BY <2>1, FrameFiles
<1>2. ASSUME NEW s \in Slots, Begin(s) PROVE FilesKept
  <2>1. UNCHANGED <<outbox, rec>> /\ slot[s].pc = "fetched"
        /\ slot' = [slot EXCEPT ![s] = IF Job(@).state = "active" THEN [@ EXCEPT !.pc = "work"] ELSE Idle]
    BY <1>2 DEF Begin
  <2>2. slot[s] # Idle
    BY <2>1 DEF Idle
  <2>3. "pc" \in DOMAIN slot[s] /\ DOMAIN slot = Slots
    BY <2>2, SlotFacts DEF QueueInv, SlotsOK
  <2> DEFINE v == [slot[s] EXCEPT !.pc = "work"]
  <2>4. v.pc = "work"
    BY <2>3
  <2>5. slot' = [slot EXCEPT ![s] = v] \/ slot' = [slot EXCEPT ![s] = Idle]
    BY <2>1
  <2> HIDE DEF v
  <2> QED BY <2>1, <2>4, <2>5, FrameFiles
<1>3. ASSUME NEW s \in Slots, Ack(s) \/ Crash(s) PROVE FilesKept
  <2>1. UNCHANGED <<outbox, rec>> /\ slot' = [slot EXCEPT ![s] = Idle]
    BY <1>3 DEF Ack, Crash
  <2> QED BY <2>1, FrameFiles
<1>4. CASE slot' = slot /\ UNCHANGED <<outbox, rec>>
  BY <1>4, FrameFiles
<1> QED BY <1>1, <1>2, <1>3, <1>4 DEF QueueStep, DispatcherStep, Dispatch, Expiry, Expire, DispatchUnmarked, ExpireLate

-----------------------------------------------------------------------------
(* The reconciler.                                                          *)

LEMMA ProjectionStep ==
  ASSUME QueueInv, FilesInv, UNCHANGED <<outbox, slot, scenario>>, rec # RecIdle,
         NEW own, own = {} \/ (own = {rec.work.obj} /\ rec.work = Fin(rec.work.obj)),
         Onward, Careful(own), RowsStay, RowsOK', AnalysisOK', \A f \in Files : FileFits(f)',
         \A b \in Batches : BatchFits(b)', \A a \in analysis' : a \in analysis \/ RowFits(a)', RecSees'
  PROVE  FilesKept
<1>1. \A w \in Locked(own) : w = rec.work
  BY DEF Locked
<1>2. ASSUME NEW s \in Slots PROVE slot'[s] = slot[s] /\ (Executing(s) => slot[s].work \notin Locked(own))
  BY <1>1, RecFacts
<1> QED BY <1>2, FilesStep

LEMMA ReconcileFinalizeFiles ==
  ASSUME QueueInv, FilesInv, ReconcileFinalize, scenario' = scenario
  PROVE  FilesKept
<1> DEFINE f == rec.work.obj
<1>1. /\ rec # RecIdle /\ rec.work = Fin(f) /\ f \in Files /\ rec.n \in DOMAIN jobs[rec.work] /\ rec.work \in Works
      /\ rec = [pc |-> rec.pc, work |-> rec.work, n |-> rec.n]
  BY RecFacts DEF ReconcileFinalize, RecIdle, Fin
<1>2. file[f].status \notin Waited /\ ~Listed(f)
  BY <1>1, JobSees
<1>3. /\ UNCHANGED <<outbox, slot, receipts, inflight, withdrawn, analysis, objects, staged, cipher, cleaning>>
      /\ Hopeless(f) => RecordUploadFileFailure(f) /\ rec' = [rec EXCEPT !.pc = "sweep"]
      /\ ~Hopeless(f) => rec' = [rec EXCEPT !.pc = "record"] /\ UNCHANGED <<upload, imp, file>>
  BY DEF ReconcileFinalize
<1>4. CASE Hopeless(f)
  <2>1. file[f].status \notin {"ABSENT", "STORED"}
    BY <1>4 DEF Hopeless
  <2>2. FailureKept(f)
    BY <1>1, <1>2, <1>3, <1>4, <2>1, RecordFailure
  <2>3. rec'.pc = "sweep" /\ rec'.work.obj = f
    BY <1>1, <1>3, <1>4
  <2> HIDE DEF f
  <2>4. RecSees'
    BY <2>2, <2>3 DEF RecSees, FailureKept
  <2> QED BY <1>1, <1>3, <2>2, <2>4, ProjectionStep DEF FailureKept
<1>5. CASE ~Hopeless(f)
  <2>1. file[f].status = "STORED"
    BY <1>1, <1>2, <1>5, FileFacts DEF Hopeless, Waited, FileRow, FileStatus
  <2>2. rec'.pc = "record" /\ rec'.work.obj = f /\ rec'.work.topic = "upload.finalize"
    BY <1>1, <1>3, <1>5, FileWorks
  <2>3. RecSees'
    BY <1>3, <1>5, <2>1, <2>2 DEF RecSees
  <2>4. UNCHANGED uploadVars
    BY <1>3, <1>5 DEF uploadVars
  <2> QED BY <1>3, <2>3, <2>4, QueueFiles
<1> QED BY <1>4, <1>5

LEMMA ReconcileSweepFiles ==
  ASSUME QueueInv, FilesInv, ReconcileSweep, scenario' = scenario
  PROVE  FilesKept
<1> DEFINE f == rec.work.obj
<1>1. /\ rec # RecIdle /\ rec.pc = "sweep" /\ rec.work = Fin(f) /\ f \in Files
      /\ rec = [pc |-> rec.pc, work |-> rec.work, n |-> rec.n]
  BY RecFacts DEF ReconcileSweep, RecIdle, Fin
<1>2. file[f].status = "FAILED"
  BY <1>1 DEF FilesInv, RecSees
<1>3. /\ staged' = Swept(f) /\ cipher' = cipher \ {f} /\ file' = [file EXCEPT ![f].temp = FALSE]
      /\ rec' = [rec EXCEPT !.pc = "record"]
      /\ UNCHANGED <<outbox, slot, upload, imp, inflight, withdrawn, analysis, objects, cleaning>>
  BY DEF ReconcileSweep
<1>4. file[f].object # f /\ \A g \in Entries(f) : file[g].status \notin Needed
  BY <1>1, <1>2, FailedFacts
<1>5. rec'.pc = "record" /\ rec'.work.obj = f /\ rec'.work.topic = "upload.finalize"
  BY <1>1, <1>3, FileWorks
<1> HIDE DEF f
<1>6. /\ \A g \in Files : FileFits(g)'
      /\ file' \in [Files -> FileRow] /\ staged' \subseteq Files /\ cipher' \subseteq Files
      /\ \A g \in Files : file'[g].status = file[g].status /\ file'[g].object = file[g].object
      /\ Onward /\ Careful({f}) /\ RowsStay /\ AnalysisOK'
  BY <1>1, <1>2, <1>3, <1>4, SweptFits
<1>7. RowsOK'
  BY <1>3, <1>6, Fixed DEF FilesInv, RowsOK, UploadRow, FileRow
<1>8. ASSUME NEW c \in Batches PROVE BatchFits(c)'
  BY <1>3, <1>6, BatchStays, ListedRow
<1>9. RecSees'
  BY <1>1, <1>2, <1>3, <1>5, <1>6 DEF RecSees
<1>10. {f} = {rec.work.obj} /\ rec.work = Fin(rec.work.obj) /\ rec # RecIdle
  BY <1>1 DEF f
<1> QED BY <1>3, <1>6, <1>7, <1>8, <1>9, <1>10, ProjectionStep

LEMMA ReconcileAnalysisFiles ==
  ASSUME QueueInv, FilesInv, ReconcileAnalysis, scenario' = scenario
  PROVE  FilesKept
<1> DEFINE f == rec.work.obj
<1>1. /\ rec # RecIdle /\ rec.work = Ana(f) /\ f \in Files
      /\ rec = [pc |-> rec.pc, work |-> rec.work, n |-> rec.n]
  BY RecFacts DEF ReconcileAnalysis, RecIdle, Ana
<1>2. /\ file[f].object # NoFile /\ rec' = [rec EXCEPT !.pc = "record"]
      /\ UNCHANGED <<outbox, slot, upload, file, inflight, withdrawn, objects, staged, cipher, cleaning>>
      /\ \/ MarkAnalysisFailed(f)
         \/ Row(f) # {} /\ UNCHANGED <<analysis, imp, receipts>>
      /\ UNCHANGED receipts
  BY DEF ReconcileAnalysis
<1>3. rec'.pc = "record" /\ rec'.work.obj = f /\ rec'.work.topic = "import.analyze"
  BY <1>1, <1>2, FileWorks
<1> HIDE DEF f
<1>4. CASE MarkAnalysisFailed(f)
  <2>1. AnalysisKept(f)
    BY <1>1, <1>2, <1>4, MarkedVerdict
  <2>2. \E a \in analysis' : a.batch = Shape[f].batch /\ a.object = file[f].object
    BY <2>1 DEF AnalysisKept
  <2>3. RecSees'
    BY <1>2, <1>3, <2>2, Fixed DEF RecSees, Row
  <2> QED BY <1>1, <1>2, <2>1, <2>3, ProjectionStep DEF AnalysisKept
<1>5. CASE Row(f) # {} /\ UNCHANGED <<analysis, imp, receipts>>
  <2>1. UNCHANGED uploadVars
    BY <1>2, <1>5 DEF uploadVars
  <2>2. \E a \in analysis' : a.batch = Shape[f].batch /\ a.object = file[f].object
    BY <1>5 DEF Row
  <2>3. RecSees'
    BY <1>2, <1>3, <2>2, Fixed DEF RecSees, Row
  <2> QED BY <1>2, <2>1, <2>3, QueueFiles
<1> QED BY <1>2, <1>4, <1>5

LEMMA ReconcilerFiles ==
  ASSUME QueueInv, FilesInv, scenario' = scenario,
         \/ ReconcilerStep
         \/ ReconciliationLost /\ UNCHANGED uploadVars
  PROVE  FilesKept
<1>0. DOMAIN jobs = Works
  BY DEF QueueInv, JobsOK
<1>1. ASSUME NEW w \in Works, NEW n \in DOMAIN jobs[w], BeginReconciliation(w, n), UNCHANGED uploadVars PROVE FilesKept
  <2>1. UNCHANGED <<outbox, slot>> /\ (rec' = rec \/ rec' = RecIdle \/ rec'.pc = "project")
    BY <1>1, BeginReconciliationQueue
  <2>2. rec' = rec \/ RecSees'
    BY <2>1 DEF RecSees
  <2> QED BY <1>1, <2>1, <2>2, QueueFiles
<1>2. CASE (EndReconciliation \/ ReconciliationLost) /\ UNCHANGED uploadVars
  <2>1. UNCHANGED <<outbox, slot>> /\ rec' = RecIdle
    BY <1>2 DEF EndReconciliation, ReconciliationLost
  <2>2. RecSees'
    BY <2>1 DEF RecSees
  <2> QED BY <1>2, <2>1, <2>2, QueueFiles
<1> QED BY <1>0, <1>1, <1>2, ReconcileFinalizeFiles, ReconcileSweepFiles, ReconcileAnalysisFiles DEF ReconcilerStep

-----------------------------------------------------------------------------
(* All of it.                                                               *)

LEMMA InitFiles ==
  ASSUME Init PROVE FilesInv
<1>1. /\ scenario \in Scenarios /\ outbox = {} /\ slot = [s \in Slots |-> Idle] /\ rec = RecIdle
      /\ upload = [b \in Batches |-> [status |-> "ABSENT", declared |-> 0, received |-> 0, count |-> 0,
                                      expanded |-> 0, due |-> FALSE]]
      /\ imp = [b \in Batches |-> "ABSENT"]
      /\ file = [f \in Files |-> [status |-> "ABSENT", received |-> 0, temp |-> FALSE,
                                  resv |-> "NONE", object |-> NoFile]]
      /\ withdrawn = {} /\ analysis = {} /\ objects = {}
      /\ inflight = [q \in Requests |-> NoRequest]
      /\ staged = {} /\ cipher = {} /\ cleaning = {}
  BY DEF Init, QueueInit, UploadsInit
<1>2. RowsOK
  <2>1. [status |-> "ABSENT", declared |-> 0, received |-> 0, count |-> 0, expanded |-> 0, due |-> FALSE] \in UploadRow
    BY DEF UploadRow, UploadStatus
  <2>2. [status |-> "ABSENT", received |-> 0, temp |-> FALSE, resv |-> "NONE", object |-> NoFile] \in FileRow
    BY DEF FileRow, FileStatus
  <2> QED BY <1>1, <2>1, <2>2 DEF RowsOK, ImportStatus
<1>3. AnalysisOK
  BY <1>1, FS_EmptySet DEF AnalysisOK
<1>4. ASSUME NEW f \in Files PROVE FileFits(f)
  <2>1. /\ file[f].status = "ABSENT" /\ file[f].received = 0 /\ file[f].temp = FALSE /\ file[f].resv = "NONE"
        /\ file[f].object = NoFile
    BY <1>1
  <2>2. upload[Shape[f].batch].status = "ABSENT"
    BY <1>1, ShapeFacts
  <2> QED BY <1>1, <2>1, <2>2 DEF FileFits, StatusFits, PlaintextFits, ObjectFits, Needed
<1>5. (\A b \in Batches : BatchFits(b)) /\ (\A s \in Slots : SlotSees(slot[s])) /\ RecSees
  BY <1>1 DEF BatchFits, SlotSees, RecSees
<1> QED BY <1>1, <1>2, <1>3, <1>4, <1>5 DEF FilesInv

LEMMA ApiFiles ==
  ASSUME QueueInv, FilesInv, Api, UNCHANGED <<queueVars, scenario>>
  PROVE  FilesKept
<1>1. ASSUME NEW b \in Batches, CreateBatch(b) \/ CancelBatch(b) PROVE FilesKept
  BY <1>1, CreateBatchFiles, CancelBatchFiles
<1>2. ASSUME NEW b \in Batches, NEW S \in SUBSET {f \in Files : Shape[f].batch = b},
             CreateBatchWithFiles(b, S) \/ CreateFiles(b, S) \/ RemoveFiles(b, S) \/ RemoveAgain(b, S)
      PROVE  FilesKept
  BY <1>2, RegisterFiles, RemoveFilesFiles, RemoveAgainFiles
<1>3. ASSUME NEW q \in Requests, NEW f \in Files, NEW len \in ChunkLengths, StageChunk(q, f, len) PROVE FilesKept
  BY <1>3, StageChunkFiles
<1>4. ASSUME NEW q \in Requests, CommitChunk(q) \/ DropChunk(q) PROVE FilesKept
  BY <1>4, CommitChunkFiles, DropChunkFiles
<1>5. ASSUME NEW f \in Files, FailFile(f) PROVE FilesKept
  BY <1>5, FailFileFiles
<1> QED BY <1>1, <1>2, <1>3, <1>4, <1>5 DEF Api

LEMMA NextFiles == QueueInv /\ FilesInv /\ [Next]_vars => FilesKept
<1> SUFFICES ASSUME QueueInv, FilesInv, [Next]_vars PROVE FilesKept
  OBVIOUS
<1> USE DEF faultVars
<1>1. CASE UNCHANGED vars
  <2>1. UNCHANGED <<outbox, slot, rec, scenario, uploadVars>>
    BY <1>1 DEF vars, uploadVars
  <2> QED BY <2>1, QueueFiles
<1>2. CASE Staging(Api)
  BY <1>2, ApiFiles DEF Staging
<1>3. CASE Staging(Time) \/ Staging(ExpireStaging) \/ Staging(Cleaner)
  BY <1>3, TickFiles, ExpireStagingFiles, CleanUpFiles DEF Staging, Time, Cleaner
<1>4. CASE NoFault(\E b \in Batches : CompleteBatch(b))
  BY <1>4, CompleteBatchFiles DEF NoFault
<1>5. CASE QueueOnly(QueueStep)
  BY <1>5, QueueStepFiles DEF QueueOnly
<1>6. CASE NoFault(\E s \in Slots : FinalizeStep(s) \/ AnalyzeStep(s))
  <2>1. PICK s \in Slots : FinalizeStep(s) \/ AnalyzeStep(s)
    BY <1>6 DEF NoFault
  <2>2. scenario' = scenario
    BY <1>6 DEF NoFault
  <2>3. CASE FinalizeStep(s)
    BY <2>2, <2>3, RestoreFiles, ClaimFiles, ReserveFiles, WriteFiles, CommitFiles, TidyFiles, UndoFiles,
       ProjectFinalizeFiles, SweepFiles DEF FinalizeStep
  <2>4. CASE AnalyzeStep(s)
    BY <2>2, <2>4, ReadFiles, RecordFiles, ProjectAnalysisFiles DEF AnalyzeStep
  <2> QED BY <2>1, <2>3, <2>4
<1>7. CASE NoFault(ReconcilerStep) \/ (ReconciliationLost /\ UNCHANGED uploadVars)
  <2>1. scenario' = scenario
    BY <1>7 DEF NoFault, ReconciliationLost, Fault
  <2> QED BY <1>7, <2>1, ReconcilerFiles DEF NoFault
<1>8. CASE \E f \in Files : CleanUpLost(f) /\ UNCHANGED queueVars
  BY <1>8, CleanUpLostFiles
<1>9. CASE QueueFault /\ UNCHANGED uploadVars
  <2>1. scenario' = scenario
    BY <1>9 DEF QueueFault, DispatchUnmarked, ExpireLate, Crash, Fault
  <2> QED BY <1>9, <2>1, QueueStepFiles DEF QueueFault
<1>10. CASE \E s \in Slots : CommitUnanswered(s) \/ StepRefused(s)
  <2>1. PICK s \in Slots : CommitUnanswered(s) \/ StepRefused(s)
    BY <1>10
  <2>2. scenario' = scenario
    BY <2>1 DEF CommitUnanswered, StepRefused, Fault
  <2> QED BY <2>1, <2>2, CommitFiles, RefusedFiles
<1> QED BY <1>1, <1>2, <1>3, <1>4, <1>5, <1>6, <1>7, <1>8, <1>9, <1>10 DEF Next

(* The rows of files and batches, the staging directory, the object store,  *)
(* the analysis rows and what a handler under way remembers agree with each *)
(* other after every transaction, fault and cleanup (uploads/service.ts,    *)
(* finalize.ts, staging-cleanup.ts, imports/postgres-analyzer.ts).          *)
THEOREM FilesInvHolds == Spec => []FilesInv
<1>1. Init => QueueInv /\ FilesInv
  BY InitQueue, InitFiles
<1>2. QueueInv /\ FilesInv /\ [Next]_vars => QueueInv' /\ FilesInv'
  BY NextQueue, NextFiles DEF FilesKept
<1> QED BY <1>1, <1>2, PTL DEF Spec

-----------------------------------------------------------------------------
(* What the counts of the preflight say of the sets.                        *)

Covered(rows, b) == {a.object : a \in Analyzed(rows, b)}

LEMMA CoveredCount ==
  ASSUME AnalysisOK, NEW b \in Batches
  PROVE  /\ IsFiniteSet(Analyzed(analysis, b)) /\ IsFiniteSet(Covered(analysis, b))
         /\ Cardinality(Covered(analysis, b)) = Cardinality(Analyzed(analysis, b))
<1> DEFINE S == Analyzed(analysis, b)
           T == Covered(analysis, b)
           g == [a \in S |-> a.object]
<1>1. S \subseteq analysis /\ \A a \in S : a.batch = b
  BY DEF Analyzed
<1>2. IsFiniteSet(S)
  BY <1>1, FS_Subset DEF AnalysisOK
<1>3. g \in Surjection(S, T)
  BY DEF Surjection, Covered
<1>4. g \in Injection(S, T)
  <2>1. \A x, y \in S : g[x] = g[y] => x = y
    BY <1>1 DEF AnalysisOK
  <2>2. g \in [S -> T]
    BY DEF Covered
  <2> QED BY <2>1, <2>2 DEF Injection, IsInjective
<1> HIDE DEF g
<1>5. IsFiniteSet(T) /\ Cardinality(T) = Cardinality(S)
  BY <1>2, <1>3, <1>4, FS_Surjection
<1> QED BY <1>2, <1>5

LEMMA ExpectedFinite ==
  ASSUME QueueInv, FilesInv, NEW b \in Batches
  PROVE  Expected(file, b) \subseteq Files /\ IsFiniteSet(Expected(file, b))
<1>1. Expected(file, b) \subseteq Files
  BY FileFacts DEF Expected, Usable, Identity, FileRow
<1> QED BY <1>1, ShapeFacts, FS_Subset DEF QueueInv

(* A file that is not stored is the object of no row, unless it is listed.  *)
LEMMA RowObject ==
  ASSUME QueueInv, FilesInv, NEW a \in analysis
  PROVE  /\ a.object \in Files
         /\ ~Listed(a.object) => /\ file[a.object].status = "STORED"
                                 /\ \E f \in Files : Shape[f].batch = a.batch /\ file[f].object = a.object
<1>1. a.object \in Files /\ RowFits(a)
  BY ListedRow DEF FilesInv
<1>2. ASSUME NEW f \in Files, file[f].object = a.object PROVE file[a.object].status = "STORED"
  <2>1. file[f].object # NoFile
    BY <1>1, <1>2, ShapeFacts DEF QueueInv
  <2> QED BY <1>1, <1>2, <2>1, ObjectFacts, ShapeFacts DEF QueueInv
<1> QED BY <1>1, <1>2 DEF RowFits

LEMMA CoveredExpected ==
  ASSUME QueueInv, FilesInv, NEW b \in Batches,
         \A a \in analysis : a.batch = b /\ Listed(a.object) => file[a.object].status = "COMPLETE"
  PROVE  Covered(analysis, b) \subseteq Expected(file, b)
<1> SUFFICES ASSUME NEW a \in analysis, a.batch = b PROVE a.object \in Expected(file, b)
  BY DEF Covered, Analyzed
<1>1. CASE Listed(a.object)
  <2>1. a.object \in Files /\ Shape[a.object].batch = b /\ file[a.object].status = "COMPLETE"
    BY <1>1, ListedRow
  <2>2. file[a.object].object = NoFile
    BY <2>1, FileFacts DEF StatusFits
  <2> QED BY <2>1, <2>2 DEF Expected, Usable, Identity
<1>2. CASE ~Listed(a.object)
  <2>1. PICK f \in Files : Shape[f].batch = b /\ file[f].object = a.object
    BY <1>2, RowObject
  <2>2. file[f].object # NoFile
    BY <2>1, RowObject, ShapeFacts DEF QueueInv
  <2>3. file[f].status = "STORED"
    BY <2>2, ObjectFacts
  <2> QED BY <2>1, <2>2, <2>3 DEF Expected, Usable, Identity
<1> QED BY <1>1, <1>2

-----------------------------------------------------------------------------
(* What a step does to what a batch shows: it is decided anew from what is  *)
(* there then, or there is no less to wait for.                             *)

Counted(b) == imp[b] = "ANALYZING" => Covered(analysis, b) # Expected(file, b) \/ Duplicated(b)

Decided(b) ==
  /\ imp[b] \in {"UPLOADING", "ANALYZING"}
  /\ imp'[b] = DecidePreflight(Cardinality(Expected(file', b)), Cardinality(Analyzed(analysis', b)),
                               Cardinality({a \in Analyzed(analysis', b) : a.status = "PARSED"}))
  /\ \A a \in analysis' : a.batch = b /\ Listed(a.object) => file'[a.object].status = "COMPLETE"

Settled(b) ==
  \/ Decided(b)
  \/ imp'[b] \in {imp[b], "CANCELLED", "UPLOADING"} /\ (Counted(b) => Counted(b)')

JustDecided(b) ==
  /\ imp[b] = DecidePreflight(Cardinality(Expected(file, b)), Cardinality(Analyzed(analysis, b)),
                              Cardinality({a \in Analyzed(analysis, b) : a.status = "PARSED"}))
  /\ \A a \in analysis : a.batch = b /\ Listed(a.object) => file[a.object].status = "COMPLETE"

CommitsAll(b) ==
  /\ Covered(analysis, b) = Expected(file, b)
  /\ \A f \in Usable(file, b) : Listed(f) \/ file[f].status = "STORED"
  /\ \E a \in Analyzed(analysis, b) : a.status = "PARSED"

LEMMA DecidedSound ==
  ASSUME QueueInv, FilesInv, NEW b \in Batches, JustDecided(b)
  PROVE  Counted(b) /\ (imp[b] = "COMMITTING" => CommitsAll(b))
<1> DEFINE E == Expected(file, b)
           A == Analyzed(analysis, b)
           C == Covered(analysis, b)
           P == {a \in A : a.status = "PARSED"}
<1>1. IsFiniteSet(E) /\ IsFiniteSet(A) /\ IsFiniteSet(C) /\ Cardinality(C) = Cardinality(A)
      /\ C \subseteq E
  BY ExpectedFinite, CoveredCount, CoveredExpected DEF FilesInv, JustDecided
<1>2. IsFiniteSet(P)
  BY <1>1, FS_Subset
<1>3. imp[b] = "ANALYZING" => Cardinality(E) # Cardinality(A)
  BY DEF DecidePreflight, JustDecided
<1>4. imp[b] = "COMMITTING" => Cardinality(E) = Cardinality(A) /\ Cardinality(P) # 0
  BY DEF DecidePreflight, JustDecided
<1>5. imp[b] = "ANALYZING" => C # E
  BY <1>1, <1>3
<1>6. imp[b] = "COMMITTING" => C = E /\ P # {}
  BY <1>1, <1>2, <1>4, FS_Subset, FS_EmptySet
<1>7. ASSUME C = E, NEW f \in Usable(file, b), ~Listed(f) PROVE file[f].status = "STORED"
  <2>1. f \in Files /\ Identity(file, f) \in C
    BY <1>7 DEF Expected, Usable
  <2>2. CASE file[f].object # NoFile
    BY <2>1, <2>2, ObjectFacts
  <2>3. CASE file[f].object = NoFile
    <3>1. PICK a \in analysis : a.object = f
      BY <2>1, <2>3 DEF Identity, Covered, Analyzed
    <3> QED BY <1>7, <3>1, RowObject
  <2> QED BY <2>2, <2>3
<1> HIDE DEF E, C
<1> QED BY <1>5, <1>6, <1>7 DEF Counted, CommitsAll, E, C

LEMMA DecidedNow == QueueInv /\ FilesInv => \A b \in Batches : JustDecided(b) => Counted(b) /\ (imp[b] = "COMMITTING" => CommitsAll(b))
BY DecidedSound
LEMMA DecidedThen == QueueInv' /\ FilesInv' => \A b \in Batches' : JustDecided(b)' => Counted(b)' /\ (imp'[b] = "COMMITTING" => CommitsAll(b)')
<1>1. (QueueInv /\ FilesInv => \A b \in Batches : JustDecided(b) => Counted(b) /\ (imp[b] = "COMMITTING" => CommitsAll(b)))'
  BY DecidedNow, PTL
<1> QED BY <1>1

LEMMA SettledKeeps ==
  ASSUME QueueInv', FilesInv', scenario' = scenario, NEW b \in Batches, Settled(b)
  PROVE  /\ Counted(b) => Counted(b)'
         /\ imp[b] # "COMMITTING" /\ imp'[b] = "COMMITTING" => CommitsAll(b)'
<1>1. CASE Decided(b)
  <2>1. JustDecided(b)' /\ b \in Batches'
    BY <1>1, Fixed DEF Decided, JustDecided, Expected, Usable, Identity, Analyzed, Listed
  <2> QED BY <2>1, DecidedThen
<1>2. CASE imp'[b] \in {imp[b], "CANCELLED", "UPLOADING"} /\ (Counted(b) => Counted(b)')
  BY <1>2
<1> QED BY <1>1, <1>2 DEF Settled

-----------------------------------------------------------------------------
(* Work that is not over: an event that is not dispatched, or the newest    *)
(* job neither completed nor dealt with.                                    *)

Newest(w) == jobs[w][Len(jobs[w])]
Held(w)   == Pending(w) \/ (Len(jobs[w]) > 0 /\ Open(Newest(w)))

(* Work that was reported completed, and work that nothing waits for.       *)
Done(w) ==
  \/ \E n \in DOMAIN jobs[w] : jobs[w][n].state = "completed"
  \/ \E s \in Slots : slot[s] # Idle /\ slot[s].pc = "ack" /\ slot[s].result = "completed" /\ slot[s].work = w

Analysed(f) == file[f].object # NoFile /\ Row(f) # {}
Finished(w) ==
  /\ w.topic = "upload.finalize" => file[w.obj].status = "STORED"
  /\ w.topic = "import.analyze" => Analysed(w.obj)
Over(w) ==
  /\ w.topic = "upload.finalize" =>
       file[w.obj].status = "STORED" \/ (file[w.obj].status = "FAILED" /\ w.obj \notin cipher)
  /\ w.topic = "import.analyze" => Analysed(w.obj)

FileHeld(f) ==
  /\ file[f].status \in {"COMPLETE", "ENCRYPTING"} /\ ~Listed(f) /\ upload[Shape[f].batch].status = "READY"
       => Held(Fin(f))
  /\ file[f].status = "STORED" => Row(f) # {} \/ Held(Ana(f))
  /\ f \in cipher => file[f].status = "STORED" \/ Held(Fin(f))

SlotHeld(s) == slot[s] # Idle /\ slot[s].pc \in Attempting => Held(slot[s].work)

HeldInv ==
  /\ \A f \in Files : FileHeld(f)
  /\ \A w \in Works : Done(w) => Finished(w)
  /\ \A s \in Slots : SlotHeld(s)

-----------------------------------------------------------------------------
(* Steps that leave the jobs alone.                                         *)

LEMMA HeldStays ==
  ASSUME UNCHANGED <<sent, jobs>>, outbox \subseteq outbox', NEW w \in Works, Held(w)
  PROVE  Held(w)'
BY DEF Held, Pending, Newest, Open

LEMMA NewEvent ==
  ASSUME QueueInv, sent' = sent, NEW e \in outbox', e \notin outbox, NEW w, e.work = w
  PROVE  Held(w)'
BY DEF Held, Pending, QueueInv, EventsOK

LEMMA AnalysedStays ==
  ASSUME QueueInv, FilesInv, Onward, RowsStay, scenario' = scenario, NEW f \in Files, Analysed(f)
  PROVE  Analysed(f)'
<1>1. file[f].status = "STORED" /\ file[f].object \in objects
  BY ObjectFacts DEF Analysed
<1>2. file'[f].object = file[f].object
  BY <1>1 DEF Onward
<1>3. PICK a \in analysis : a.batch = Shape[f].batch /\ a.object = file[f].object
  BY DEF Analysed, Row
<1>4. PICK c \in analysis' : c.batch = a.batch /\ c.object = a.object
  BY <1>1, <1>3 DEF RowsStay
<1> QED BY <1>2, <1>3, <1>4, Fixed DEF Analysed, Row

LEMMA FinishedStays ==
  ASSUME QueueInv, FilesInv, Onward, RowsStay, scenario' = scenario, NEW w \in Works, Finished(w)
  PROVE  Finished(w)'
<1>1. w.obj \in Files
  BY WorkFacts
<1> QED BY <1>1, AnalysedStays DEF Finished, Onward

(* What a step brings that has to be held.                                  *)
News(f) ==
  /\ file'[f].status \in {"COMPLETE", "ENCRYPTING"} /\ ~Listed(f) /\ upload'[Shape[f].batch].status = "READY" =>
       \/ file[f].status \in {"COMPLETE", "ENCRYPTING"} /\ upload[Shape[f].batch].status = "READY"
       \/ Held(Fin(f))'
  /\ file'[f].status = "STORED" => file[f].status = "STORED" \/ Held(Ana(f))'
  /\ f \in cipher' => f \in cipher \/ Held(Fin(f))'

SlotNews(s) ==
  slot'[s] # Idle => \A w \in Works : slot'[s].work = w =>
    /\ slot'[s].pc \in Attempting => Held(w)'
    /\ slot'[s].pc = "ack" /\ slot'[s].result = "completed" => Finished(w)'

LEMMA FileHeldStays ==
  ASSUME QueueInv, FilesInv, HeldInv, FilesKept, scenario' = scenario,
         UNCHANGED <<sent, jobs>>, outbox \subseteq outbox', NEW f \in Files, News(f)
  PROVE  FileHeld(f)'
<1>0. Fin(f) \in Works /\ Ana(f) \in Works /\ Fin(f)' = Fin(f) /\ Ana(f)' = Ana(f) /\ Shape' = Shape /\ FileHeld(f)
  BY FileWorks, Fixed DEF Fin, Ana, Work, HeldInv
<1>1. ASSUME file'[f].status \in {"COMPLETE", "ENCRYPTING"}, ~Listed(f), upload'[Shape[f].batch].status = "READY"
      PROVE  Held(Fin(f))'
  BY <1>0, <1>1, HeldStays DEF News, FileHeld
<1>2. ASSUME file'[f].status = "STORED" PROVE Row(f)' # {} \/ Held(Ana(f))'
  <2>1. CASE file[f].status = "STORED" /\ Row(f) # {}
    <3>1. Analysed(f)
      BY <2>1, FileFacts DEF StatusFits, Analysed
    <3> QED BY <3>1, AnalysedStays DEF Analysed, FilesKept
  <2> QED BY <1>0, <1>2, <2>1, HeldStays DEF News, FileHeld
<1>3. ASSUME f \in cipher' PROVE file'[f].status = "STORED" \/ Held(Fin(f))'
  BY <1>0, <1>3, HeldStays DEF News, FileHeld, FilesKept, Onward
<1> QED BY <1>0, <1>1, <1>2, <1>3 DEF FileHeld, Listed

LEMMA HeldStep ==
  ASSUME QueueInv, QueueInv', FilesInv, HeldInv, FilesKept, scenario' = scenario,
         UNCHANGED <<sent, jobs>>, outbox \subseteq outbox', \A f \in Files : News(f),
         \A s \in Slots : slot'[s] = slot[s] \/ SlotNews(s)
  PROVE  HeldInv'
<1>0. Files' = Files /\ Works' = Works
  BY Fixed
<1>1. \A f \in Files : FileHeld(f)'
  BY FileHeldStays
<1>2. ASSUME NEW w \in Works, Done(w)' PROVE Finished(w)'
  <2>1. CASE Done(w)
    BY <2>1, FinishedStays DEF HeldInv, FilesKept
  <2>2. CASE ~Done(w)
    <3>1. PICK s \in Slots : /\ slot'[s] # Idle /\ slot'[s].pc = "ack" /\ slot'[s].result = "completed"
                             /\ slot'[s].work = w
      BY <1>2, <2>2 DEF Done
    <3>2. slot'[s] # slot[s]
      BY <2>2, <3>1 DEF Done
    <3> QED BY <3>1, <3>2 DEF SlotNews
  <2> QED BY <2>1, <2>2
<1>3. ASSUME NEW s \in Slots, slot'[s] # Idle, slot'[s].pc \in Attempting, NEW w, w = slot'[s].work PROVE Held(w)'
  <2>1. w \in Works
    BY <1>0, <1>3 DEF QueueInv, SlotsOK, SlotFits, Idle
  <2>2. CASE slot'[s] = slot[s]
    BY <1>3, <2>1, <2>2, HeldStays DEF HeldInv, SlotHeld
  <2>3. CASE SlotNews(s)
    BY <1>3, <2>1, <2>3 DEF SlotNews
  <2> QED BY <2>2, <2>3
<1>4. \A s \in Slots : SlotHeld(s)'
  BY <1>3 DEF SlotHeld, Held, Pending, Newest, Open
<1> QED BY <1>0, <1>1, <1>2, <1>4 DEF HeldInv

-----------------------------------------------------------------------------
(* Steps of the queue: a job that ends unseen, or that is marked, is not    *)
(* the newest, or nothing waits for it.                                     *)

Passed(w) ==
  \/ Finished(w)
  \/ Over(w) /\ \A s \in Slots : Executing(s) => slot[s].work # w

LEMMA HeldQueue ==
  ASSUME QueueInv, QueueInv', FilesInv, HeldInv, UNCHANGED <<scenario, uploadVars>>,
         \A w \in Works : Held(w) => Held(w)' \/ Passed(w),
         \A w \in Works : \A n \in DOMAIN jobs'[w] : jobs'[w][n].state = "completed" => Done(w),
         \A s \in Slots : slot'[s] = slot[s] \/ slot'[s] = Idle \/ slot'[s].pc \in {"fetched", "work"}
  PROVE  HeldInv'
<1>0. /\ Files' = Files /\ Works' = Works /\ Shape' = Shape
      /\ UNCHANGED <<upload, file, analysis, cipher>>
  BY Fixed DEF uploadVars
<1>1. ASSUME NEW f \in Files PROVE FileHeld(f)'
  <2>1. /\ Fin(f) \in Works /\ Ana(f) \in Works /\ Fin(f)' = Fin(f) /\ Ana(f)' = Ana(f) /\ FileHeld(f)
        /\ Row(f)' = Row(f)
    BY <1>0, FileWorks DEF Fin, Ana, Work, HeldInv, Row
  <2>2. Passed(Fin(f)) => file[f].status = "STORED" \/ (file[f].status = "FAILED" /\ f \notin cipher)
    BY FileWorks DEF Passed, Finished, Over
  <2>3. Passed(Ana(f)) => Row(f) # {}
    BY FileWorks DEF Passed, Finished, Over, Analysed
  <2> QED BY <1>0, <2>1, <2>2, <2>3 DEF FileHeld, Listed
<1>2. ASSUME NEW w \in Works, Done(w)' PROVE Finished(w)'
  <2>1. Done(w)
    BY <1>2 DEF Done, Idle
  <2>2. Finished(w)
    BY <2>1 DEF HeldInv
  <2> QED BY <1>0, <2>2 DEF Finished, Analysed, Row
<1>3. ASSUME NEW s \in Slots, slot'[s] # Idle, slot'[s].pc \in Attempting, NEW w, w = slot'[s].work PROVE Held(w)'
  <2>1. slot'[s] = slot[s]
    BY <1>3 DEF Attempting
  <2>2. slot[s] # Idle /\ slot[s].pc \in Attempting /\ w = slot[s].work /\ w \in Works /\ Executing(s)
        /\ w.topic = "upload.finalize"
    BY <1>3, <2>1, SlotFacts DEF Attempting, Executing, SlotFits
  <2>3. Held(w)
    BY <2>2 DEF HeldInv, SlotHeld
  <2>4. file[w.obj].object = NoFile /\ w.obj \in Files
    BY <2>2, WorkFacts DEF FilesInv, SlotSees
  <2>5. ~Passed(w)
    BY <2>2, <2>4, FileFacts DEF Passed, Finished, StatusFits
  <2> QED BY <2>2, <2>3, <2>5
<1>4. \A s \in Slots : SlotHeld(s)'
  BY <1>3 DEF SlotHeld, Held, Pending, Newest, Open
<1> QED BY <1>0, <1>1, <1>2, <1>4 DEF HeldInv

(* A job is there when the work has a newest one.                           *)
LEMMA NewestFacts ==
  ASSUME QueueInv, NEW w \in Works, Len(jobs[w]) > 0
  PROVE  Len(jobs[w]) \in DOMAIN jobs[w] /\ Newest(w) \in JobRow
<1>1. jobs[w] \in Seq(JobRow)
  BY DEF QueueInv, JobsOK
<1>2. Len(jobs[w]) \in DOMAIN jobs[w]
  BY <1>1
<1> QED BY <1>1, <1>2 DEF Newest

LEMMA EditedHeld ==
  ASSUME QueueInv, UNCHANGED <<outbox, sent>>, NEW w \in Works, NEW n \in DOMAIN jobs[w], NEW job, Edited(w, n, job),
         NEW v \in Works, Held(v)
  PROVE  Held(v)' \/ (v = w /\ ~Open(job) /\ n = Len(jobs[w]) /\ ~Pending(w))
<1>1. CASE Pending(v)
  BY <1>1 DEF Held, Pending
<1>2. CASE ~Pending(v)
  <2>1. Len(jobs[v]) > 0 /\ Open(jobs[v][Len(jobs[v])])
    BY <1>2 DEF Held, Newest
  <2>2. Len(jobs[v]) \in DOMAIN jobs[v] /\ Len(jobs'[v]) = Len(jobs[v])
    BY <2>1, NewestFacts DEF Edited
  <2>3. jobs'[v][Len(jobs[v])] = IF v = w /\ Len(jobs[v]) = n THEN job ELSE jobs[v][Len(jobs[v])]
    BY <2>2 DEF Edited
  <2> QED BY <1>2, <2>1, <2>2, <2>3 DEF Held, Newest, Open
<1> QED BY <1>1, <1>2

LEMMA AppendedHeld ==
  ASSUME QueueInv, outbox' = outbox, NEW e \in outbox, sent' = sent \cup {e} \/ sent' = sent, Appended(e),
         NEW v \in Works, Held(v)
  PROVE  Held(v)'
<1>0. e.work \in Works /\ jobs[e.work] \in Seq(JobRow)
  BY EventFacts DEF QueueInv, EventsOK, JobsOK
<1>1. CASE v = e.work
  <2>1. Len(jobs'[v]) = Len(jobs[v]) + 1 /\ jobs'[v][Len(jobs[v]) + 1] = NewJob(e) /\ Len(jobs[v]) \in Nat
    BY <1>0, <1>1 DEF Appended
  <2>2. Open(NewJob(e))
    BY DEF Open, NewJob
  <2> QED BY <2>1, <2>2 DEF Held, Newest, Open
<1>2. CASE v # e.work
  <2>1. jobs'[v] = jobs[v]
    BY <1>2 DEF Appended
  <2>2. Pending(v) => Pending(v)'
    BY <1>2 DEF Pending
  <2> QED BY <2>1, <2>2 DEF Held, Newest, Open
<1> QED BY <1>1, <1>2

LEMMA DispatchHeld ==
  ASSUME QueueInv, FilesInv, HeldInv, NEW e \in outbox, Dispatch(e) \/ DispatchUnmarked(e), UNCHANGED <<scenario, uploadVars>>
  PROVE  HeldInv'
<1>1. QueueInv' /\ Appended(e) /\ UNCHANGED <<outbox, slot, rec>> /\ (sent' = sent \cup {e} \/ sent' = sent)
  BY DispatchQueue
<1>2. e.work \in Works
  BY EventFacts DEF QueueInv, EventsOK
<1>3. ASSUME NEW w \in Works, NEW n \in DOMAIN jobs'[w], jobs'[w][n].state = "completed" PROVE Done(w)
  <2>1. CASE w = e.work
    BY <1>1, <1>3, <2>1 DEF Appended, NewJob, Done
  <2>2. CASE w # e.work
    BY <1>1, <1>3, <2>2 DEF Appended, Done
  <2> QED BY <2>1, <2>2
<1> QED BY <1>1, <1>3, AppendedHeld, HeldQueue

(* A job is edited that is not over then.                                   *)
LEMMA AttemptHeld ==
  ASSUME QueueInv, QueueInv', FilesInv, HeldInv, UNCHANGED <<outbox, sent, scenario, uploadVars>>,
         NEW w \in Works, NEW n \in DOMAIN jobs[w], NEW job, Edited(w, n, job), job.state # "completed", ~job.marked,
         \A s \in Slots : slot'[s] = slot[s] \/ slot'[s] = Idle \/ slot'[s].pc \in {"fetched", "work"}
  PROVE  HeldInv'
<1>1. \A v \in Works : Held(v) => Held(v)'
  BY EditedHeld DEF Open
<1>2. \A v \in Works : \A m \in DOMAIN jobs'[v] : jobs'[v][m].state = "completed" => Done(v)
  BY DEF Edited, Done
<1> QED BY <1>1, <1>2, HeldQueue

LEMMA AckHeld ==
  ASSUME QueueInv, FilesInv, HeldInv, NEW s \in Slots, Ack(s), UNCHANGED <<scenario, uploadVars>>
  PROVE  HeldInv'
<1> DEFINE w == slot[s].work
           n == slot[s].n
<1>1. PICK job : /\ Edited(w, n, job)
                 /\ job.state = "completed" => jobs[w][n].state = "completed" \/ slot[s].result = "completed"
                 /\ job.marked = jobs[w][n].marked
  BY AckQueue
<1>2. /\ QueueInv' /\ UNCHANGED <<outbox, sent, rec>>
      /\ slot[s] # Idle /\ slot[s].pc = "ack" /\ w \in Works /\ n \in DOMAIN jobs[w]
      /\ slot'[s] = Idle /\ \A t \in Slots : t # s => slot'[t] = slot[t]
  BY AckQueue
<1>3. job.state = "completed" => Done(w)
  BY <1>1, <1>2 DEF Done
<1> HIDE DEF w, n
<1>4. ASSUME NEW v \in Works, Held(v) PROVE Held(v)' \/ Passed(v)
  <2>1. CASE v = w /\ ~Open(job) /\ n = Len(jobs[w]) /\ ~Pending(w)
    <3>1. Open(jobs[w][n])
      BY <1>4, <2>1 DEF Held, Newest
    <3>2. job.state = "completed"
      BY <1>1, <2>1, <3>1 DEF Open
    <3> QED BY <1>2, <1>3, <2>1, <3>2 DEF HeldInv, Passed
  <2> QED BY <1>1, <1>2, <1>4, <2>1, EditedHeld
<1>5. \A v \in Works : \A m \in DOMAIN jobs'[v] : jobs'[v][m].state = "completed" => Done(v)
  BY <1>1, <1>2, <1>3 DEF Edited, Done
<1> QED BY <1>2, <1>4, <1>5, HeldQueue

LEMMA QuietHeld ==
  ASSUME QueueInv, QueueInv', FilesInv, HeldInv, UNCHANGED <<outbox, sent, jobs, scenario, uploadVars>>,
         \A s \in Slots : slot'[s] = slot[s] \/ slot'[s] = Idle \/ slot'[s].pc \in {"fetched", "work"}
  PROVE  HeldInv'
<1>1. \A w \in Works : Held(w) => Held(w)'
  BY HeldStays
<1>2. \A v \in Works : \A m \in DOMAIN jobs'[v] : jobs'[v][m].state = "completed" => Done(v)
  BY DEF Done
<1> QED BY <1>1, <1>2, HeldQueue

LEMMA QueueStepHeld ==
  ASSUME QueueInv, FilesInv, HeldInv, UNCHANGED <<scenario, uploadVars>>,
         \/ QueueStep
         \/ \E e \in outbox : DispatchUnmarked(e)
         \/ \E w \in DOMAIN jobs : \E n \in DOMAIN jobs[w] : ExpireLate(w, n)
         \/ \E s \in Slots : Crash(s)
  PROVE  HeldInv'
<1>0. DOMAIN jobs = Works
  BY DEF QueueInv, JobsOK
<1>1. CASE \E e \in outbox : Dispatch(e) \/ DispatchUnmarked(e)
  BY <1>1, DispatchHeld
<1>2. ASSUME NEW s \in Slots, NEW w \in Works, NEW n \in DOMAIN jobs[w], Fetch(s, w, n) PROVE HeldInv'
  BY <1>2, FetchQueue, AttemptHeld
<1>3. ASSUME NEW w \in Works, NEW n \in DOMAIN jobs[w], Expire(w, n) \/ ExpireLate(w, n) PROVE HeldInv'
  BY <1>3, ExpireQueue, AttemptHeld
<1>4. ASSUME NEW s \in Slots, Begin(s) PROVE HeldInv'
  BY <1>4, BeginQueue, QuietHeld
<1>5. ASSUME NEW s \in Slots, Crash(s) PROVE HeldInv'
  BY <1>5, CrashQueue, QuietHeld
<1> QED BY <1>0, <1>1, <1>2, <1>3, <1>4, <1>5, AckHeld DEF QueueStep, DispatcherStep, Take, Expiry

(* A failed job is marked while nothing waits for it.                       *)
LEMMA BeginReconciliationHeld ==
  ASSUME QueueInv, FilesInv, HeldInv, NEW w \in Works, NEW n \in DOMAIN jobs[w], BeginReconciliation(w, n),
         UNCHANGED <<scenario, uploadVars>>
  PROVE  HeldInv'
<1>1. /\ QueueInv' /\ UNCHANGED <<outbox, sent, slot>>
      /\ \/ \E job : Edited(w, n, job) /\ job.marked /\ Superseded(w, n) /\ rec' = RecIdle
                     /\ job.state # "completed"
         \/ jobs' = jobs
  BY BeginReconciliationQueue
<1>2. CASE jobs' = jobs
  BY <1>1, <1>2, QuietHeld
<1>3. ASSUME NEW job, Edited(w, n, job), Superseded(w, n), job.state # "completed" PROVE HeldInv'
  <2>1. n # Len(jobs[w]) \/ Pending(w)
    BY <1>3 DEF Superseded
  <2>2. \A v \in Works : Held(v) => Held(v)'
    BY <1>1, <1>3, <2>1, EditedHeld
  <2>3. \A v \in Works : \A m \in DOMAIN jobs'[v] : jobs'[v][m].state = "completed" => Done(v)
    BY <1>3 DEF Edited, Done
  <2> QED BY <1>1, <2>2, <2>3, HeldQueue
<1> QED BY <1>1, <1>2, <1>3

LEMMA EndReconciliationHeld ==
  ASSUME QueueInv, FilesInv, HeldInv, EndReconciliation, UNCHANGED <<scenario, uploadVars>>
  PROVE  HeldInv'
<1> DEFINE w == rec.work
<1>1. PICK job : Edited(w, rec.n, job) /\ job.marked /\ job.state # "completed"
  BY EndReconciliationQueue
<1>2. /\ QueueInv' /\ UNCHANGED <<outbox, sent, slot>> /\ w \in Works /\ rec.n \in DOMAIN jobs[w]
      /\ rec # RecIdle /\ rec.pc = "record"
  BY EndReconciliationQueue
<1>3. Over(w) /\ \A s \in Slots : Executing(s) => slot[s].work # w
  <2>1. RecSees
    BY DEF FilesInv
  <2> QED BY <1>2, <2>1, RecFacts DEF Over, Analysed, RecSees
<1> HIDE DEF w
<1>4. \A v \in Works : Held(v) => Held(v)' \/ Passed(v)
  BY <1>1, <1>2, <1>3, EditedHeld DEF Passed
<1>5. \A v \in Works : \A m \in DOMAIN jobs'[v] : jobs'[v][m].state = "completed" => Done(v)
  BY <1>1, <1>2 DEF Edited, Done
<1> QED BY <1>2, <1>4, <1>5, HeldQueue

LEMMA LostHeld ==
  ASSUME QueueInv, FilesInv, HeldInv, ReconciliationLost, UNCHANGED uploadVars
  PROVE  HeldInv'
BY LostQueue, QuietHeld

-----------------------------------------------------------------------------
(* Steps that leave the jobs alone: the slots, one file at a time.          *)

(* The handler of s moved on.                                               *)
LEMMA HandlerHeld ==
  ASSUME QueueInv, QueueInv', FilesInv, HeldInv, FilesKept, scenario' = scenario,
         UNCHANGED <<sent, jobs>>, outbox \subseteq outbox', \A f \in Files : News(f),
         NEW s \in Slots, Moved(s), slot[s] # Idle,
         slot'[s].pc \in Attempting => Held(slot[s].work),
         slot'[s].pc = "ack" /\ slot'[s].result = "completed" => \A w \in Works : slot[s].work = w => Finished(w)'
  PROVE  HeldInv'
<1>1. SlotNews(s)
  BY HeldStays, SlotFacts DEF SlotNews, Moved
<1>2. \A t \in Slots : slot'[t] = slot[t] \/ SlotNews(t)
  BY <1>1 DEF Moved
<1> QED BY <1>2, HeldStep

(* Nothing new to hold.                                                     *)
LEMMA NoNews ==
  ASSUME \A b \in Batches : upload'[b].status = "READY" => upload[b].status = "READY",
         scenario \in Scenarios, NEW f \in Files,
         \/ file'[f].status = file[f].status
         \/ file'[f].status \notin {"COMPLETE", "ENCRYPTING", "STORED"}
         \/ file'[f].status = "ENCRYPTING" /\ file[f].status \in {"COMPLETE", "ENCRYPTING"}
         \/ file'[f].status # "STORED" /\ upload'[Shape[f].batch].status # "READY",
         f \in cipher' => f \in cipher \/ Held(Fin(f))'
  PROVE  News(f)
<1>1. Shape[f].batch \in Batches
  BY ShapeFacts
<1> QED BY <1>1 DEF News

-----------------------------------------------------------------------------
(* What a batch shows is as true as it was when nothing of it changes.      *)

Out == {"ABSENT", "FAILED"}
Calm(b) ==
  /\ Analyzed(analysis', b) = Analyzed(analysis, b)
  /\ \A f \in Files : Shape[f].batch = b => /\ file'[f].object = file[f].object
                                            /\ file'[f].status \in Out <=> file[f].status \in Out

Tranquil(b) ==
  /\ imp'[b] \in {imp[b], "CANCELLED", "UPLOADING"}
  /\ imp'[b] = "ANALYZING" /\ upload[b].status = "READY" => Calm(b)

LEMMA DuplicatedStays ==
  ASSUME Onward, scenario' = scenario, NEW b \in Batches, Duplicated(b),
         \A f \in Files : file[f].object # NoFile => file'[f].object = file[f].object
  PROVE  Duplicated(b)'
<1>1. Of(b) \subseteq Of(b)'
  BY Fixed DEF Of, Onward
<1>2. PICK f, g \in Of(b) : f # g /\ file[f].object = file[g].object /\ file[f].object # NoFile
  BY DEF Duplicated
<1>3. f \in Files /\ g \in Files
  BY <1>2 DEF Of
<1> QED BY <1>1, <1>2, <1>3 DEF Duplicated

LEMMA ObjectsStay ==
  ASSUME QueueInv, FilesInv, Onward, NEW f \in Files, file[f].object # NoFile
  PROVE  file'[f].object = file[f].object
BY ObjectFacts DEF Onward

LEMMA CalmSettles ==
  ASSUME QueueInv, FilesInv, Onward, scenario' = scenario, NEW b \in Batches, Tranquil(b)
  PROVE  Settled(b)
<1>1. SUFFICES ASSUME imp'[b] = "ANALYZING", Counted(b) PROVE Counted(b)'
  BY DEF Settled, Tranquil, Counted
<1>2. imp[b] = "ANALYZING" /\ upload[b].status = "READY" /\ Calm(b)
  BY <1>1 DEF Tranquil, FilesInv, BatchFits
<1>3. Covered(analysis, b)' = Covered(analysis, b)
  BY <1>2 DEF Covered, Calm
<1>4. Expected(file, b)' = Expected(file, b)
  <2>1. Usable(file', b) = Usable(file, b)
    BY <1>2 DEF Usable, Calm, Out
  <2>2. \A f \in Usable(file, b) : Identity(file', f) = Identity(file, f)
    BY <1>2 DEF Usable, Calm, Identity
  <2>3. Expected(file', b) = Expected(file, b)
    BY <2>1, <2>2 DEF Expected
  <2>4. Expected(file, b)' = Expected(file', b)
    BY Fixed DEF Expected, Usable, Identity
  <2> QED BY <2>3, <2>4
<1>5. Duplicated(b) => Duplicated(b)'
  BY ObjectsStay, DuplicatedStays
<1> QED BY <1>1, <1>2, <1>3, <1>4, <1>5 DEF Counted

Progress == HeldInv' /\ \A b \in Batches : Settled(b)

(* Steps that leave rows and files alone, as far as it matters here.        *)
LEMMA SameCalm ==
  ASSUME UNCHANGED <<imp, analysis>>, \A f \in Files : file'[f].status = file[f].status /\ file'[f].object = file[f].object,
         NEW b \in Batches
  PROVE  Tranquil(b)
BY DEF Tranquil, Calm

LEMMA StagingProgress ==
  ASSUME QueueInv, FilesInv, HeldInv, FilesKept, UNCHANGED <<queueVars, scenario, cipher>>,
         \A b \in Batches : upload'[b].status = "READY" => upload[b].status = "READY",
         \A f \in Files : \/ file'[f].status = file[f].status
                          \/ file'[f].status \notin {"COMPLETE", "ENCRYPTING", "STORED"}
                          \/ file'[f].status # "STORED" /\ upload'[Shape[f].batch].status # "READY",
         \A b \in Batches : Tranquil(b) \/ Settled(b)
  PROVE  Progress
<1>1. QueueInv' /\ UNCHANGED <<sent, jobs, slot, outbox>>
  BY StutterQueue DEF queueVars
<1>2. \A f \in Files : News(f)
  BY NoNews DEF QueueInv
<1>3. HeldInv'
  BY <1>1, <1>2, HeldStep
<1> QED BY <1>3, CalmSettles DEF Progress, FilesKept

(* The queue's own steps.                                                   *)
LEMMA QueueProgress ==
  ASSUME QueueInv, FilesInv, HeldInv', FilesKept, UNCHANGED <<scenario, uploadVars>>
  PROVE  Progress
<1>1. UNCHANGED <<imp, analysis, file>>
  BY DEF uploadVars
<1> QED BY <1>1, SameCalm, CalmSettles DEF Progress, FilesKept

-----------------------------------------------------------------------------
(* The requests.                                                            *)

LEMMA IdleProgress ==
  ASSUME QueueInv, FilesInv, HeldInv, FilesKept, UNCHANGED <<queueVars, scenario>>,
         UNCHANGED <<imp, analysis, cipher>>,
         \A b \in Batches : upload'[b].status = "READY" => upload[b].status = "READY",
         \A f \in Files : file'[f].status = file[f].status /\ file'[f].object = file[f].object
  PROVE  Progress
BY SameCalm, StagingProgress

LEMMA TickProgress ==
  ASSUME QueueInv, FilesInv, HeldInv, FilesKept, NEW b \in Batches, Tick(b), UNCHANGED <<queueVars, scenario>>
  PROVE  Progress
<1>1. \A c \in Batches : upload'[c].status = upload[c].status
  BY DEF Tick, FilesInv, RowsOK, UploadRow
<1> QED BY <1>1, IdleProgress DEF Tick

LEMMA RequestProgress ==
  ASSUME QueueInv, FilesInv, HeldInv, FilesKept, UNCHANGED <<queueVars, scenario>>,
         \/ \E q \in Requests, f \in Files, len \in ChunkLengths : StageChunk(q, f, len)
         \/ \E q \in Requests : DropChunk(q)
         \/ \E b \in Batches, S \in SUBSET Files : RemoveAgain(b, S)
         \/ \E f \in Files : CleanUpLost(f)
  PROVE  Progress
<1>1. UNCHANGED <<imp, analysis, cipher, upload, file>>
  BY DEF StageChunk, DropChunk, RemoveAgain, CleanUpLost
<1> QED BY <1>1, IdleProgress

LEMMA CleanUpProgress ==
  ASSUME QueueInv, FilesInv, HeldInv, FilesKept, NEW f \in Files, CleanUp(f), UNCHANGED <<queueVars, scenario>>
  PROVE  Progress
<1>1. UNCHANGED <<imp, analysis, cipher, upload>> /\ file' = [file EXCEPT ![f].temp = FALSE]
  BY DEF CleanUp
<1>2. \A g \in Files : file'[g].status = file[g].status /\ file'[g].object = file[g].object
  BY <1>1 DEF FilesInv, RowsOK, FileRow
<1> QED BY <1>1, <1>2, IdleProgress

LEMMA CreateBatchProgress ==
  ASSUME QueueInv, FilesInv, HeldInv, FilesKept, NEW b \in Batches, CreateBatch(b), UNCHANGED <<queueVars, scenario>>
  PROVE  Progress
<1>1. /\ UNCHANGED <<file, analysis, cipher>>
      /\ imp' = [imp EXCEPT ![b] = "UPLOADING"] /\ upload' = [upload EXCEPT ![b].status = "OPEN"]
  BY DEF CreateBatch
<1>2. \A c \in Batches : (upload'[c].status = "READY" => upload[c].status = "READY") /\ imp'[c] \in {imp[c], "UPLOADING"}
  BY <1>1 DEF FilesInv, RowsOK, UploadRow
<1>3. \A c \in Batches : Tranquil(c)
  BY <1>1, <1>2 DEF Tranquil, Calm
<1> QED BY <1>1, <1>2, <1>3, StagingProgress

LEMMA RegisterProgress ==
  ASSUME QueueInv, FilesInv, HeldInv, FilesKept, NEW b \in Batches, NEW S \in SUBSET {f \in Files : Shape[f].batch = b},
         CreateBatchWithFiles(b, S) \/ CreateFiles(b, S), UNCHANGED <<queueVars, scenario>>
  PROVE  Progress
<1>1. /\ Register(b, S) /\ upload[b].status \in {"ABSENT", "OPEN", "UPLOADING"} /\ cipher' = cipher
      /\ imp' = imp \/ imp' = [imp EXCEPT ![b] = "UPLOADING"]
      /\ analysis' = analysis \cup {[batch |-> b, object |-> f, status |-> "EXCLUDED"] : f \in {g \in S : Listed(g)}}
  BY DEF CreateBatchWithFiles, CreateFiles, Register
<1>2. S \subseteq Files /\ Registered(b, S)
  BY <1>1, RegisterRows
<1>3. \A c \in Batches : (upload'[c].status = "READY" => upload[c].status = "READY")
  BY <1>2 DEF Registered
<1>4. \A f \in Files : file'[f].status = file[f].status \/ (file'[f].status # "STORED" /\ upload'[Shape[f].batch].status # "READY")
  BY <1>2 DEF Registered
<1>5. ASSUME NEW c \in Batches PROVE Tranquil(c)
  <2>1. imp'[c] \in {imp[c], "UPLOADING"}
    BY <1>1 DEF FilesInv, RowsOK
  <2>2. CASE c = b
    BY <1>1, <2>1, <2>2 DEF Tranquil
  <2>3. CASE c # b
    <3>1. Analyzed(analysis', c) = Analyzed(analysis, c)
      BY <1>1, <2>3 DEF Analyzed
    <3>2. \A f \in Files : Shape[f].batch = c => file'[f] = file[f]
      BY <1>2, <2>3 DEF Registered
    <3> QED BY <2>1, <3>1, <3>2 DEF Tranquil, Calm
  <2> QED BY <2>2, <2>3
<1> QED BY <1>1, <1>3, <1>4, <1>5, StagingProgress

LEMMA CommitChunkProgress ==
  ASSUME QueueInv, FilesInv, HeldInv, FilesKept, NEW q \in Requests, CommitChunk(q), UNCHANGED <<queueVars, scenario>>
  PROVE  Progress
<1> DEFINE f == inflight[q].file
<1>1. Committed(q) /\ UNCHANGED <<imp, analysis, cipher>>
  BY CommitChunkRows DEF CommitChunk
<1>2. \A c \in Batches : upload'[c].status = upload[c].status
  BY <1>1 DEF Committed
<1>3. /\ f \in Files /\ file[f].status \in {"PENDING", "UPLOADING"} /\ file'[f].status \in {"COMPLETE", "UPLOADING"}
      /\ file'[f].object = file[f].object /\ \A g \in Files : g # f => file'[g] = file[g]
      /\ upload'[Shape[f].batch].status # "READY"
  BY <1>1 DEF Committed
<1> HIDE DEF f
<1>4. \A c \in Batches : Tranquil(c)
  BY <1>1, <1>3 DEF Tranquil, Calm, Out
<1> QED BY <1>1, <1>2, <1>3, <1>4, StagingProgress

-----------------------------------------------------------------------------
(* What is taken back: the files S fail, their budgets return.              *)

TookBack(S) ==
  /\ file' = Failing(S) /\ upload' \in [Batches -> UploadRow] /\ \A f \in S : file[f].status # "ABSENT"
  /\ \A b \in Batches :
       /\ upload'[b].declared = upload[b].declared /\ upload'[b].received = upload[b].received
       /\ upload'[b].expanded = upload[b].expanded - EntryBytes(Back(S, b))
       /\ upload'[b].count = upload[b].count - EntryCount(Back(S, b))
       /\ \/ upload'[b].status = upload[b].status
          \/ upload[b].status \in {"OPEN", "UPLOADING"} /\ upload'[b].status \in {"CANCELLED", "EXPIRED"}

LEMMA CancelTakes ==
  ASSUME QueueInv, FilesInv, NEW b \in Batches, CancelBatch(b)
  PROVE  /\ \E S \in SUBSET Files : TookBack(S) /\ \A f \in S : Shape[f].batch = b
         /\ imp'[b] \in {imp[b], "CANCELLED"} /\ imp'[b] # "ANALYZING" /\ \A c \in Batches : c # b => imp'[c] = imp[c]
<1> DEFINE S == {f \in Of(b) : file[f].temp}
           rel == Released(upload, S)
           st == IF rel[b].status \in {"OPEN", "UPLOADING"} THEN "CANCELLED" ELSE rel[b].status
           row == [rel[b] EXCEPT !.status = st]
<1>0. S \in SUBSET Files /\ \A f \in S : Shape[f].batch = b /\ file[f].status # "ABSENT"
  BY DEF Of
<1>1. rel \in [Batches -> UploadRow]
      /\ \A c \in Batches : LET r == rel[c]
                            IN  /\ r.status = upload[c].status /\ r.declared = upload[c].declared
                                /\ r.received = upload[c].received /\ r.due = upload[c].due
                                /\ r.expanded = upload[c].expanded - EntryBytes(Back(S, c))
                                /\ r.count = upload[c].count - EntryCount(Back(S, c))
  BY <1>0, ReleasedFacts DEF QueueInv, FilesInv, RowsOK
<1>2. /\ upload' = [rel EXCEPT ![b] = row] /\ file' = Failing(S)
      /\ imp' = [imp EXCEPT ![b] = IF @ \in {"UPLOADING", "ANALYZING", "FAILED"} THEN "CANCELLED" ELSE @]
  BY DEF CancelBatch
<1>3. imp'[b] \in {imp[b], "CANCELLED"} /\ imp'[b] # "ANALYZING" /\ \A c \in Batches : c # b => imp'[c] = imp[c]
  BY <1>2 DEF FilesInv, RowsOK
<1> HIDE DEF S, rel
<1>4. st \in UploadStatus /\ rel[b] \in UploadRow
      /\ (st = upload[b].status \/ (upload[b].status \in {"OPEN", "UPLOADING"} /\ st = "CANCELLED"))
  BY <1>1 DEF UploadRow, UploadStatus
<1> HIDE DEF st
<1>5. /\ row \in UploadRow /\ row.status = st /\ row.declared = rel[b].declared /\ row.received = rel[b].received
      /\ row.expanded = rel[b].expanded /\ row.count = rel[b].count
  BY <1>4 DEF UploadRow
<1> HIDE DEF row
<1>6. TookBack(S)
  <2>1. upload' \in [Batches -> UploadRow] /\ upload'[b] = row /\ \A c \in Batches : c # b => upload'[c] = rel[c]
    BY <1>1, <1>2, <1>5
  <2> QED BY <1>0, <1>1, <1>2, <1>4, <1>5, <2>1 DEF TookBack
<1> QED BY <1>0, <1>3, <1>6

LEMMA ExpireTakes ==
  ASSUME QueueInv, FilesInv, ExpireStaging
  PROVE  /\ \E S \in SUBSET Files : /\ TookBack(S)
                                    /\ \A f \in S : file[f].status = "FAILED" \/ upload[Shape[f].batch].status # "READY"
         /\ imp' = imp
<1> DEFINE S == {f \in Files : LeftOver(f)}
           row(b) == IF Expiring(b) THEN [upload[b] EXCEPT !.status = "EXPIRED"] ELSE upload[b]
           expired == [b \in Batches |-> row(b)]
<1>0. S \in SUBSET Files /\ upload \in [Batches -> UploadRow]
  BY DEF FilesInv, RowsOK
<1>1. ASSUME NEW b \in Batches
      PROVE  /\ row(b) \in UploadRow /\ row(b).status = IF Expiring(b) THEN "EXPIRED" ELSE upload[b].status
             /\ row(b).declared = upload[b].declared /\ row(b).received = upload[b].received
             /\ row(b).expanded = upload[b].expanded /\ row(b).count = upload[b].count
  <2>1. upload[b] \in UploadRow
    BY <1>0
  <2> QED BY <2>1 DEF UploadRow, UploadStatus
<1>2. upload' = Released(expired, S) /\ file' = Failing(S) /\ imp' = imp
  BY DEF ExpireStaging
<1>3. \A f \in S : /\ file[f].status = "FAILED" \/ upload[Shape[f].batch].status # "READY"
                  /\ file[f].status # "ABSENT"
  BY FileFacts DEF LeftOver, Expiring, StatusFits
<1> HIDE DEF row, S
<1>4. expired \in [Batches -> UploadRow] /\ \A b \in Batches : expired[b] = row(b)
  BY <1>1
<1> HIDE DEF expired
<1>5. TookBack(S)
  <2>1. /\ upload' \in [Batches -> UploadRow]
        /\ \A b \in Batches : LET r == upload'[b]
                              IN  /\ r.status = expired[b].status /\ r.declared = expired[b].declared
                                  /\ r.received = expired[b].received
                                  /\ r.expanded = expired[b].expanded - EntryBytes(Back(S, b))
                                  /\ r.count = expired[b].count - EntryCount(Back(S, b))
    BY <1>0, <1>2, <1>4, ReleasedFacts DEF QueueInv
  <2> QED BY <1>1, <1>2, <1>3, <1>4, <2>1 DEF TookBack, Expiring
<1> QED BY <1>0, <1>2, <1>3, <1>5

LEMMA TakenBackProgress ==
  ASSUME QueueInv, FilesInv, HeldInv, FilesKept, UNCHANGED <<queueVars, scenario, analysis, cipher>>,
         NEW S \in SUBSET Files, TookBack(S),
         \A f \in S : \/ file[f].status = "FAILED" \/ upload[Shape[f].batch].status # "READY"
                      \/ imp'[Shape[f].batch] # "ANALYZING",
         \A b \in Batches : imp'[b] \in {imp[b], "CANCELLED"}
  PROVE  Progress
<1>1. \A f \in Files : /\ file'[f].object = file[f].object /\ (file'[f].status = file[f].status \/ file'[f].status = "FAILED")
                       /\ f \notin S => file'[f] = file[f]
                       /\ file[f].status = "FAILED" => file'[f].status = "FAILED"
  BY FailingRows DEF TookBack, Failed
<1>2. \A c \in Batches : Tranquil(c)
  <2> SUFFICES ASSUME NEW c \in Batches, imp'[c] = "ANALYZING", upload[c].status = "READY" PROVE Calm(c)
    BY DEF Tranquil
  <2>1. ASSUME NEW f \in Files, Shape[f].batch = c PROVE file'[f].status \in Out <=> file[f].status \in Out
    <3>1. CASE f \in S
      BY <1>1, <2>1, <3>1
    <3>2. CASE f \notin S
      BY <1>1, <3>2
    <3> QED BY <3>1, <3>2
  <2> QED BY <1>1, <2>1 DEF Calm
<1>3. \A b \in Batches : upload'[b].status = "READY" => upload[b].status = "READY"
  BY DEF TookBack
<1> QED BY <1>1, <1>2, <1>3, StagingProgress

LEMMA CancelProgress ==
  ASSUME QueueInv, FilesInv, HeldInv, FilesKept, NEW b \in Batches, CancelBatch(b), UNCHANGED <<queueVars, scenario>>
  PROVE  Progress
BY CancelTakes, TakenBackProgress DEF CancelBatch

LEMMA ExpireProgress ==
  ASSUME QueueInv, FilesInv, HeldInv, FilesKept, ExpireStaging, UNCHANGED <<queueVars, scenario>>
  PROVE  Progress
BY ExpireTakes, TakenBackProgress DEF ExpireStaging

-----------------------------------------------------------------------------
(* Files the user takes off the list.                                       *)

Removed(b, S) ==
  LET new == S \ withdrawn
  IN  /\ S \subseteq Of(b) /\ upload' \in [Batches -> UploadRow] /\ file' = Failing(S)
      /\ upload[b].status = "UPLOADING" /\ upload'[b].status \in {"CANCELLED", "UPLOADING"}
      /\ upload'[b].declared = upload[b].declared - Sizes(new)
      /\ upload'[b].received = upload[b].received - Received(new)
      /\ upload'[b].count = upload[b].count - Cardinality(new)
      /\ upload'[b].expanded = upload[b].expanded
      /\ \A c \in Batches : c # b => upload'[c] = upload[c]
      /\ \A f \in S : /\ file[f].status \notin {"ABSENT", "ENCRYPTING", "STORED"} /\ file[f].object = NoFile
                      /\ file[f].resv = "NONE"
      /\ withdrawn' = withdrawn \cup S

LEMMA RemoveRows ==
  ASSUME QueueInv, FilesInv, NEW b \in Batches, NEW S \in SUBSET {f \in Files : Shape[f].batch = b}, RemoveFiles(b, S)
  PROVE  Removed(b, S)
<1> DEFINE new == S \ withdrawn
           over == \A f \in Of(b) \ S : file[f].status = "FAILED"
           d == upload[b].declared - Sizes(new)
           r == upload[b].received - Received(new)
           n == upload[b].count - Cardinality(new)
           st == IF over THEN "CANCELLED" ELSE upload[b].status
           row == [upload[b] EXCEPT !.declared = d, !.received = r, !.count = n, !.status = st]
<1>0. S \in SUBSET Files /\ new \in SUBSET Files
  OBVIOUS
<1>1. /\ S \subseteq Of(b) /\ upload[b].status = "UPLOADING"
      /\ \A f \in S : file[f].object = NoFile /\ file[f].status # "ENCRYPTING" /\ file[f].resv = "NONE"
      /\ upload' = [upload EXCEPT ![b] = row] /\ file' = Failing(S) /\ withdrawn' = withdrawn \cup S
  BY DEF RemoveFiles, NewlyRemoved
<1>2. /\ Sizes(new) \in Nat /\ Received(new) \in Nat /\ Cardinality(new) \in Nat
      /\ upload \in [Batches -> UploadRow] /\ upload[b] \in UploadRow
  BY <1>0, Amounts, ReceivedNat, EntriesFinite DEF QueueInv, FilesInv, RowsOK
<1> HIDE DEF new, over
<1>3. d \in Int /\ r \in Int /\ n \in Int /\ st \in {"CANCELLED", "UPLOADING"}
  BY <1>1, <1>2 DEF UploadRow
<1> HIDE DEF d, r, n, st
<1>4. row \in UploadRow /\ row.status = st /\ row.declared = d /\ row.received = r /\ row.count = n
      /\ row.expanded = upload[b].expanded
  BY <1>2, <1>3 DEF UploadRow, UploadStatus
<1> HIDE DEF row
<1>5. /\ upload' \in [Batches -> UploadRow] /\ upload'[b] = row
      /\ \A c \in Batches : c # b => upload'[c] = upload[c]
  BY <1>1, <1>2, <1>4
<1>6. \A f \in S : file[f].status # "ABSENT" /\ file[f].status # "STORED"
  BY <1>0, <1>1, FileFacts DEF Of, StatusFits
<1> QED BY <1>1, <1>3, <1>4, <1>5, <1>6 DEF Removed, d, r, n, new

LEMMA RemoveProgress ==
  ASSUME QueueInv, FilesInv, HeldInv, FilesKept, NEW b \in Batches, NEW S \in SUBSET {f \in Files : Shape[f].batch = b},
         RemoveFiles(b, S), UNCHANGED <<queueVars, scenario>>
  PROVE  Progress
<1>0. Removed(b, S) /\ S \in SUBSET Files
  BY RemoveRows
<1>1. /\ cipher' = cipher /\ analysis' = {a \in analysis : ~(a.batch = b /\ a.object \in S)}
      /\ imp' = [imp EXCEPT ![b] = "CANCELLED"] \/ imp' = imp
  BY DEF RemoveFiles
<1>2. \A f \in Files : /\ file'[f].status = file[f].status \/ file'[f].status = "FAILED"
                       /\ f \notin S => file'[f] = file[f]
  BY <1>0, FailingRows DEF Removed, Failed
<1>3. \A c \in Batches : upload'[c].status = "READY" => upload[c].status = "READY"
  BY <1>0 DEF Removed
<1>4. ASSUME NEW c \in Batches PROVE Tranquil(c)
  <2>1. imp'[c] \in {imp[c], "CANCELLED"}
    BY <1>1 DEF FilesInv, RowsOK
  <2>2. CASE c = b
    BY <1>0, <2>1, <2>2 DEF Tranquil, Removed
  <2>3. CASE c # b
    <3>1. Analyzed(analysis', c) = Analyzed(analysis, c)
      BY <1>1, <2>3 DEF Analyzed
    <3>2. \A f \in Files : Shape[f].batch = c => file'[f] = file[f]
      BY <1>2, <2>3
    <3> QED BY <2>1, <3>1, <3>2 DEF Tranquil, Calm
  <2> QED BY <2>2, <2>3
<1> QED BY <1>1, <1>2, <1>3, <1>4, StagingProgress

-----------------------------------------------------------------------------
(* Steps that decide the preflight.                                         *)

LEMMA PreflightDecides ==
  ASSUME QueueInv, FilesInv, scenario' = scenario, NEW b \in Batches, imp' = Preflight(imp, file', analysis', b),
         upload[b].status \in {"OPEN", "UPLOADING", "READY"},
         \A a \in analysis' : a.batch = b /\ Listed(a.object) =>
           a \in analysis /\ (file[a.object].status = "COMPLETE" => file'[a.object].status = "COMPLETE")
  PROVE  /\ imp[b] \in {"UPLOADING", "ANALYZING"} => Decided(b)
         /\ imp[b] \notin {"UPLOADING", "ANALYZING"} => imp' = imp
         /\ \A c \in Batches : c # b => imp'[c] = imp[c]
<1>1. \A c \in Batches : c # b => imp'[c] = imp[c]
  BY PreflightFacts DEF FilesInv
<1>2. ASSUME imp[b] \in {"UPLOADING", "ANALYZING"} PROVE Decided(b)
  <2>1. BatchFits(b)
    BY DEF FilesInv
  <2>2. \A a \in analysis' : a.batch = b /\ Listed(a.object) => file'[a.object].status = "COMPLETE"
    BY <1>2, <2>1 DEF BatchFits
  <2>3. imp'[b] = DecidePreflight(Cardinality(Expected(file', b)), Cardinality(Analyzed(analysis', b)),
                                  Cardinality({a \in Analyzed(analysis', b) : a.status = "PARSED"}))
    BY <1>2 DEF Preflight, FilesInv, RowsOK
  <2> QED BY <1>2, <2>2, <2>3 DEF Decided
<1>3. imp[b] \notin {"UPLOADING", "ANALYZING"} => imp' = imp
  BY DEF Preflight
<1> QED BY <1>1, <1>2, <1>3

(* A failure recorded.                                                      *)
LEMMA FailureSettles ==
  ASSUME QueueInv, FilesInv, Onward, scenario' = scenario, NEW f \in Files, file[f].status \notin {"ABSENT", "STORED"},
         Listed(f) => file[f].status = "FAILED", RecordUploadFileFailure(f), analysis' = analysis
  PROVE  /\ \A b \in Batches : Settled(b)
         /\ \A g \in Files : file'[g].status = file[g].status \/ file'[g].status = "FAILED"
         /\ \A b \in Batches : upload'[b].status = upload[b].status
<1> DEFINE b == Shape[f].batch
<1>0. b \in Batches /\ {f} \in SUBSET Files
  BY ShapeFacts DEF QueueInv
<1>1. /\ file' = Failing({f}) /\ upload' = Released(upload, {f})
      /\ imp' = IF upload[b].status = "READY" THEN Preflight(imp, Failing({f}), analysis, b) ELSE imp
  BY DEF RecordUploadFileFailure
<1>2. /\ file'[f].status = "FAILED" /\ file'[f].object = file[f].object
      /\ \A g \in Files : g # f => file'[g] = file[g]
  <2>1. Failed({f}) = {f}
    BY DEF Failed
  <2> QED BY <1>0, <1>1, <2>1, FailingRows
<1>3. \A c \in Batches : upload'[c].status = upload[c].status
  BY <1>0, <1>1, ReleasedFacts DEF QueueInv, FilesInv, RowsOK
<1>4. \A c \in Batches : c # b => imp'[c] = imp[c]
  BY <1>0, <1>1, PreflightFacts DEF FilesInv
<1> HIDE DEF b
<1>5. ASSUME NEW c \in Batches, c # b PROVE Settled(c)
  <2>1. \A g \in Files : Shape[g].batch = c => file'[g] = file[g]
    BY <1>2, <1>5 DEF b
  <2>2. Tranquil(c)
    BY <1>4, <1>5, <2>1 DEF Tranquil, Calm
  <2> QED BY <2>2, CalmSettles
<1>6. Settled(b)
  <2>1. CASE upload[b].status # "READY"
    <3>1. Tranquil(b)
      BY <1>1, <2>1 DEF Tranquil
    <3> QED BY <1>0, <3>1, CalmSettles
  <2>2. CASE upload[b].status = "READY"
    <3>1. imp' = Preflight(imp, file', analysis', b)
      BY <1>1, <2>2
    <3>2. ASSUME NEW a \in analysis', Listed(a.object), file[a.object].status = "COMPLETE"
          PROVE  file'[a.object].status = "COMPLETE"
      <4>1. a.object \in Files
        BY <3>2, ListedRow
      <4> QED BY <1>2, <3>2, <4>1
    <3>3. CASE imp[b] \in {"UPLOADING", "ANALYZING"}
      <4>1. Decided(b)
        BY <1>0, <2>2, <3>1, <3>2, <3>3, PreflightDecides
      <4> QED BY <4>1 DEF Settled
    <3>4. CASE imp[b] \notin {"UPLOADING", "ANALYZING"}
      <4>1. Tranquil(b)
        BY <3>1, <3>4 DEF Preflight, Tranquil
      <4> QED BY <1>0, <4>1, CalmSettles
    <3> QED BY <3>3, <3>4
  <2> QED BY <2>1, <2>2
<1> QED BY <1>2, <1>3, <1>5, <1>6

LEMMA FailFileProgress ==
  ASSUME QueueInv, FilesInv, HeldInv, FilesKept, NEW f \in Files, FailFile(f), UNCHANGED <<queueVars, scenario>>
  PROVE  Progress
<1>1. /\ file[f].status \in {"PENDING", "UPLOADING", "FAILED"} /\ RecordUploadFileFailure(f)
      /\ UNCHANGED <<analysis, cipher>>
  BY DEF FailFile, Failable
<1>2. Listed(f) => file[f].status = "FAILED"
  BY <1>1, FileFacts DEF StatusFits
<1>3. /\ \A b \in Batches : Settled(b)
      /\ \A g \in Files : file'[g].status = file[g].status \/ file'[g].status = "FAILED"
      /\ \A b \in Batches : upload'[b].status = upload[b].status
  BY <1>1, <1>2, FailureSettles DEF FilesKept
<1> QED BY <1>1, <1>3, StagingProgress

LEMMA CompleteProgress ==
  ASSUME QueueInv, FilesInv, HeldInv, FilesKept, NEW b \in Batches, CompleteBatch(b), scenario' = scenario
  PROVE  Progress
<1>1. /\ upload[b].status \in {"OPEN", "UPLOADING", "READY"} /\ imp[b] \in {"UPLOADING", "ANALYZING"}
      /\ upload' = [upload EXCEPT ![b].status = "READY"] /\ imp' = Preflight(imp, file', analysis', b)
      /\ UNCHANGED <<sent, jobs, slot, file, analysis, cipher>>
      /\ outbox' = IF upload[b].status = "READY" THEN outbox
                   ELSE outbox \cup {Event("upload.finalize", f) :
                                       f \in {g \in Of(b) : file[g].status = "COMPLETE" /\ ~Listed(g)}}
  BY DEF CompleteBatch
<1>2. QueueInv' /\ outbox \subseteq outbox'
  BY <1>1, CompleteQueue
<1>3. \A c \in Batches : c # b => upload'[c] = upload[c]
  BY <1>1
<1>4. ASSUME NEW f \in Files PROVE News(f)
  <2> SUFFICES ASSUME file[f].status \in {"COMPLETE", "ENCRYPTING"}, ~Listed(f), upload[Shape[f].batch].status # "READY",
                      upload'[Shape[f].batch].status = "READY"
               PROVE  Held(Fin(f))'
    BY <1>1 DEF News
  <2>1. Shape[f].batch = b
    BY <1>3, ShapeFacts DEF QueueInv
  <2>2. file[f].status = "COMPLETE"
    BY FileFacts DEF StatusFits
  <2>3. Event("upload.finalize", f) \in outbox'
    BY <1>1, <2>1, <2>2 DEF Of
  <2>4. Event("upload.finalize", f) \notin outbox
    BY EventSees, EventWork, FileWorks
  <2> QED BY <1>1, <2>3, <2>4, EventWork, NewEvent, Fixed DEF Fin, Work
<1>5. HeldInv'
  BY <1>1, <1>2, <1>4, HeldStep
<1>6. Settled(b)
  <2>1. Decided(b)
    BY <1>1, PreflightDecides
  <2> QED BY <2>1 DEF Settled
<1>7. ASSUME NEW c \in Batches, c # b PROVE Settled(c)
  <2>1. imp'[c] = imp[c]
    BY <1>1, <1>7, PreflightFacts DEF FilesInv
  <2>2. Tranquil(c)
    BY <1>1, <2>1 DEF Tranquil, Calm
  <2> QED BY <2>2, CalmSettles DEF FilesKept
<1> QED BY <1>5, <1>6, <1>7 DEF Progress

-----------------------------------------------------------------------------
(* Handlers.                                                                *)

LEMMA HandlerProgress ==
  ASSUME QueueInv, QueueInv', FilesInv, HeldInv, FilesKept, scenario' = scenario,
         UNCHANGED <<sent, jobs, imp, analysis>>, outbox \subseteq outbox',
         NEW s \in Slots, Moved(s), slot[s] # Idle,
         slot'[s].pc \in Attempting => Held(slot[s].work),
         slot'[s].pc = "ack" /\ slot'[s].result = "completed" => \A w \in Works : slot[s].work = w => Finished(w)',
         \A b \in Batches : upload'[b].status = upload[b].status,
         \A f \in Files : file'[f].object = file[f].object
                          /\ \/ file'[f].status = file[f].status
                             \/ file'[f].status = "ENCRYPTING" /\ file[f].status \in {"COMPLETE", "ENCRYPTING"},
         \A f \in Files : f \in cipher' => f \in cipher \/ Held(Fin(f))'
  PROVE  Progress
<1>1. \A f \in Files : News(f)
  BY NoNews DEF QueueInv
<1>2. HeldInv'
  BY <1>1, HandlerHeld
<1>3. \A b \in Batches : Tranquil(b)
  BY DEF Tranquil, Calm, Out
<1> QED BY <1>2, <1>3, CalmSettles DEF Progress, FilesKept

LEMMA RowKeptFacts ==
  ASSUME FilesInv, NEW f \in Files, RowKept(f), NEW g \in Files
  PROVE  file'[g].object = file[g].object
         /\ \/ file'[g].status = file[g].status
            \/ file'[g].status = "ENCRYPTING" /\ file[g].status \in {"COMPLETE", "ENCRYPTING"}
BY DEF RowKept, FilesInv, RowsOK

(* Whoever is at work on an attempt has work that is held.                  *)
LEMMA AttemptIsHeld ==
  ASSUME QueueInv, FilesInv, HeldInv, NEW s \in Slots, slot[s] # Idle, slot[s].pc \in Attempting
  PROVE  Held(slot[s].work)
BY DEF HeldInv, SlotHeld

LEMMA ClaimProgress ==
  ASSUME QueueInv, FilesInv, HeldInv, FilesKept, NEW s \in Slots, Claim(s), scenario' = scenario
  PROVE  Progress
<1> DEFINE claimable(f) == file[f].status \in {"COMPLETE", "ENCRYPTING"} /\ Archivable(Shape[f].batch)
<1>1. PICK f \in Files : f = Target(s)
  BY ClaimMoves
<1>2. /\ QueueInv' /\ Executing(s) /\ Moved(s) /\ slot[s].work = Fin(f)
      /\ claimable(f) => slot'[s].pc = "reserve"
      /\ ~claimable(f) => slot'[s].pc \in {"ack", "project"} /\ slot'[s].result = "failed"
  BY <1>1, ClaimMoves
<1>3. /\ file' = IF claimable(f) THEN [file EXCEPT ![f].status = "ENCRYPTING"] ELSE file
      /\ UNCHANGED <<sent, jobs, outbox, imp, analysis, cipher, upload>>
  BY <1>1 DEF Claim
<1>4. slot[s] # Idle
  BY <1>2, ExecutingFacts
<1>5. claimable(f) => Held(slot[s].work)
  <2>1. ~Listed(f) /\ upload[Shape[f].batch].status = "READY"
    BY <1>1, <1>2, ExecutingFacts, FileWorks, JobSees
  <2> QED BY <1>2, <2>1 DEF HeldInv, FileHeld
<1>6. \A g \in Files : /\ file'[g].object = file[g].object
                       /\ \/ file'[g].status = file[g].status
                          \/ file'[g].status = "ENCRYPTING" /\ file[g].status \in {"COMPLETE", "ENCRYPTING"}
  BY <1>3 DEF FilesInv, RowsOK, FileRow
<1> HIDE DEF claimable
<1> QED BY <1>2, <1>3, <1>4, <1>5, <1>6, HandlerProgress DEF Attempting

LEMMA ReserveProgress ==
  ASSUME QueueInv, FilesInv, HeldInv, FilesKept, NEW s \in Slots, Reserve(s), scenario' = scenario
  PROVE  Progress
<1>1. PICK f \in Files : f = Target(s)
  BY ReserveMoves
<1>2. /\ QueueInv' /\ Executing(s) /\ Moved(s) /\ slot[s] # Idle /\ slot'[s].pc \in {"undo", "write"}
  BY ReserveMoves, ExecutingFacts
<1>3. slot[s].pc = "reserve" /\ UNCHANGED <<sent, jobs, outbox, imp, analysis, cipher>>
  BY DEF Reserve, Handles
<1>4. /\ RowKept(f)
      /\ \A b \in Batches : upload'[b].status = upload[b].status
  <2>1. CASE UNCHANGED <<file, upload>>
    BY <2>1 DEF RowKept
  <2>2. CASE Took(f)
    BY <2>2, TookRow
  <2> QED BY <1>1, <2>1, <2>2, ReserveTakes
<1>5. Held(slot[s].work)
  BY <1>2, <1>3, AttemptIsHeld DEF Attempting
<1> QED BY <1>2, <1>3, <1>4, <1>5, RowKeptFacts, HandlerProgress

LEMMA WriteProgress ==
  ASSUME QueueInv, FilesInv, HeldInv, FilesKept, NEW s \in Slots, WriteCiphertext(s), scenario' = scenario
  PROVE  Progress
<1>1. PICK f \in Files : f = Target(s)
  BY WriteMoves
<1>2. /\ QueueInv' /\ Executing(s) /\ Moved(s) /\ slot[s] # Idle /\ slot'[s].pc \in {"undo", "commit"} /\ slot[s].pc = "write"
      /\ slot[s].work = Fin(f)
  BY <1>1, WriteMoves, ExecutingFacts
<1>3. UNCHANGED <<sent, jobs, outbox, imp, analysis, file, upload>> /\ cipher' \subseteq cipher \cup {f}
  BY <1>1 DEF WriteCiphertext
<1>4. Held(Fin(f))
  BY <1>2, AttemptIsHeld DEF Attempting
<1>5. Held(Fin(f))'
  <2>1. Fin(f) \in Works /\ Fin(f)' = Fin(f)
    BY FileWorks DEF Fin, Work
  <2> QED BY <1>3, <1>4, <2>1, HeldStays
<1>6. \A g \in Files : g \in cipher' => g \in cipher \/ Held(Fin(g))'
  BY <1>3, <1>5
<1> QED BY <1>2, <1>3, <1>4, <1>6, HandlerProgress

LEMMA UndoProgress ==
  ASSUME QueueInv, FilesInv, HeldInv, FilesKept, NEW s \in Slots, Undo(s), scenario' = scenario
  PROVE  Progress
<1>1. PICK f \in Files : f = Target(s)
  BY UndoMoves
<1>2. /\ QueueInv' /\ Executing(s) /\ Moved(s) /\ slot[s] # Idle /\ slot'[s].pc \in {"ack", "project"}
      /\ slot'[s].result # "completed"
  BY UndoMoves, ExecutingFacts
<1>3. UNCHANGED <<sent, jobs, outbox, imp, analysis>> /\ cipher' \subseteq cipher
  BY DEF Undo
<1>4. /\ RowKept(f)
      /\ \A b \in Batches : upload'[b].status = upload[b].status
  <2>1. CASE UNCHANGED <<file, upload>>
    BY <2>1 DEF RowKept
  <2>2. CASE Gave(f)
    BY <2>2, GaveRow
  <2> QED BY <1>1, <2>1, <2>2, UndoGives
<1> QED BY <1>2, <1>3, <1>4, RowKeptFacts, HandlerProgress DEF Attempting

LEMMA FinishedFin ==
  ASSUME scenario' = scenario, NEW f \in Files, file'[f].status = "STORED"
  PROVE  Finished(Fin(f))'
<1>1. Fin(f).obj = f /\ Fin(f).topic # "import.analyze" /\ Fin(f)' = Fin(f)
  BY DEF Fin, Work
<1> QED BY <1>1 DEF Finished

LEMMA FinishedAna ==
  ASSUME scenario' = scenario, NEW f \in Files, Analysed(f)'
  PROVE  Finished(Ana(f))'
<1>1. Ana(f).obj = f /\ Ana(f).topic # "upload.finalize" /\ Ana(f)' = Ana(f)
  BY DEF Ana, Work
<1> QED BY <1>1 DEF Finished

LEMMA RestoreProgress ==
  ASSUME QueueInv, FilesInv, HeldInv, FilesKept, NEW s \in Slots, Restore(s), scenario' = scenario
  PROVE  Progress
<1>1. PICK f \in Files : f = Target(s)
  BY RestoreMoves
<1>2. /\ QueueInv' /\ Executing(s) /\ Moved(s) /\ slot[s] # Idle /\ slot'[s].pc = "ack" /\ slot[s].work = Fin(f)
  BY <1>1, RestoreMoves, ExecutingFacts
<1>3. /\ UNCHANGED <<sent, jobs, imp, analysis, file, upload>> /\ cipher' \subseteq cipher /\ outbox \subseteq outbox'
      /\ file[f].object # NoFile
  BY <1>1 DEF Restore
<1>4. \A w \in Works : slot[s].work = w => Finished(w)'
  <2>1. file'[f].status = "STORED"
    BY <1>3, ObjectFacts
  <2> QED BY <1>2, <2>1, FinishedFin DEF Fin, Work
<1> QED BY <1>2, <1>3, <1>4, HandlerProgress DEF Attempting

LEMMA TidyProgress ==
  ASSUME QueueInv, FilesInv, HeldInv, FilesKept, NEW s \in Slots, Tidy(s), scenario' = scenario
  PROVE  Progress
<1>1. PICK f \in Files : f = Target(s)
  BY TidyMoves
<1>2. /\ QueueInv' /\ Executing(s) /\ Moved(s) /\ slot[s] # Idle /\ slot'[s].pc = "ack" /\ slot[s].work = Fin(f)
      /\ slot[s].pc = "tidy"
  BY <1>1, TidyMoves, ExecutingFacts
<1>3. /\ UNCHANGED <<sent, jobs, outbox, imp, analysis, file, upload>> /\ cipher' \subseteq cipher
  BY <1>1 DEF Tidy
<1>4. \A w \in Works : slot[s].work = w => Finished(w)'
  <2>1. file'[f].status = "STORED"
    BY <1>1, <1>2, <1>3 DEF FilesInv, SlotSees, Target
  <2> QED BY <1>2, <2>1, FinishedFin DEF Fin, Work
<1> QED BY <1>2, <1>3, <1>4, HandlerProgress DEF Attempting

LEMMA SweepProgress ==
  ASSUME QueueInv, FilesInv, HeldInv, FilesKept, NEW s \in Slots, SweepFailed(s), scenario' = scenario
  PROVE  Progress
<1>1. PICK f \in Files : f = Target(s)
  BY SweepMoves
<1>2. /\ QueueInv' /\ Executing(s) /\ Moved(s) /\ slot[s] # Idle /\ slot'[s].pc = "ack" /\ slot'[s].result # "completed"
  BY SweepMoves, ExecutingFacts
<1>3. /\ UNCHANGED <<sent, jobs, outbox, imp, analysis, upload>> /\ cipher' \subseteq cipher
      /\ file' = [file EXCEPT ![f].temp = FALSE]
  BY <1>1 DEF SweepFailed
<1>4. \A g \in Files : file'[g].status = file[g].status /\ file'[g].object = file[g].object
  BY <1>3 DEF FilesInv, RowsOK, FileRow
<1> QED BY <1>2, <1>3, <1>4, HandlerProgress DEF Attempting

LEMMA ReadProgress ==
  ASSUME QueueInv, FilesInv, HeldInv, FilesKept, NEW s \in Slots, ReadObject(s), scenario' = scenario
  PROVE  Progress
<1>1. PICK f \in Files : f = Target(s)
  BY ReadMoves
<1>2. /\ QueueInv' /\ Executing(s) /\ Moved(s) /\ slot[s] # Idle /\ slot[s].work = Ana(f)
      /\ slot'[s].pc \in {"ack", "classify", "project"}
      /\ slot'[s].pc = "ack" /\ slot'[s].result = "completed" => Analysed(f)
  BY <1>1, ReadMoves, ExecutingFacts DEF Analysed
<1>3. /\ UNCHANGED <<sent, jobs, outbox, imp, analysis, upload, file, cipher>>
  BY DEF ReadObject, uploadVars
<1>4. Analysed(f) => \A w \in Works : slot[s].work = w => Finished(w)'
  <2>1. Analysed(f) => Analysed(f)'
    BY <1>3, Fixed DEF Analysed, Row
  <2> QED BY <1>2, <2>1, FinishedAna DEF Ana, Work
<1> QED BY <1>2, <1>3, <1>4, HandlerProgress DEF Attempting

LEMMA RefusedProgress ==
  ASSUME QueueInv, FilesInv, HeldInv, FilesKept, NEW s \in Slots, StepRefused(s)
  PROVE  Progress
<1>1. /\ QueueInv' /\ Executing(s) /\ Moved(s) /\ slot[s] # Idle /\ scenario' = scenario
      /\ slot'[s].pc \in {"ack", "project", "undo"} /\ (slot'[s].pc = "ack" => slot'[s].result # "completed")
  BY RefusedMoves, ExecutingFacts
<1>2. /\ UNCHANGED <<sent, jobs, outbox, imp, analysis, upload, file, cipher>>
  BY DEF StepRefused, uploadVars
<1> QED BY <1>1, <1>2, HandlerProgress DEF Attempting

-----------------------------------------------------------------------------
(* A file is stored: it is waited for, or another has the same object.      *)

LEMMA StoredSettles ==
  ASSUME QueueInv, FilesInv, Onward, scenario' = scenario, NEW f \in Files, file[f].status = "ENCRYPTING", StoredNow(f),
         UNCHANGED <<imp, analysis, upload>>
  PROVE  \A c \in Batches : Settled(c)
<1>1. PICK b \in Batches : b = Shape[f].batch
  BY ShapeFacts DEF QueueInv
<1>2. PICK o \in Files : o = StoredAs(f)
  BY DEF StoredNow
<1>3. /\ o = f \/ o \in objects
      /\ file'[f].status = "STORED" /\ file'[f].object = o
      /\ \A g \in Entries(f) : Shape[g].batch = b
      /\ \A g \in Files : g # f /\ g \notin Entries(f) => file'[g] = file[g]
      /\ file[f].object = NoFile /\ o # NoFile /\ ~Listed(f)
  BY <1>1, <1>2, FileFacts, ShapeFacts DEF StoredNow, StatusFits, QueueInv
<1>4. ASSUME NEW c \in Batches, c # b PROVE Settled(c)
  <2>1. \A g \in Files : Shape[g].batch = c => file'[g] = file[g]
    BY <1>1, <1>3, <1>4
  <2>2. Tranquil(c)
    BY <2>1 DEF Tranquil, Calm
  <2> QED BY <2>2, CalmSettles
<1>5. Settled(b)
  <2>5. CASE \E g \in Files : Shape[g].batch = b /\ file[g].object = o
    <3>1. PICK g \in Files : Shape[g].batch = b /\ file[g].object = o
      BY <2>5
    <3>2. g # f /\ file[g].status = "STORED" /\ file[g].object # NoFile
      BY <1>3, <3>1, FileFacts DEF StatusFits
    <3>3. file'[g].object = o /\ file'[g].status = "STORED"
      BY <3>1, <3>2 DEF Onward
    <3>4. f \in Of(b)' /\ g \in Of(b)'
      BY <1>1, <1>3, <3>1, <3>3, Fixed DEF Of
    <3>5. Duplicated(b)'
      BY <1>3, <3>2, <3>3, <3>4 DEF Duplicated
    <3> QED BY <3>5 DEF Settled, Counted
  <2>6. CASE ~\E g \in Files : Shape[g].batch = b /\ file[g].object = o
    <3>1. o \notin Covered(analysis, b)
      <4> SUFFICES ASSUME NEW a \in analysis, a.batch = b, a.object = o PROVE FALSE
        BY DEF Covered, Analyzed
      <4>1. ~Listed(o)
        <5>1. o \in objects => file[o].object = o
          BY FileFacts DEF ObjectFits
        <5> QED BY <1>2, <1>3, <5>1, ObjectFacts
      <4> QED BY <2>6, <4>1, RowObject
    <3>2. o \in Expected(file, b)'
      <4>1. f \in Usable(file, b)' /\ Identity(file, f)' = o
        BY <1>1, <1>3, Fixed DEF Usable, Identity
      <4> QED BY <4>1 DEF Expected
    <3>3. Covered(analysis, b)' = Covered(analysis, b)
      BY DEF Covered, Analyzed
    <3>4. Counted(b)'
      BY <3>1, <3>2, <3>3 DEF Counted
    <3> QED BY <3>4 DEF Settled
  <2> QED BY <2>5, <2>6
<1> QED BY <1>1, <1>4, <1>5

LEMMA CommitProgress ==
  ASSUME QueueInv, FilesInv, HeldInv, FilesKept, NEW s \in Slots, CommitStored(s) \/ CommitUnanswered(s), scenario' = scenario
  PROVE  Progress
<1>1. PICK f \in Files : f = Target(s)
  BY CommitMoves
<1>2. /\ QueueInv' /\ Executing(s) /\ Moved(s) /\ slot[s] # Idle
      /\ slot'[s].pc \in {"tidy", "undo"}
      /\ UNCHANGED <<sent, jobs, upload, imp, analysis, cipher>>
      /\ \/ Storable(f) /\ Stored(f)
         \/ UNCHANGED <<objects, file, outbox>>
  BY <1>1, CommitMoves, ExecutingFacts
<1>3. CASE UNCHANGED <<objects, file, outbox>>
  BY <1>2, <1>3, HandlerProgress DEF Attempting
<1>4. CASE Storable(f) /\ Stored(f)
  <2>1. file[f].status = "ENCRYPTING" /\ StoredNow(f)
    BY <1>4, StoredRows DEF Storable
  <2>2. outbox \subseteq outbox' /\ Event("import.analyze", f) \in outbox'
        /\ \A g \in Entries(f) : Event("upload.finalize", g) \in outbox'
    BY <1>4 DEF Stored
  <2>3. ASSUME NEW g \in Files PROVE News(g)
    <3>1. CASE g = f
      <4>1. Event("import.analyze", f) \notin outbox
        BY <2>1, EventSees, EventWork, FileWorks
      <4>2. Held(Ana(f))'
        BY <1>2, <2>2, <4>1, EventWork, NewEvent, Fixed DEF Ana, Work
      <4> QED BY <1>2, <2>1, <3>1, <4>2 DEF News, StoredNow
    <3>2. CASE g \in Entries(f)
      <4>1. file[g].status = "ABSENT" /\ file'[g].status = "COMPLETE"
        BY <2>1, <3>2 DEF StoredNow
      <4>2. Event("upload.finalize", g) \notin outbox
        BY <4>1, EventSees, EventWork, FileWorks DEF Waited
      <4>3. Held(Fin(g))'
        BY <1>2, <2>2, <3>2, <4>2, EventWork, NewEvent, Fixed DEF Fin, Work
      <4> QED BY <1>2, <4>1, <4>3 DEF News
    <3>3. CASE g # f /\ g \notin Entries(f)
      BY <1>2, <2>1, <3>3 DEF News, StoredNow
    <3> QED BY <3>1, <3>2, <3>3
  <2>4. HeldInv'
    BY <1>2, <2>2, <2>3, HandlerHeld DEF Attempting
  <2> QED BY <1>2, <2>1, <2>4, StoredSettles DEF Progress, FilesKept
<1> QED BY <1>2, <1>3, <1>4

LEMMA ProjectFinalizeProgress ==
  ASSUME QueueInv, FilesInv, HeldInv, FilesKept, NEW s \in Slots, ProjectFinalizeFailure(s), scenario' = scenario
  PROVE  Progress
<1> DEFINE failable(f) == Failable(f, {"COMPLETE", "ENCRYPTING"})
<1>1. PICK f \in Files : f = Target(s)
  BY ProjectFinalizeMoves
<1>2. /\ QueueInv' /\ Executing(s) /\ Moved(s) /\ slot[s] # Idle /\ slot[s].work = Fin(f)
      /\ slot'[s].pc \in {"ack", "sweep"} /\ slot'[s].result # "completed"
  BY <1>1, ProjectFinalizeMoves, ExecutingFacts
<1>3. /\ UNCHANGED <<sent, jobs, outbox, analysis, cipher>>
      /\ failable(f) => RecordUploadFileFailure(f)
      /\ ~failable(f) => UNCHANGED <<upload, imp, file>>
  BY <1>1 DEF ProjectFinalizeFailure
<1>4. CASE failable(f)
  <2>1. file[f].status \notin {"ABSENT", "STORED"}
    BY <1>4 DEF Failable
  <2>2. ~Listed(f)
    BY <1>2, ExecutingFacts, FileWorks, JobSees DEF Target
  <2>3. /\ \A b \in Batches : Settled(b)
        /\ \A g \in Files : file'[g].status = file[g].status \/ file'[g].status = "FAILED"
        /\ \A b \in Batches : upload'[b].status = upload[b].status
    BY <1>3, <1>4, <2>1, <2>2, FailureSettles DEF FilesKept
  <2>4. \A g \in Files : News(g)
    BY <1>3, <2>3, NoNews DEF QueueInv
  <2>5. HeldInv'
    BY <1>2, <1>3, <2>4, HandlerHeld DEF Attempting
  <2> QED BY <2>3, <2>5 DEF Progress
<1>5. CASE ~failable(f)
  BY <1>2, <1>3, <1>5, HandlerProgress DEF Attempting
<1> QED BY <1>4, <1>5

-----------------------------------------------------------------------------
(* A verdict: the batch is decided again, and the object has a row.         *)

LEMMA VerdictSettles ==
  ASSUME QueueInv, FilesInv, Onward, scenario' = scenario, NEW f \in Files, file[f].object # NoFile,
         NEW status, \/ analysis' = (analysis \ Row(f)) \cup {Verdict(f, status)}
                     \/ Row(f) # {} /\ analysis' = analysis,
         imp' = Preflight(imp, file, analysis', Shape[f].batch), UNCHANGED <<upload, file>>
  PROVE  \A c \in Batches : Settled(c)
<1>1. PICK b \in Batches : b = Shape[f].batch
  BY ShapeFacts DEF QueueInv
<1>2. PICK o \in Files : o = file[f].object
  BY ObjectFacts
<1>3. PICK v : v = Verdict(f, status)
  OBVIOUS
<1>4. /\ ~Listed(o) /\ upload[b].status = "READY" /\ v.batch = b /\ v.object = o
      /\ \A a \in Row(f) : a.batch = b
      /\ \/ analysis' = (analysis \ Row(f)) \cup {v}
         \/ analysis' = analysis
  BY <1>1, <1>2, <1>3, ObjectFacts DEF Verdict, Row
<1>5. ASSUME NEW c \in Batches, c # b PROVE Settled(c)
  <2>1. imp'[c] = imp[c]
    BY <1>1, <1>5, PreflightFacts DEF FilesInv
  <2>2. Analyzed(analysis', c) = Analyzed(analysis, c)
    BY <1>4, <1>5 DEF Analyzed
  <2>3. Tranquil(c)
    BY <2>1, <2>2 DEF Tranquil, Calm
  <2> QED BY <2>3, CalmSettles
<1>6. Settled(b)
  <2>1. \A a \in analysis' : a.batch = b /\ Listed(a.object) => a \in analysis
    BY <1>4
  <2>2. imp' = Preflight(imp, file', analysis', b)
    BY <1>1
  <2>3. CASE imp[b] \in {"UPLOADING", "ANALYZING"}
    <3>1. Decided(b)
      BY <1>4, <2>1, <2>2, <2>3, PreflightDecides
    <3> QED BY <3>1 DEF Settled
  <2>4. CASE imp[b] \notin {"UPLOADING", "ANALYZING"}
    <3>1. Tranquil(b)
      BY <2>2, <2>4 DEF Preflight, Tranquil
    <3> QED BY <3>1, CalmSettles
  <2> QED BY <2>3, <2>4
<1> QED BY <1>5, <1>6

LEMMA RecordProgress ==
  ASSUME QueueInv, FilesInv, HeldInv, FilesKept, NEW s \in Slots, RecordAnalysis(s), scenario' = scenario
  PROVE  Progress
<1>1. PICK f \in Files : f = Target(s)
  BY RecordMoves
<1>2. /\ QueueInv' /\ Executing(s) /\ Moved(s) /\ slot[s] # Idle /\ slot[s].work = Ana(f) /\ slot'[s].pc = "ack"
  BY <1>1, RecordMoves, ExecutingFacts
<1>3. /\ UNCHANGED <<sent, jobs, outbox, upload, file, cipher>>
      /\ analysis' = (analysis \ Row(f)) \cup {Verdict(f, Shape[f].outcome)}
      /\ imp' = Preflight(imp, file, analysis', Shape[f].batch)
  BY <1>1 DEF RecordAnalysis, Verdict
<1>4. file[f].object # NoFile
  BY <1>1, <1>2, ExecutingFacts, FileWorks, AnalysisJob
<1>5. \A b \in Batches : Settled(b)
  BY <1>3, <1>4, VerdictSettles DEF FilesKept
<1>6. Analysed(f)'
  <2>1. Verdict(f, Shape[f].outcome) \in Row(f)'
    BY <1>3, Fixed DEF Row, Verdict
  <2> QED BY <1>3, <1>4, <2>1 DEF Analysed
<1>7. \A w \in Works : slot[s].work = w => Finished(w)'
  BY <1>2, <1>6, FinishedAna DEF Ana, Work
<1>8. \A g \in Files : News(g)
  BY <1>3, NoNews DEF QueueInv
<1>9. HeldInv'
  BY <1>2, <1>3, <1>7, <1>8, HandlerHeld DEF Attempting
<1> QED BY <1>5, <1>9 DEF Progress

(* markStoredUploadAnalysisFailed                                           *)
LEMMA MarkedSettles ==
  ASSUME QueueInv, FilesInv, Onward, scenario' = scenario, NEW f \in Files, file[f].object # NoFile, MarkAnalysisFailed(f),
         UNCHANGED <<upload, file>>
  PROVE  \A b \in Batches : Settled(b)
<1>1. imp' = Preflight(imp, file, analysis', Shape[f].batch)
  BY DEF MarkAnalysisFailed
<1>2. \/ analysis' = (analysis \ Row(f)) \cup {Verdict(f, "FAILED")}
      \/ Row(f) # {} /\ analysis' = analysis
  BY DEF MarkAnalysisFailed, Verdict
<1> QED BY <1>1, <1>2, VerdictSettles

LEMMA ProjectAnalysisProgress ==
  ASSUME QueueInv, FilesInv, HeldInv, FilesKept, NEW s \in Slots, ProjectAnalysisFailure(s), scenario' = scenario
  PROVE  Progress
<1>1. PICK f \in Files : f = Target(s)
  BY ProjectAnalysisMoves
<1>2. /\ QueueInv' /\ Executing(s) /\ Moved(s) /\ slot[s] # Idle /\ slot[s].work = Ana(f) /\ slot'[s].pc = "ack"
      /\ slot'[s].result # "completed"
  BY <1>1, ProjectAnalysisMoves, ExecutingFacts
<1>3. file[f].object # NoFile
  BY <1>1, <1>2, ExecutingFacts, FileWorks, AnalysisJob
<1>4. UNCHANGED <<sent, jobs, outbox, upload, file, cipher>> /\ MarkAnalysisFailed(f)
  BY <1>1, <1>3 DEF ProjectAnalysisFailure
<1>5. \A b \in Batches : Settled(b)
  BY <1>3, <1>4, MarkedSettles DEF FilesKept
<1>6. \A g \in Files : News(g)
  BY <1>4, NoNews DEF QueueInv
<1>7. HeldInv'
  BY <1>2, <1>4, <1>6, HandlerHeld DEF Attempting
<1> QED BY <1>5, <1>7 DEF Progress

-----------------------------------------------------------------------------
(* The reconciler.                                                          *)

LEMMA ProjectionHeld ==
  ASSUME QueueInv, FilesInv, HeldInv, FilesKept, scenario' = scenario,
         UNCHANGED <<outbox, sent, jobs, slot>>, rec # RecIdle,
         NEW pc \in {"sweep", "record"}, rec' = [rec EXCEPT !.pc = pc], pc = "sweep" => rec.work.topic = "upload.finalize",
         \A f \in Files : file'[f].status \in {file[f].status, "FAILED"},
         \A b \in Batches : upload'[b].status = upload[b].status, cipher' \subseteq cipher
  PROVE  HeldInv'
<1>1. QueueInv'
  BY ProjectionQueue
<1>2. \A f \in Files : News(f)
  BY NoNews DEF QueueInv
<1> QED BY <1>1, <1>2, HeldStep

LEMMA ReconcileFinalizeProgress ==
  ASSUME QueueInv, FilesInv, HeldInv, FilesKept, ReconcileFinalize, scenario' = scenario
  PROVE  Progress
<1>1. PICK f \in Files : f = rec.work.obj
  BY RecFacts DEF ReconcileFinalize, RecIdle
<1>2. rec # RecIdle /\ rec.work.topic = "upload.finalize" /\ rec.work = Fin(f) /\ rec.work \in Works
      /\ rec.n \in DOMAIN jobs[rec.work]
  BY <1>1, RecFacts DEF ReconcileFinalize, RecIdle, Fin
<1>3. /\ UNCHANGED <<outbox, sent, jobs, slot, analysis, cipher>>
      /\ Hopeless(f) => RecordUploadFileFailure(f) /\ rec' = [rec EXCEPT !.pc = "sweep"]
      /\ ~Hopeless(f) => rec' = [rec EXCEPT !.pc = "record"] /\ UNCHANGED <<upload, imp, file>>
  BY <1>1 DEF ReconcileFinalize
<1>4. CASE Hopeless(f)
  <2>1. file[f].status \notin {"ABSENT", "STORED"} /\ ~Listed(f)
    BY <1>1, <1>2, <1>4, JobSees DEF Hopeless
  <2>2. /\ \A b \in Batches : Settled(b)
        /\ \A g \in Files : file'[g].status \in {file[g].status, "FAILED"}
        /\ \A b \in Batches : upload'[b].status = upload[b].status
    BY <1>3, <1>4, <2>1, FailureSettles DEF FilesKept
  <2>3. HeldInv'
    BY <1>2, <1>3, <1>4, <2>2, ProjectionHeld
  <2> QED BY <2>2, <2>3 DEF Progress
<1>5. CASE ~Hopeless(f)
  <2>1. HeldInv'
    BY <1>2, <1>3, <1>5, ProjectionHeld
  <2> QED BY <1>3, <1>5, <2>1, SameCalm, CalmSettles DEF Progress, FilesKept
<1> QED BY <1>4, <1>5

LEMMA ReconcileSweepProgress ==
  ASSUME QueueInv, FilesInv, HeldInv, FilesKept, ReconcileSweep, scenario' = scenario
  PROVE  Progress
<1>1. PICK f \in Files : f = rec.work.obj
  BY RecFacts DEF ReconcileSweep, RecIdle
<1>2. /\ rec # RecIdle /\ UNCHANGED <<outbox, sent, jobs, slot, upload, imp, analysis>>
      /\ cipher' \subseteq cipher /\ file' = [file EXCEPT ![f].temp = FALSE] /\ rec' = [rec EXCEPT !.pc = "record"]
  BY <1>1 DEF ReconcileSweep, RecIdle
<1>3. \A g \in Files : file'[g].status = file[g].status /\ file'[g].object = file[g].object
  BY <1>2 DEF FilesInv, RowsOK, FileRow
<1>4. HeldInv'
  BY <1>2, <1>3, ProjectionHeld
<1> QED BY <1>2, <1>3, <1>4, SameCalm, CalmSettles DEF Progress, FilesKept

LEMMA ReconcileAnalysisProgress ==
  ASSUME QueueInv, FilesInv, HeldInv, FilesKept, ReconcileAnalysis, scenario' = scenario
  PROVE  Progress
<1>1. PICK f \in Files : f = rec.work.obj
  BY RecFacts DEF ReconcileAnalysis, RecIdle
<1>2. /\ rec # RecIdle /\ file[f].object # NoFile /\ UNCHANGED <<outbox, sent, jobs, slot, upload, file, cipher>>
      /\ MarkAnalysisFailed(f) \/ UNCHANGED <<analysis, imp>>
      /\ rec' = [rec EXCEPT !.pc = "record"]
  BY <1>1 DEF ReconcileAnalysis, RecIdle
<1>3. HeldInv'
  BY <1>2, ProjectionHeld
<1>4. \A b \in Batches : Settled(b)
  BY <1>2, MarkedSettles, SameCalm, CalmSettles DEF FilesKept
<1> QED BY <1>3, <1>4 DEF Progress

LEMMA ReconcilerProgress ==
  ASSUME QueueInv, FilesInv, HeldInv, FilesKept, scenario' = scenario,
         \/ ReconcilerStep
         \/ ReconciliationLost /\ UNCHANGED uploadVars
  PROVE  Progress
<1>0. DOMAIN jobs = Works
  BY DEF QueueInv, JobsOK
<1>1. ASSUME NEW w \in Works, NEW n \in DOMAIN jobs[w], BeginReconciliation(w, n), UNCHANGED uploadVars PROVE Progress
  BY <1>1, BeginReconciliationHeld, QueueProgress
<1>2. CASE EndReconciliation /\ UNCHANGED uploadVars
  BY <1>2, EndReconciliationHeld, QueueProgress
<1>3. CASE ReconciliationLost /\ UNCHANGED uploadVars
  BY <1>3, LostHeld, QueueProgress
<1> QED BY <1>0, <1>1, <1>2, <1>3, ReconcileFinalizeProgress, ReconcileSweepProgress, ReconcileAnalysisProgress
        DEF ReconcilerStep

-----------------------------------------------------------------------------
(* All of it.                                                               *)

LEMMA ApiProgress ==
  ASSUME QueueInv, FilesInv, HeldInv, FilesKept, Api, UNCHANGED <<queueVars, scenario>>
  PROVE  Progress
<1>1. ASSUME NEW b \in Batches, CreateBatch(b) \/ CancelBatch(b) PROVE Progress
  BY <1>1, CreateBatchProgress, CancelProgress
<1>2. ASSUME NEW b \in Batches, NEW S \in SUBSET {f \in Files : Shape[f].batch = b},
             CreateBatchWithFiles(b, S) \/ CreateFiles(b, S) \/ RemoveFiles(b, S)
      PROVE  Progress
  BY <1>2, RegisterProgress, RemoveProgress
<1>3. ASSUME NEW b \in Batches, NEW S \in SUBSET {f \in Files : Shape[f].batch = b}, RemoveAgain(b, S) PROVE Progress
  <2>1. S \in SUBSET Files
    OBVIOUS
  <2> QED BY <1>3, <2>1, RequestProgress
<1>4. ASSUME \/ \E q \in Requests, f \in Files, len \in ChunkLengths : StageChunk(q, f, len)
             \/ \E q \in Requests : DropChunk(q)
      PROVE  Progress
  BY <1>4, RequestProgress
<1>5. ASSUME NEW q \in Requests, CommitChunk(q) PROVE Progress
  BY <1>5, CommitChunkProgress
<1>6. ASSUME NEW f \in Files, FailFile(f) PROVE Progress
  BY <1>6, FailFileProgress
<1> QED BY <1>1, <1>2, <1>3, <1>4, <1>5, <1>6 DEF Api

LEMMA NextProgress == QueueInv /\ FilesInv /\ HeldInv /\ [Next]_vars => Progress
<1> SUFFICES ASSUME QueueInv, FilesInv, HeldInv, [Next]_vars PROVE Progress
  OBVIOUS
<1>0. FilesKept
  BY NextFiles
<1> USE <1>0 DEF faultVars
<1>1. CASE UNCHANGED vars
  <2>1. UNCHANGED <<queueVars, scenario, uploadVars>>
    BY <1>1 DEF vars, uploadVars, queueVars
  <2> QED BY <2>1, IdleProgress DEF uploadVars
<1>2. CASE Staging(Api)
  BY <1>2, ApiProgress DEF Staging
<1>3. CASE Staging(Time) \/ Staging(ExpireStaging) \/ Staging(Cleaner)
  BY <1>3, TickProgress, ExpireProgress, CleanUpProgress DEF Staging, Time, Cleaner
<1>4. CASE NoFault(\E b \in Batches : CompleteBatch(b))
  BY <1>4, CompleteProgress DEF NoFault
<1>5. CASE QueueOnly(QueueStep)
  BY <1>5, QueueStepHeld, QueueProgress DEF QueueOnly
<1>6. CASE NoFault(\E s \in Slots : FinalizeStep(s) \/ AnalyzeStep(s))
  <2>1. PICK s \in Slots : FinalizeStep(s) \/ AnalyzeStep(s)
    BY <1>6 DEF NoFault
  <2>2. scenario' = scenario
    BY <1>6 DEF NoFault
  <2>3. CASE FinalizeStep(s)
    BY <2>2, <2>3, RestoreProgress, ClaimProgress, ReserveProgress, WriteProgress, CommitProgress, TidyProgress,
       UndoProgress, ProjectFinalizeProgress, SweepProgress DEF FinalizeStep
  <2>4. CASE AnalyzeStep(s)
    BY <2>2, <2>4, ReadProgress, RecordProgress, ProjectAnalysisProgress DEF AnalyzeStep
  <2> QED BY <2>1, <2>3, <2>4
<1>7. CASE NoFault(ReconcilerStep) \/ (ReconciliationLost /\ UNCHANGED uploadVars)
  <2>1. scenario' = scenario
    BY <1>7 DEF NoFault, ReconciliationLost, Fault
  <2> QED BY <1>7, <2>1, ReconcilerProgress DEF NoFault
<1>8. CASE \E f \in Files : CleanUpLost(f) /\ UNCHANGED queueVars
  <2>1. scenario' = scenario
    BY <1>8 DEF CleanUpLost, Fault
  <2> QED BY <1>8, <2>1, RequestProgress
<1>9. CASE QueueFault /\ UNCHANGED uploadVars
  <2>1. scenario' = scenario
    BY <1>9 DEF QueueFault, DispatchUnmarked, ExpireLate, Crash, Fault
  <2>2. HeldInv'
    BY <1>9, <2>1, QueueStepHeld DEF QueueFault
  <2> QED BY <1>9, <2>1, <2>2, QueueProgress
<1>10. CASE \E s \in Slots : CommitUnanswered(s) \/ StepRefused(s)
  <2>1. PICK s \in Slots : CommitUnanswered(s) \/ StepRefused(s)
    BY <1>10
  <2>2. scenario' = scenario
    BY <2>1 DEF CommitUnanswered, StepRefused, Fault
  <2> QED BY <2>1, <2>2, CommitProgress, RefusedProgress
<1> QED BY <1>1, <1>2, <1>3, <1>4, <1>5, <1>6, <1>7, <1>8, <1>9, <1>10 DEF Next

LEMMA InitHeld ==
  ASSUME Init PROVE HeldInv /\ \A b \in Batches : Counted(b)
<1>1. /\ slot = [s \in Slots |-> Idle] /\ jobs = [w \in Works |-> <<>>]
      /\ imp = [b \in Batches |-> "ABSENT"] /\ cipher = {}
      /\ \A f \in Files : file[f].status = "ABSENT"
  BY DEF Init, QueueInit, UploadsInit
<1>2. \A w \in Works : ~Done(w)
  BY <1>1 DEF Done
<1>3. \A s \in Slots : slot[s] = Idle
  BY <1>1
<1>4. \A f \in Files : FileHeld(f)
  BY <1>1 DEF FileHeld
<1> QED BY <1>1, <1>2, <1>3, <1>4 DEF HeldInv, SlotHeld, Counted

WorkInv == HeldInv /\ \A b \in Batches : Counted(b)

LEMMA NextScenario ==
  ASSUME [Next]_vars
  PROVE  scenario' = scenario
BY DEF Next, vars, faultVars, Staging, NoFault, QueueOnly, QueueFault, CleanUpLost, DispatchUnmarked, ExpireLate, Crash,
   CommitUnanswered, StepRefused, ReconciliationLost, Fault

LEMMA NextWork == QueueInv /\ FilesInv /\ WorkInv /\ [Next]_vars => WorkInv'
<1> SUFFICES ASSUME QueueInv, FilesInv, WorkInv, [Next]_vars PROVE WorkInv'
  OBVIOUS
<1>1. Progress /\ QueueInv' /\ FilesInv'
  BY NextProgress, NextQueue, NextFiles DEF WorkInv, FilesKept
<1>2. scenario' = scenario
  BY NextScenario
<1>3. \A b \in Batches : Counted(b)'
  BY <1>1, <1>2, SettledKeeps DEF Progress, WorkInv
<1> QED BY <1>1, <1>2, <1>3, Fixed DEF Progress, WorkInv

(* No work is forgotten: whatever is stored without an analysis, archived   *)
(* in part or waited for by its batch has an event that is not dispatched,  *)
(* or a newest job that is neither completed nor dealt with (outbox.ts,     *)
(* worker/terminal-failure-reconciler.ts, worker/queue.ts).                 *)
THEOREM WorkInvHolds == Spec => []WorkInv
<1>1. Init => QueueInv /\ FilesInv /\ WorkInv
  BY InitQueue, InitFiles, InitHeld DEF WorkInv
<1>2. QueueInv /\ FilesInv /\ WorkInv /\ [Next]_vars => QueueInv' /\ FilesInv' /\ WorkInv'
  BY NextQueue, NextFiles, NextWork DEF FilesKept
<1> QED BY <1>1, <1>2, PTL DEF Spec

-----------------------------------------------------------------------------

LEMMA HeldUnfinished ==
  ASSUME QueueInv, NEW w \in Works, Held(w)
  PROVE  Unfinished(w)
<1>1. ASSUME Len(jobs[w]) > 0 PROVE Len(jobs[w]) \in DOMAIN jobs[w]
  <2>1. jobs[w] \in Seq(JobRow)
    BY DEF QueueInv, JobsOK
  <2> QED BY <1>1, <2>1
<1> QED BY <1>1 DEF Held, Unfinished, Newest

LEMMA NotForgotten == QueueInv /\ FilesInv /\ WorkInv => AnalysisNotForgotten
<1> SUFFICES ASSUME QueueInv, FilesInv, WorkInv, NEW b \in Batches, imp[b] = "ANALYZING", ~Duplicated(b) PROVE Settling(b)
  BY DEF AnalysisNotForgotten
<1>1. upload[b].status = "READY" /\ \A a \in analysis : a.batch = b /\ Listed(a.object) => file[a.object].status = "COMPLETE"
  BY DEF FilesInv, BatchFits
<1>2. Covered(analysis, b) \subseteq Expected(file, b) /\ Covered(analysis, b) # Expected(file, b)
  BY <1>1, CoveredExpected DEF WorkInv, Counted
<1>3. PICK x \in Expected(file, b) : x \notin Covered(analysis, b)
  BY <1>2
<1>4. PICK f \in Usable(file, b) : x = Identity(file, f)
  BY DEF Expected
<1>5. /\ f \in Files /\ Shape[f].batch = b /\ file[f].status \notin {"ABSENT", "FAILED"} /\ f \in Of(b)
      /\ FileHeld(f) /\ StatusFits(f) /\ ObjectFits(f) /\ file[f] \in FileRow
  BY <1>4, FileFacts DEF Usable, Of, WorkInv, HeldInv
<1>6. ASSUME NEW a \in analysis, a.batch = b PROVE a.object # x
  BY <1>3, <1>6 DEF Covered, Analyzed
<1>7. ~Listed(f)
  BY <1>4, <1>5, <1>6 DEF StatusFits, ObjectFits, Identity
<1>8. CASE file[f].status = "STORED"
  <2>1. Row(f) = {}
    BY <1>4, <1>5, <1>6, <1>8 DEF Row, Identity, StatusFits
  <2>2. Held(Ana(f))
    BY <1>5, <1>8, <2>1 DEF FileHeld
  <2> QED BY <1>5, <2>2, HeldUnfinished, FileWorks DEF Settling, Ana
<1>9. CASE file[f].status \in {"COMPLETE", "ENCRYPTING"}
  <2>1. Held(Fin(f))
    BY <1>1, <1>5, <1>7, <1>9 DEF FileHeld
  <2> QED BY <1>5, <2>1, HeldUnfinished, FileWorks DEF Settling, FinalizeOpen, Fin
<1> QED BY <1>1, <1>5, <1>8, <1>9 DEF StatusFits, FileRow, FileStatus

(* A batch that shows ANALYZING has work before it, or two files of the     *)
(* same content (finalize.ts, postgres-analyzer.ts, postgres-preflight).    *)
THEOREM AnalysisNotForgottenHolds == Spec => []AnalysisNotForgotten
BY QueueInvHolds, FilesInvHolds, WorkInvHolds, NotForgotten, PTL

LEMMA NextPreflight == QueueInv /\ FilesInv /\ WorkInv /\ [Next]_vars =>
  \A b \in Batches : imp[b] # "COMMITTING" /\ imp'[b] = "COMMITTING" =>
    /\ {a.object : a \in Analyzed(analysis', b)} = Expected(file', b)
    /\ \A f \in Usable(file', b) : Listed(f) \/ file'[f].status = "STORED"
    /\ \E a \in Analyzed(analysis', b) : a.status = "PARSED"
<1> SUFFICES ASSUME QueueInv, FilesInv, WorkInv, [Next]_vars,
                    NEW b \in Batches, imp[b] # "COMMITTING", imp'[b] = "COMMITTING"
             PROVE  /\ {a.object : a \in Analyzed(analysis', b)} = Expected(file', b)
                    /\ \A f \in Usable(file', b) : Listed(f) \/ file'[f].status = "STORED"
                    /\ \E a \in Analyzed(analysis', b) : a.status = "PARSED"
  OBVIOUS
<1>1. Progress /\ QueueInv' /\ FilesInv'
  BY NextProgress, NextQueue, NextFiles DEF WorkInv, FilesKept
<1>2. scenario' = scenario
  BY NextScenario
<1>3. CommitsAll(b)'
  BY <1>1, <1>2, SettledKeeps DEF Progress
<1> QED BY <1>2, <1>3, Fixed DEF CommitsAll, Covered, Expected, Usable, Identity, Analyzed, Listed

(* A batch goes on to its commit by itself only when everything in it that  *)
(* has not failed is stored and analysed (imports/postgres-preflight).      *)
THEOREM PreflightSoundHolds == Spec => PreflightSound
<1>1. QueueInv /\ FilesInv /\ WorkInv /\ [Next]_vars =>
        [ \A b \in Batches : imp[b] # "COMMITTING" /\ imp'[b] = "COMMITTING" =>
            /\ {a.object : a \in Analyzed(analysis', b)} = Expected(file', b)
            /\ \A f \in Usable(file', b) : Listed(f) \/ file'[f].status = "STORED"
            /\ \E a \in Analyzed(analysis', b) : a.status = "PARSED" ]_vars
  BY NextPreflight
<1> QED BY <1>1, QueueInvHolds, FilesInvHolds, WorkInvHolds, PTL DEF Spec, PreflightSound

-----------------------------------------------------------------------------
(* What a batch was charged, and what its files take.                       *)

SizeMap  == [f \in Files |-> Shape[f].size]
GotMap   == [f \in Files |-> file[f].received]
Under(A) == UNION {Entries(f) : f \in A}

Kept(b)     == TopLevel(b) \ withdrawn
Budgeted(b) == {f \in Of(b) : file[f].resv # "NONE"}

Exact(row, got, K, A) ==
  /\ row.declared = SumFunctionOnSet(SizeMap, K)
  /\ row.received = SumFunctionOnSet(got, K)
  /\ row.expanded = SumFunctionOnSet(SizeMap, Under(A))
  /\ row.count = Cardinality(K) + Cardinality(Under(A))
  /\ row.declared <= MaxBatchBytes /\ row.count <= MaxFiles /\ row.expanded <= MaxExpanded

BatchExact(b) == Exact(upload[b], GotMap, Kept(b), Budgeted(b))

LEMMA ExactUsage == UsageExact <=> \A b \in Batches : BatchExact(b)
BY DEF UsageExact, BatchExact, Exact, SizeMap, GotMap, Under, Kept, Budgeted, Sizes, Received, EntryBytes, EntryCount

LEMMA KeptFiles ==
  ASSUME NEW b \in Batches
  PROVE  /\ Kept(b) \subseteq Files /\ Budgeted(b) \subseteq Files
         /\ \A f \in Kept(b) : Shape[f].parent = NoFile /\ Shape[f].batch = b /\ f \notin withdrawn
BY DEF Kept, Budgeted, TopLevel, Of

LEMMA MapsFixed ==
  ASSUME scenario' = scenario
  PROVE  SizeMap' = SizeMap /\ \A A : Under(A)' = Under(A)
BY Fixed DEF SizeMap, Under, Entries

LEMMA ExactThen ==
  ASSUME scenario' = scenario, NEW b \in Batches, NEW row, NEW got, NEW K, NEW A,
         row = upload'[b], got = GotMap', K = Kept(b)', A = Budgeted(b)', Exact(row, got, K, A)
  PROVE  BatchExact(b)'
<1>1. SizeMap' = SizeMap /\ Under(A)' = Under(A) /\ MaxBatchBytes' = MaxBatchBytes /\ MaxFiles' = MaxFiles
      /\ MaxExpanded' = MaxExpanded
  BY MapsFixed, Fixed
<1>2. Exact(row, got, K, A)'
  BY <1>1 DEF Exact
<1> QED BY <1>2 DEF BatchExact

LEMMA GotThen ==
  ASSUME scenario' = scenario
  PROVE  GotMap' = [f \in Files |-> file'[f].received]
BY Fixed DEF GotMap

(* Sums of sizes, of what was received, of what an archive holds.           *)
LEMMA SizeSums ==
  ASSUME scenario \in Scenarios, NEW S \in SUBSET Files, NEW T \in SUBSET S
  PROVE  /\ SumFunctionOnSet(SizeMap, S) = SumFunctionOnSet(SizeMap, S \ T) + SumFunctionOnSet(SizeMap, T)
         /\ SumFunctionOnSet(SizeMap, S) \in Nat /\ SumFunctionOnSet(SizeMap, T) \in Nat
         /\ SumFunctionOnSet(SizeMap, S \ T) \in Nat
         /\ Cardinality(S) = Cardinality(S \ T) + Cardinality(T)
         /\ Cardinality(S) \in Nat /\ Cardinality(T) \in Nat /\ Cardinality(S \ T) \in Nat
<1>1. IsFiniteSet(S) /\ IsFiniteSet(T) /\ T \subseteq S
  BY EntriesFinite, FS_Subset
<1>2. \A x \in S : SizeMap[x] \in Nat
  BY ShapeFacts DEF SizeMap
<1>3. SumFunctionOnSet(SizeMap, S) \in Nat
  BY <1>1, <1>2, SumNat
<1>4. /\ SumFunctionOnSet(SizeMap, S) = SumFunctionOnSet(SizeMap, S \ T) + SumFunctionOnSet(SizeMap, T)
      /\ SumFunctionOnSet(SizeMap, S \ T) \in Nat /\ SumFunctionOnSet(SizeMap, T) \in Nat
  BY <1>1, <1>2, SumDifference
<1>5. IsFiniteSet(S \ T) /\ Cardinality(S \ T) = Cardinality(S) - Cardinality(T)
  <2>1. S \cap T = T
    OBVIOUS
  <2> QED BY <1>1, <2>1, FS_Difference
<1>6. Cardinality(S) \in Nat /\ Cardinality(T) \in Nat /\ Cardinality(S \ T) \in Nat
  BY <1>1, <1>5, FS_CardinalityType
<1>7. Cardinality(S) = Cardinality(S \ T) + Cardinality(T)
  BY <1>5, <1>6
<1> QED BY <1>3, <1>4, <1>6, <1>7

(* No two archives hold the same entry.                                     *)
LEMMA UnderParts ==
  ASSUME NEW A \in SUBSET Files, NEW Y \in SUBSET A
  PROVE  Under(Y) \subseteq Under(A) /\ Under(A) \ Under(Y) = Under(A \ Y) /\ Under(A) \subseteq Files
<1>1. \A g : g \in Under(A) <=> g \in Files /\ Shape[g].parent \in A
  BY DEF Under, Entries
<1>2. \A g : g \in Under(Y) <=> g \in Files /\ Shape[g].parent \in Y
  BY DEF Under, Entries
<1>3. \A g : g \in Under(A \ Y) <=> g \in Files /\ Shape[g].parent \in A \ Y
  BY DEF Under, Entries
<1> QED BY <1>1, <1>2, <1>3

LEMMA EntrySums ==
  ASSUME scenario \in Scenarios, NEW A \in SUBSET Files, NEW Y \in SUBSET A
  PROVE  /\ SumFunctionOnSet(SizeMap, Under(A)) = SumFunctionOnSet(SizeMap, Under(A \ Y)) + EntryBytes(Y)
         /\ Cardinality(Under(A)) = Cardinality(Under(A \ Y)) + EntryCount(Y)
         /\ SumFunctionOnSet(SizeMap, Under(A)) \in Nat /\ SumFunctionOnSet(SizeMap, Under(A \ Y)) \in Nat
         /\ Cardinality(Under(A)) \in Nat /\ Cardinality(Under(A \ Y)) \in Nat
         /\ EntryBytes(Y) \in Nat /\ EntryCount(Y) \in Nat
<1>1. Under(Y) \in SUBSET Under(A) /\ Under(A) \ Under(Y) = Under(A \ Y) /\ Under(A) \in SUBSET Files
  BY UnderParts
<1>2. EntryBytes(Y) = SumFunctionOnSet(SizeMap, Under(Y)) /\ EntryCount(Y) = Cardinality(Under(Y))
  BY DEF EntryBytes, EntryCount, Sizes, SizeMap, Under
<1>3. /\ SumFunctionOnSet(SizeMap, Under(A)) = SumFunctionOnSet(SizeMap, Under(A \ Y)) + SumFunctionOnSet(SizeMap, Under(Y))
      /\ SumFunctionOnSet(SizeMap, Under(A)) \in Nat /\ SumFunctionOnSet(SizeMap, Under(Y)) \in Nat
      /\ SumFunctionOnSet(SizeMap, Under(A \ Y)) \in Nat
      /\ Cardinality(Under(A)) = Cardinality(Under(A \ Y)) + Cardinality(Under(Y))
      /\ Cardinality(Under(A)) \in Nat /\ Cardinality(Under(Y)) \in Nat /\ Cardinality(Under(A \ Y)) \in Nat
  BY <1>1, SizeSums
<1> QED BY <1>2, <1>3

LEMMA GotSums ==
  ASSUME scenario \in Scenarios, NEW got, \A f \in Files : got[f] \in Nat, NEW S \in SUBSET Files, NEW T \in SUBSET S
  PROVE  /\ SumFunctionOnSet(got, S) = SumFunctionOnSet(got, S \ T) + SumFunctionOnSet(got, T)
         /\ SumFunctionOnSet(got, S) \in Nat /\ SumFunctionOnSet(got, T) \in Nat
         /\ SumFunctionOnSet(got, S \ T) \in Nat
<1>1. IsFiniteSet(S) /\ IsFiniteSet(T) /\ T \subseteq S /\ \A x \in S : got[x] \in Nat
  BY EntriesFinite, FS_Subset
<1>2. SumFunctionOnSet(got, S) \in Nat
  BY <1>1, SumNat
<1> QED BY <1>1, <1>2, SumDifference

LEMMA GotMaps ==
  ASSUME FilesInv, FilesInv', scenario' = scenario
  PROVE  (\A f \in Files : GotMap[f] \in Nat) /\ \A f \in Files : GotMap'[f] \in Nat /\ GotMap'[f] = file'[f].received
<1>1. \A f \in Files : GotMap[f] \in Nat
  BY DEF GotMap, FilesInv, RowsOK, FileRow
<1>2. \A f \in Files : file'[f].received \in Nat
  BY Fixed DEF FilesInv, RowsOK, FileRow
<1> QED BY <1>1, <1>2, GotThen

(* Budgets are given back.                                                  *)
LEMMA FreedStep ==
  ASSUME QueueInv, FilesInv, FilesInv', scenario' = scenario, NEW b \in Batches, BatchExact(b),
         NEW Y \in SUBSET Budgeted(b), Kept(b)' = Kept(b), Budgeted(b)' = Budgeted(b) \ Y,
         \A f \in Kept(b) : file'[f].received = file[f].received,
         upload'[b].declared = upload[b].declared, upload'[b].received = upload[b].received,
         upload'[b].expanded = upload[b].expanded - EntryBytes(Y),
         upload'[b].count = upload[b].count - EntryCount(Y)
  PROVE  BatchExact(b)'
<1>1. PICK K \in SUBSET Files, A \in SUBSET Files : K = Kept(b) /\ A = Budgeted(b)
  BY KeptFiles
<1>2. PICK got, got2 : got = GotMap /\ got2 = GotMap'
  OBVIOUS
<1>3. scenario \in Scenarios /\ Exact(upload[b], got, K, A) /\ Y \in SUBSET A
  BY <1>1, <1>2 DEF QueueInv, BatchExact
<1>4. IsFiniteSet(K) /\ \A f \in K : got[f] \in Nat /\ got2[f] = got[f]
  BY <1>1, <1>2, <1>3, EntriesFinite, GotMaps DEF GotMap
<1>5. SumFunctionOnSet(got2, K) = SumFunctionOnSet(got, K)
  BY <1>4, SumSame
<1>6. /\ SumFunctionOnSet(SizeMap, Under(A)) = SumFunctionOnSet(SizeMap, Under(A \ Y)) + EntryBytes(Y)
      /\ Cardinality(Under(A)) = Cardinality(Under(A \ Y)) + EntryCount(Y)
      /\ SumFunctionOnSet(SizeMap, Under(A)) \in Nat /\ SumFunctionOnSet(SizeMap, Under(A \ Y)) \in Nat
      /\ Cardinality(Under(A)) \in Nat /\ Cardinality(Under(A \ Y)) \in Nat
      /\ EntryBytes(Y) \in Nat /\ EntryCount(Y) \in Nat
  BY <1>3, EntrySums
<1>7. Cardinality(K) \in Nat /\ MaxFiles \in Nat /\ MaxExpanded \in Nat
  BY <1>1, <1>3, EntriesFinite, ShapeFacts
<1>8. Exact(upload'[b], got2, K, A \ Y)
  BY <1>3, <1>5, <1>6, <1>7 DEF Exact
<1>9. A \ Y = Budgeted(b)' /\ K = Kept(b)'
  BY <1>1
<1> QED BY <1>2, <1>8, <1>9, ExactThen

(* A batch whose accounts a step does not touch.                            *)
LEMMA SameStep ==
  ASSUME QueueInv, FilesInv, FilesInv', scenario' = scenario, NEW b \in Batches, BatchExact(b),
         Kept(b)' = Kept(b), Budgeted(b)' = Budgeted(b),
         \A f \in Kept(b) : file'[f].received = file[f].received,
         upload'[b].declared = upload[b].declared, upload'[b].received = upload[b].received,
         upload'[b].expanded = upload[b].expanded, upload'[b].count = upload[b].count
  PROVE  BatchExact(b)'
<1>1. PICK K \in SUBSET Files, A \in SUBSET Files : K = Kept(b) /\ A = Budgeted(b)
  BY KeptFiles
<1>2. PICK got, got2 : got = GotMap /\ got2 = GotMap'
  OBVIOUS
<1>3. scenario \in Scenarios /\ Exact(upload[b], got, K, A)
  BY <1>1, <1>2 DEF QueueInv, BatchExact
<1>4. IsFiniteSet(K) /\ \A f \in K : got[f] \in Nat /\ got2[f] = got[f]
  BY <1>1, <1>2, <1>3, EntriesFinite, GotMaps DEF GotMap
<1>5. SumFunctionOnSet(got2, K) = SumFunctionOnSet(got, K)
  BY <1>4, SumSame
<1>6. Exact(upload'[b], got2, K, A)
  BY <1>3, <1>5 DEF Exact
<1>7. A = Budgeted(b)' /\ K = Kept(b)'
  BY <1>1
<1> QED BY <1>2, <1>6, <1>7, ExactThen

(* A budget is reserved.                                                    *)
LEMMA TookStep ==
  ASSUME QueueInv, FilesInv, FilesInv', scenario' = scenario, NEW b \in Batches, BatchExact(b),
         NEW f \in Files, f \notin Budgeted(b), Kept(b)' = Kept(b), Budgeted(b)' = Budgeted(b) \cup {f},
         \A g \in Kept(b) : file'[g].received = file[g].received,
         upload'[b].declared = upload[b].declared, upload'[b].received = upload[b].received,
         upload'[b].expanded = upload[b].expanded + EntryBytes({f}),
         upload'[b].count = upload[b].count + EntryCount({f}),
         upload[b].expanded + EntryBytes({f}) <= MaxExpanded, upload[b].count + EntryCount({f}) <= MaxFiles
  PROVE  BatchExact(b)'
<1>1. PICK K \in SUBSET Files, A \in SUBSET Files : K = Kept(b) /\ A = Budgeted(b)
  BY KeptFiles
<1>2. PICK got, got2 : got = GotMap /\ got2 = GotMap'
  OBVIOUS
<1>3. scenario \in Scenarios /\ Exact(upload[b], got, K, A)
  BY <1>1, <1>2 DEF QueueInv, BatchExact
<1>4. IsFiniteSet(K) /\ \A g \in K : got[g] \in Nat /\ got2[g] = got[g]
  BY <1>1, <1>2, <1>3, EntriesFinite, GotMaps DEF GotMap
<1>5. SumFunctionOnSet(got2, K) = SumFunctionOnSet(got, K)
  BY <1>4, SumSame
<1>6. PICK B \in SUBSET Files : B = A \cup {f}
  OBVIOUS
<1>7. {f} \in SUBSET B /\ B \ {f} = A
  BY <1>1, <1>6
<1>8. /\ SumFunctionOnSet(SizeMap, Under(B)) = SumFunctionOnSet(SizeMap, Under(B \ {f})) + EntryBytes({f})
      /\ Cardinality(Under(B)) = Cardinality(Under(B \ {f})) + EntryCount({f})
      /\ SumFunctionOnSet(SizeMap, Under(B \ {f})) \in Nat /\ Cardinality(Under(B \ {f})) \in Nat
      /\ EntryBytes({f}) \in Nat /\ EntryCount({f}) \in Nat
  BY <1>3, <1>7, EntrySums
<1>9. Cardinality(K) \in Nat
  BY <1>3, EntriesFinite
<1>10. Exact(upload'[b], got2, K, B)
  <2>1. /\ SumFunctionOnSet(SizeMap, Under(B)) = SumFunctionOnSet(SizeMap, Under(A)) + EntryBytes({f})
        /\ Cardinality(Under(B)) = Cardinality(Under(A)) + EntryCount({f})
        /\ SumFunctionOnSet(SizeMap, Under(A)) \in Nat /\ Cardinality(Under(A)) \in Nat
    BY <1>7, <1>8
  <2>2. upload[b].expanded + EntryBytes({f}) = SumFunctionOnSet(SizeMap, Under(B))
    BY <1>3, <2>1 DEF Exact
  <2>3. upload[b].count + EntryCount({f}) = Cardinality(K) + Cardinality(Under(B))
    BY <1>3, <1>8, <1>9, <2>1 DEF Exact
  <2> QED BY <1>3, <1>5, <2>2, <2>3 DEF Exact
<1>11. B = Budgeted(b)' /\ K = Kept(b)'
  BY <1>1, <1>6
<1> QED BY <1>2, <1>10, <1>11, ExactThen

(* Files are registered.                                                    *)
LEMMA RegisteredStep ==
  ASSUME QueueInv, FilesInv, FilesInv', scenario' = scenario, NEW b \in Batches, BatchExact(b),
         NEW S \in SUBSET Files, S \cap Kept(b) = {}, Kept(b)' = Kept(b) \cup S, Budgeted(b)' = Budgeted(b),
         \A g \in Kept(b) : file'[g].received = file[g].received, \A g \in S : file'[g].received = 0,
         upload'[b].declared = upload[b].declared + Sizes(S), upload'[b].received = upload[b].received,
         upload'[b].expanded = upload[b].expanded, upload'[b].count = upload[b].count + Cardinality(S),
         Fits(b, S)
  PROVE  BatchExact(b)'
<1>1. PICK K \in SUBSET Files, A \in SUBSET Files : K = Kept(b) /\ A = Budgeted(b)
  BY KeptFiles
<1>2. PICK got, got2 : got = GotMap /\ got2 = GotMap'
  OBVIOUS
<1>3. scenario \in Scenarios /\ Exact(upload[b], got, K, A)
  BY <1>1, <1>2 DEF QueueInv, BatchExact
<1>4. PICK N \in SUBSET Files : N = K \cup S
  OBVIOUS
<1>5. S \in SUBSET N /\ N \ S = K
  BY <1>1, <1>4
<1>6. /\ IsFiniteSet(K) /\ IsFiniteSet(S)
      /\ \A g \in Files : got2[g] \in Nat
      /\ \A g \in K : got[g] \in Nat /\ got2[g] = got[g]
      /\ \A g \in S : got2[g] = 0
  BY <1>1, <1>2, <1>3, EntriesFinite, GotMaps DEF GotMap
<1>7. SumFunctionOnSet(got2, K) = SumFunctionOnSet(got, K)
  BY <1>6, SumSame
<1>8. SumFunctionOnSet(got2, S) = 0
  BY <1>6, SumZero
<1>9. SumFunctionOnSet(got2, N) = SumFunctionOnSet(got2, N \ S) + SumFunctionOnSet(got2, S)
      /\ SumFunctionOnSet(got2, N \ S) \in Nat
  BY <1>3, <1>5, <1>6, GotSums
<1>10. /\ SumFunctionOnSet(SizeMap, N) = SumFunctionOnSet(SizeMap, N \ S) + SumFunctionOnSet(SizeMap, S)
       /\ Cardinality(N) = Cardinality(N \ S) + Cardinality(S)
       /\ Cardinality(S) \in Nat /\ Cardinality(N \ S) \in Nat
  BY <1>3, <1>5, SizeSums
<1>11. Cardinality(Under(A)) \in Nat
  BY <1>3, EntrySums
<1>12. Sizes(S) = SumFunctionOnSet(SizeMap, S)
  BY DEF Sizes, SizeMap
<1>13. Exact(upload'[b], got2, N, A)
  <2>1. /\ SumFunctionOnSet(SizeMap, N) = SumFunctionOnSet(SizeMap, K) + Sizes(S)
        /\ Cardinality(N) = Cardinality(K) + Cardinality(S)
        /\ Cardinality(S) \in Nat /\ Cardinality(K) \in Nat
    BY <1>5, <1>10, <1>12
  <2>2. SumFunctionOnSet(got2, N) = SumFunctionOnSet(got, K)
    BY <1>5, <1>7, <1>8, <1>9
  <2>3. upload[b].declared + Sizes(S) = SumFunctionOnSet(SizeMap, N)
    BY <1>3, <2>1 DEF Exact
  <2>4. upload[b].count + Cardinality(S) = Cardinality(N) + Cardinality(Under(A))
    BY <1>3, <1>11, <2>1 DEF Exact
  <2> QED BY <1>3, <2>2, <2>3, <2>4 DEF Exact, Fits
<1>14. A = Budgeted(b)' /\ N = Kept(b)'
  BY <1>1, <1>4
<1> QED BY <1>2, <1>13, <1>14, ExactThen

(* Files are withdrawn.                                                     *)
LEMMA WithdrawnStep ==
  ASSUME QueueInv, FilesInv, FilesInv', scenario' = scenario, NEW b \in Batches, BatchExact(b),
         NEW S \in SUBSET Kept(b), Kept(b)' = Kept(b) \ S, Budgeted(b)' = Budgeted(b),
         \A g \in Kept(b) : file'[g].received = file[g].received,
         upload'[b].declared = upload[b].declared - Sizes(S), upload'[b].received = upload[b].received - Received(S),
         upload'[b].expanded = upload[b].expanded, upload'[b].count = upload[b].count - Cardinality(S)
  PROVE  BatchExact(b)'
<1>1. PICK K \in SUBSET Files, A \in SUBSET Files : K = Kept(b) /\ A = Budgeted(b)
  BY KeptFiles
<1>2. PICK got, got2 : got = GotMap /\ got2 = GotMap'
  OBVIOUS
<1>3. scenario \in Scenarios /\ Exact(upload[b], got, K, A) /\ S \in SUBSET K
  BY <1>1, <1>2 DEF QueueInv, BatchExact
<1>4. /\ IsFiniteSet(K) /\ IsFiniteSet(K \ S)
      /\ \A g \in Files : got[g] \in Nat
      /\ \A g \in K : got2[g] = got[g]
  BY <1>1, <1>2, <1>3, EntriesFinite, FS_Difference, GotMaps DEF GotMap
<1>5. SumFunctionOnSet(got2, K \ S) = SumFunctionOnSet(got, K \ S)
  <2>1. \A g \in K \ S : got[g] \in Nat /\ got2[g] = got[g]
    BY <1>4
  <2> QED BY <1>4, <2>1, SumSame
<1>6. SumFunctionOnSet(got, K) = SumFunctionOnSet(got, K \ S) + SumFunctionOnSet(got, S)
      /\ SumFunctionOnSet(got, K \ S) \in Nat /\ SumFunctionOnSet(got, S) \in Nat
  BY <1>3, <1>4, GotSums
<1>7. /\ SumFunctionOnSet(SizeMap, K) = SumFunctionOnSet(SizeMap, K \ S) + SumFunctionOnSet(SizeMap, S)
      /\ SumFunctionOnSet(SizeMap, K \ S) \in Nat /\ SumFunctionOnSet(SizeMap, S) \in Nat
      /\ Cardinality(K) = Cardinality(K \ S) + Cardinality(S)
      /\ Cardinality(S) \in Nat /\ Cardinality(K \ S) \in Nat
  BY <1>3, SizeSums
<1>8. Cardinality(Under(A)) \in Nat /\ MaxBatchBytes \in Nat /\ MaxFiles \in Nat
  BY <1>3, EntrySums, ShapeFacts
<1>9. Sizes(S) = SumFunctionOnSet(SizeMap, S) /\ Received(S) = SumFunctionOnSet(got, S)
  BY <1>2 DEF Sizes, SizeMap, Received, GotMap
<1>10. Exact(upload'[b], got2, K \ S, A)
  BY <1>3, <1>5, <1>6, <1>7, <1>8, <1>9 DEF Exact
<1>11. A = Budgeted(b)' /\ K \ S = Kept(b)'
  BY <1>1
<1> QED BY <1>2, <1>10, <1>11, ExactThen

(* A chunk is committed.                                                    *)
LEMMA ReceivedStep ==
  ASSUME QueueInv, FilesInv, FilesInv', scenario' = scenario, NEW b \in Batches, BatchExact(b),
         NEW f \in Kept(b), NEW len \in Nat, Kept(b)' = Kept(b), Budgeted(b)' = Budgeted(b),
         \A g \in Kept(b) : file'[g].received = file[g].received + (IF g = f THEN len ELSE 0),
         upload'[b].declared = upload[b].declared, upload'[b].received = upload[b].received + len,
         upload'[b].expanded = upload[b].expanded, upload'[b].count = upload[b].count
  PROVE  BatchExact(b)'
<1>1. PICK K \in SUBSET Files, A \in SUBSET Files : K = Kept(b) /\ A = Budgeted(b)
  BY KeptFiles
<1>2. PICK got, got2 : got = GotMap /\ got2 = GotMap'
  OBVIOUS
<1>3. scenario \in Scenarios /\ Exact(upload[b], got, K, A) /\ f \in K
  BY <1>1, <1>2 DEF QueueInv, BatchExact
<1>4. /\ IsFiniteSet(K) /\ IsFiniteSet(K \ {f})
      /\ \A g \in Files : got[g] \in Nat /\ got2[g] \in Nat
      /\ \A g \in K \ {f} : got2[g] = got[g]
      /\ got2[f] = got[f] + len
  <2>1. IsFiniteSet(K) /\ IsFiniteSet(K \ {f})
    BY <1>3, EntriesFinite, FS_Difference
  <2>2. \A g \in Files : got[g] \in Nat /\ got2[g] \in Nat /\ got[g] = file[g].received /\ got2[g] = file'[g].received
    BY <1>2, GotMaps DEF GotMap
  <2> QED BY <1>1, <1>3, <2>1, <2>2
<1>5. SumFunctionOnSet(got2, K \ {f}) = SumFunctionOnSet(got, K \ {f})
  BY <1>4, SumSame
<1>6. SumFunctionOnSet(got, K) = got[f] + SumFunctionOnSet(got, K \ {f})
  BY <1>3, <1>4, SumTakes
<1>7. SumFunctionOnSet(got2, K) = got2[f] + SumFunctionOnSet(got2, K \ {f})
  BY <1>3, <1>4, SumTakes
<1>8. SumFunctionOnSet(got, K \ {f}) \in Nat /\ got[f] \in Nat
  BY <1>3, <1>4, SumNat
<1>9. Exact(upload'[b], got2, K, A)
  BY <1>3, <1>4, <1>5, <1>6, <1>7, <1>8 DEF Exact
<1>10. A = Budgeted(b)' /\ K = Kept(b)'
  BY <1>1
<1> QED BY <1>2, <1>9, <1>10, ExactThen

Accounts == \A b \in Batches : BatchExact(b)

LEMMA KeptSame ==
  ASSUME scenario' = scenario, NEW b \in Batches, \A f \in Files : f \in withdrawn' <=> f \in withdrawn,
         \A f \in Files : Shape[f].batch = b /\ Shape[f].parent = NoFile =>
                            (file'[f].status = "ABSENT" <=> file[f].status = "ABSENT")
  PROVE  Kept(b)' = Kept(b)
<1>1. Files' = Files /\ Shape' = Shape
  BY Fixed
<1>2. \A f : f \in Kept(b) <=> /\ f \in Files /\ Shape[f].batch = b /\ Shape[f].parent = NoFile
                               /\ file[f].status # "ABSENT" /\ f \notin withdrawn
  BY DEF Kept, TopLevel, Of
<1>3. \A f : f \in Kept(b)' <=> /\ f \in Files /\ Shape[f].batch = b /\ Shape[f].parent = NoFile
                                /\ file'[f].status # "ABSENT" /\ f \notin withdrawn'
  BY <1>1 DEF Kept, TopLevel, Of
<1> QED BY <1>2, <1>3

LEMMA BudgetedThen ==
  ASSUME scenario' = scenario, NEW b \in Batches
  PROVE  /\ \A f : f \in Budgeted(b) <=> /\ f \in Files /\ Shape[f].batch = b
                                         /\ file[f].status # "ABSENT" /\ file[f].resv # "NONE"
         /\ \A f : f \in Budgeted(b)' <=> /\ f \in Files /\ Shape[f].batch = b
                                          /\ file'[f].status # "ABSENT" /\ file'[f].resv # "NONE"
BY Fixed DEF Budgeted, Of

LEMMA BudgetedSame ==
  ASSUME scenario' = scenario, NEW b \in Batches,
         \A f \in Files : Shape[f].batch = b =>
           (file'[f].status # "ABSENT" /\ file'[f].resv # "NONE" <=> file[f].status # "ABSENT" /\ file[f].resv # "NONE")
  PROVE  Budgeted(b)' = Budgeted(b)
<1>1. Files' = Files /\ Shape' = Shape
  BY Fixed
<1>2. \A f : f \in Budgeted(b) <=> f \in Files /\ Shape[f].batch = b /\ file[f].status # "ABSENT" /\ file[f].resv # "NONE"
  BY DEF Budgeted, Of
<1>3. \A f : f \in Budgeted(b)' <=> f \in Files /\ Shape[f].batch = b /\ file'[f].status # "ABSENT" /\ file'[f].resv # "NONE"
  BY <1>1 DEF Budgeted, Of
<1> QED BY <1>2, <1>3

LEMMA QuietAccounts ==
  ASSUME QueueInv, FilesInv, FilesInv', scenario' = scenario, Accounts, withdrawn' = withdrawn,
         \A f \in Files : /\ file'[f].status = "ABSENT" <=> file[f].status = "ABSENT"
                          /\ file'[f].resv = file[f].resv /\ file'[f].received = file[f].received,
         \A b \in Batches : /\ upload'[b].declared = upload[b].declared /\ upload'[b].received = upload[b].received
                            /\ upload'[b].expanded = upload[b].expanded /\ upload'[b].count = upload[b].count
  PROVE  Accounts'
<1>1. ASSUME NEW b \in Batches PROVE BatchExact(b)'
  <2>1. Kept(b)' = Kept(b)
    BY KeptSame
  <2>2. Budgeted(b)' = Budgeted(b)
    BY BudgetedSame
  <2>3. \A f \in Kept(b) : file'[f].received = file[f].received
    BY KeptFiles
  <2> QED BY <2>1, <2>2, <2>3, SameStep DEF Accounts
<1> QED BY <1>1, Fixed DEF Accounts

LEMMA TookBackAccounts ==
  ASSUME QueueInv, FilesInv, FilesInv', scenario' = scenario, Accounts, withdrawn' = withdrawn,
         NEW S \in SUBSET Files, TookBack(S)
  PROVE  Accounts'
<1>1. /\ \A f \in Failed(S) : file'[f].status = "FAILED" /\ file'[f].resv = "NONE" /\ file'[f].received = file[f].received
      /\ \A f \in Files \ Failed(S) : file'[f] = file[f]
      /\ \A f \in S : file[f].status # "ABSENT"
  BY FailingRows DEF TookBack
<1>2. ASSUME NEW b \in Batches PROVE BatchExact(b)'
  <2>1. Kept(b)' = Kept(b)
    <3>1. \A f \in Files : file'[f].status = "ABSENT" <=> file[f].status = "ABSENT"
      BY <1>1 DEF Failed
    <3> QED BY <3>1, KeptSame
  <2>2. PICK Y \in SUBSET Files : Y = Back(S, b)
    BY DEF Back
  <2>3. Y \in SUBSET Budgeted(b)
    <3>1. \A f \in Y : f \in Files /\ Shape[f].batch = b /\ file[f].resv = "RESERVED" /\ file[f].status = "ENCRYPTING"
      BY <2>2, FileFacts DEF Back, StatusFits
    <3> QED BY <3>1, BudgetedThen
  <2>4. Budgeted(b)' = Budgeted(b) \ Y
    <3>1. ASSUME NEW f \in Files, Shape[f].batch = b
          PROVE  file'[f].status # "ABSENT" /\ file'[f].resv # "NONE" <=>
                   file[f].status # "ABSENT" /\ file[f].resv # "NONE" /\ f \notin Y
      <4>1. CASE f \in Failed(S)
        <5>1. file[f].resv \in {"NONE", "RESERVED"}
          BY <4>1, FileFacts DEF Failed, StatusFits, FileRow
        <5> QED BY <1>1, <2>2, <3>1, <4>1, <5>1 DEF Failed, Back
      <4>2. CASE f \notin Failed(S)
        <5>1. f \notin Y
          BY <2>2, <4>2, FileFacts DEF Failed, StatusFits, Back
        <5> QED BY <1>1, <4>2, <5>1
      <4> QED BY <4>1, <4>2
    <3> QED BY <3>1, BudgetedThen
  <2>5. \A f \in Kept(b) : file'[f].received = file[f].received
    BY <1>1, KeptFiles
  <2>6. /\ upload'[b].declared = upload[b].declared /\ upload'[b].received = upload[b].received
        /\ upload'[b].expanded = upload[b].expanded - EntryBytes(Y)
        /\ upload'[b].count = upload[b].count - EntryCount(Y)
    BY <2>2 DEF TookBack
  <2> QED BY <2>1, <2>3, <2>4, <2>5, <2>6, FreedStep DEF Accounts
<1> QED BY <1>2, Fixed DEF Accounts

LEMMA FailureTakes ==
  ASSUME QueueInv, FilesInv, NEW f \in Files, file[f].status # "ABSENT", RecordUploadFileFailure(f)
  PROVE  TookBack({f})
<1>1. file' = Failing({f}) /\ upload' = Released(upload, {f}) /\ {f} \in SUBSET Files
  BY DEF RecordUploadFileFailure
<1>2. upload \in [Batches -> UploadRow] /\ scenario \in Scenarios
  BY DEF QueueInv, FilesInv, RowsOK
<1> QED BY <1>1, <1>2, ReleasedFacts DEF TookBack

LEMMA TookAccounts ==
  ASSUME QueueInv, FilesInv, FilesInv', scenario' = scenario, Accounts, withdrawn' = withdrawn, NEW f \in Files, Took(f)
  PROVE  Accounts'
<1>1. PICK c \in Batches : c = Shape[f].batch
  BY ShapeFacts DEF QueueInv
<1>2. /\ upload'[c].expanded = upload[c].expanded + EntryBytes({f})
      /\ upload'[c].count = upload[c].count + EntryCount({f})
      /\ upload'[c].declared = upload[c].declared /\ upload'[c].received = upload[c].received
      /\ \A d \in Batches : d # c => upload'[d] = upload[d]
      /\ file'[f].resv = "RESERVED" /\ file'[f].received = file[f].received /\ file'[f].status = file[f].status
      /\ \A g \in Files : g # f => file'[g] = file[g]
  BY <1>1, TookRow
<1>3. /\ file[f].status = "ENCRYPTING" /\ file[f].resv = "NONE"
      /\ upload[c].expanded + EntryBytes({f}) <= MaxExpanded /\ upload[c].count + EntryCount({f}) <= MaxFiles
  BY <1>1 DEF Took
<1>4. ASSUME NEW b \in Batches PROVE BatchExact(b)'
  <2>1. Kept(b)' = Kept(b)
    BY <1>2, KeptSame
  <2>2. \A g \in Kept(b) : file'[g].received = file[g].received
    BY <1>2, KeptFiles
  <2>3. CASE b = c
    <3>1. f \notin Budgeted(b) /\ Budgeted(b)' = Budgeted(b) \cup {f}
      BY <1>1, <1>2, <1>3, <2>3, BudgetedThen
    <3> QED BY <1>2, <1>3, <2>1, <2>2, <2>3, <3>1, TookStep DEF Accounts
  <2>4. CASE b # c
    <3>1. Budgeted(b)' = Budgeted(b)
      BY <1>1, <1>2, <2>4, BudgetedSame
    <3> QED BY <1>2, <2>1, <2>2, <2>4, <3>1, SameStep DEF Accounts
  <2> QED BY <2>3, <2>4
<1> QED BY <1>4, Fixed DEF Accounts

LEMMA GaveAccounts ==
  ASSUME QueueInv, FilesInv, FilesInv', scenario' = scenario, Accounts, withdrawn' = withdrawn, NEW f \in Files, Gave(f)
  PROVE  Accounts'
<1>1. /\ file'[f].resv = "NONE" /\ file'[f].received = file[f].received /\ file'[f].status = file[f].status
      /\ \A g \in Files : g # f => file'[g] = file[g]
      /\ file[f].resv = "RESERVED" /\ file[f].status = "ENCRYPTING"
  BY GaveRow, FileFacts DEF Gave, StatusFits
<1>2. upload \in [Batches -> UploadRow] /\ scenario \in Scenarios /\ upload' = Released(upload, {f}) /\ {f} \in SUBSET Files
  BY DEF QueueInv, FilesInv, RowsOK, Gave
<1>3. ASSUME NEW b \in Batches PROVE BatchExact(b)'
  <2>1. Kept(b)' = Kept(b)
    BY <1>1, KeptSame
  <2>2. \A g \in Kept(b) : file'[g].received = file[g].received
    BY <1>1, KeptFiles
  <2>3. PICK Y \in SUBSET Files : Y = Back({f}, b)
    BY DEF Back
  <2>4. Y \in SUBSET Budgeted(b) /\ Budgeted(b)' = Budgeted(b) \ Y
    <3>1. Y = IF Shape[f].batch = b THEN {f} ELSE {}
      BY <1>1, <2>3 DEF Back
    <3> QED BY <1>1, <3>1, BudgetedThen
  <2>5. /\ upload'[b].declared = upload[b].declared /\ upload'[b].received = upload[b].received
        /\ upload'[b].expanded = upload[b].expanded - EntryBytes(Y)
        /\ upload'[b].count = upload[b].count - EntryCount(Y)
    BY <1>2, <2>3, ReleasedFacts
  <2> QED BY <2>1, <2>2, <2>4, <2>5, FreedStep DEF Accounts
<1> QED BY <1>3, Fixed DEF Accounts

LEMMA StoredAccounts ==
  ASSUME QueueInv, FilesInv, FilesInv', scenario' = scenario, Accounts, UNCHANGED <<withdrawn, upload>>,
         NEW f \in Files, StoredNow(f), file[f].status = "ENCRYPTING", Shape[f].kind = "ZIP" => file[f].resv = "RESERVED"
  PROVE  Accounts'
<1>1. /\ file'[f].status = "STORED" /\ file'[f].received = file[f].received
      /\ file'[f].resv = IF Shape[f].kind = "ZIP" THEN "COMMITTED" ELSE file[f].resv
      /\ \A g \in Entries(f) : g \in Files /\ g # f /\ file[g].status = "ABSENT" /\ file'[g].resv = "NONE"
      /\ \A g \in Files : g # f /\ g \notin Entries(f) => file'[g] = file[g]
      /\ f # NoFile /\ \A g \in Entries(f) : Shape[g].parent = f
  BY ShapeFacts DEF StoredNow, Entries, QueueInv
<1>2. ASSUME NEW b \in Batches PROVE BatchExact(b)'
  <2>1. Kept(b)' = Kept(b)
    <3>1. ASSUME NEW g \in Files, Shape[g].parent = NoFile PROVE file'[g].status = "ABSENT" <=> file[g].status = "ABSENT"
      BY <1>1, <3>1
    <3> QED BY <3>1, KeptSame
  <2>2. \A g \in Kept(b) : file'[g].received = file[g].received
    BY <1>1, KeptFiles
  <2>3. Budgeted(b)' = Budgeted(b)
    <3>1. ASSUME NEW g \in Files
          PROVE  file'[g].status # "ABSENT" /\ file'[g].resv # "NONE" <=> file[g].status # "ABSENT" /\ file[g].resv # "NONE"
      BY <1>1
    <3> QED BY <3>1, BudgetedSame
  <2> QED BY <2>1, <2>2, <2>3, SameStep DEF Accounts
<1> QED BY <1>2, Fixed DEF Accounts

LEMMA RegisterAccounts ==
  ASSUME QueueInv, FilesInv, FilesInv', scenario' = scenario, Accounts, withdrawn' = withdrawn,
         NEW c \in Batches, NEW S \in SUBSET Files, Register(c, S), upload[c].status \in {"ABSENT", "OPEN", "UPLOADING"}
  PROVE  Accounts'
<1>1. /\ \A f \in S : /\ file[f].status = "ABSENT" /\ Shape[f].batch = c /\ Shape[f].parent = NoFile
                      /\ file'[f].status # "ABSENT" /\ file'[f].received = file[f].received /\ file'[f].resv = file[f].resv
      /\ \A f \in Files \ S : file'[f] = file[f]
      /\ upload'[c].declared = upload[c].declared + Sizes(S)
      /\ upload'[c].count = upload[c].count + Cardinality(S)
      /\ upload'[c].received = upload[c].received /\ upload'[c].expanded = upload[c].expanded
      /\ \A d \in Batches : d # c => upload'[d] = upload[d]
      /\ Fits(c, S)
  <2>1. Registered(c, S)
    BY RegisterRows
  <2>2. Fits(c, S)
    BY DEF Register
  <2>3. \A f \in S : file'[f].status # "ABSENT"
    BY <2>1 DEF Registered
  <2> QED BY <2>1, <2>2, <2>3 DEF Registered
<1>2. \A f \in S : file[f].received = 0 /\ file[f].resv = "NONE" /\ f \notin withdrawn
  BY <1>1, FileFacts DEF StatusFits, FileRow
<1>3. ASSUME NEW b \in Batches PROVE BatchExact(b)'
  <2>1. Budgeted(b)' = Budgeted(b)
    <3>1. \A f \in Files : file'[f].status # "ABSENT" /\ file'[f].resv # "NONE" <=> file[f].status # "ABSENT" /\ file[f].resv # "NONE"
      BY <1>1, <1>2
    <3> QED BY <3>1, BudgetedSame
  <2>2. \A f \in Kept(b) : file'[f].received = file[f].received
    BY <1>1, KeptFiles
  <2>3. CASE b # c
    <3>1. Kept(b)' = Kept(b)
      <4>1. \A f \in Files : Shape[f].batch = b => file'[f] = file[f]
        BY <1>1, <2>3
      <4> QED BY <4>1, KeptSame
    <3> QED BY <1>1, <2>1, <2>2, <2>3, <3>1, SameStep DEF Accounts
  <2>4. CASE b = c
    <3>1. S \cap Kept(b) = {}
      BY <1>1 DEF Kept, TopLevel, Of
    <3>2. Kept(b)' = Kept(b) \cup S
      <4>1. \A f : f \in Kept(b) <=> /\ f \in Files /\ Shape[f].batch = b /\ Shape[f].parent = NoFile
                                     /\ file[f].status # "ABSENT" /\ f \notin withdrawn
        BY DEF Kept, TopLevel, Of
      <4>2. \A f : f \in Kept(b)' <=> /\ f \in Files /\ Shape[f].batch = b /\ Shape[f].parent = NoFile
                                      /\ file'[f].status # "ABSENT" /\ f \notin withdrawn
        BY Fixed DEF Kept, TopLevel, Of
      <4>3. \A f \in Files : file'[f].status # "ABSENT" <=> (file[f].status # "ABSENT" \/ f \in S)
        BY <1>1
      <4> QED BY <1>1, <1>2, <2>4, <4>1, <4>2, <4>3
    <3>3. \A f \in S : file'[f].received = 0
      BY <1>1, <1>2
    <3> QED BY <1>1, <2>1, <2>2, <2>4, <3>1, <3>2, <3>3, RegisteredStep DEF Accounts
  <2> QED BY <2>3, <2>4
<1> QED BY <1>3, Fixed DEF Accounts

LEMMA TopLevelWaits ==
  ASSUME QueueInv, FilesInv, NEW f \in Files, file[f].status # "ABSENT", upload[Shape[f].batch].status # "READY"
  PROVE  Shape[f].parent = NoFile
<1> SUFFICES ASSUME Shape[f].parent # NoFile PROVE FALSE
  OBVIOUS
<1>1. PICK p \in Files : p = Shape[f].parent
  BY ShapeFacts DEF QueueInv
<1>2. Shape[p].batch = Shape[f].batch
  BY <1>1, ShapeFacts DEF QueueInv
<1>3. file[p].status = "STORED"
  BY <1>1, FileFacts DEF StatusFits
<1> QED BY <1>1, <1>2, <1>3, FileFacts DEF StatusFits

LEMMA RemoveAccounts ==
  ASSUME QueueInv, FilesInv, FilesInv', scenario' = scenario, Accounts,
         NEW c \in Batches, NEW S \in SUBSET {f \in Files : Shape[f].batch = c}, RemoveFiles(c, S)
  PROVE  Accounts'
<1>1. PICK new \in SUBSET Files : new = S \ withdrawn
  OBVIOUS
<1>2. /\ S \subseteq Files /\ file' = Failing(S) /\ upload[c].status = "UPLOADING"
      /\ upload'[c].declared = upload[c].declared - Sizes(new)
      /\ upload'[c].received = upload[c].received - Received(new)
      /\ upload'[c].count = upload[c].count - Cardinality(new)
      /\ upload'[c].expanded = upload[c].expanded
      /\ \A d \in Batches : d # c => upload'[d] = upload[d]
      /\ \A f \in S : Shape[f].batch = c /\ file[f].status \notin {"ABSENT", "STORED"} /\ file[f].resv = "NONE"
      /\ withdrawn' = withdrawn \cup S
  <2>1. Removed(c, S)
    BY RemoveRows
  <2>2. S \subseteq Files /\ \A f \in S : Shape[f].batch = c
    OBVIOUS
  <2> QED BY <1>1, <2>1, <2>2 DEF Removed
<1>3. \A f \in S : Shape[f].parent = NoFile
  BY <1>2, TopLevelWaits
<1>4. /\ \A f \in S : file'[f].status = "FAILED" /\ file'[f].resv = "NONE" /\ file'[f].received = file[f].received
      /\ \A f \in Files \ S : file'[f] = file[f]
  BY <1>2, FailingRows DEF Failed
<1>5. ASSUME NEW b \in Batches PROVE BatchExact(b)'
  <2>1. Budgeted(b)' = Budgeted(b)
    <3>1. \A f \in Files : file'[f].status # "ABSENT" /\ file'[f].resv # "NONE" <=> file[f].status # "ABSENT" /\ file[f].resv # "NONE"
      BY <1>2, <1>4
    <3> QED BY <3>1, BudgetedSame
  <2>2. \A f \in Kept(b) : file'[f].received = file[f].received
    BY <1>4, KeptFiles
  <2>3. /\ \A f : f \in Kept(b) <=> /\ f \in Files /\ Shape[f].batch = b /\ Shape[f].parent = NoFile
                                    /\ file[f].status # "ABSENT" /\ f \notin withdrawn
        /\ \A f : f \in Kept(b)' <=> /\ f \in Files /\ Shape[f].batch = b /\ Shape[f].parent = NoFile
                                     /\ file'[f].status # "ABSENT" /\ f \notin withdrawn'
    BY Fixed DEF Kept, TopLevel, Of
  <2>4. \A f \in Files : file'[f].status # "ABSENT" <=> file[f].status # "ABSENT"
    BY <1>2, <1>4
  <2>5. CASE b # c
    <3>1. \A f \in Files : Shape[f].batch = b => (f \in withdrawn' <=> f \in withdrawn)
      BY <1>2, <2>5
    <3>2. \A f : f \in Kept(b)' <=> f \in Kept(b)
      BY <2>3, <2>4, <3>1
    <3>3. Kept(b)' = Kept(b)
      BY <3>2
    <3> QED BY <1>2, <2>1, <2>2, <2>5, <3>3, SameStep DEF Accounts
  <2>6. CASE b = c
    <3>1. new \in SUBSET Kept(b)
      BY <1>1, <1>2, <1>3, <2>3, <2>6
    <3>2. \A f : f \in Kept(b)' <=> f \in Kept(b) /\ f \notin new
      BY <1>1, <1>2, <2>3, <2>4
    <3>3. Kept(b)' = Kept(b) \ new
      BY <3>2
    <3> QED BY <1>2, <2>1, <2>2, <2>6, <3>1, <3>3, WithdrawnStep DEF Accounts
  <2> QED BY <2>5, <2>6
<1> QED BY <1>5, Fixed DEF Accounts

LEMMA CommitChunkAccounts ==
  ASSUME QueueInv, FilesInv, FilesInv', scenario' = scenario, Accounts, withdrawn' = withdrawn,
         NEW q \in Requests, CommitChunk(q)
  PROVE  Accounts'
<1>1. PICK f \in Files, c \in Batches, len \in Nat : f = inflight[q].file /\ c = Shape[f].batch /\ len = inflight[q].len
  BY CommitChunkRows DEF Committed
<1>2. /\ file[f].status \in {"PENDING", "UPLOADING"} /\ upload[c].status \in {"OPEN", "UPLOADING"}
      /\ file'[f].status \in {"COMPLETE", "UPLOADING"} /\ file'[f].received = file[f].received + len
      /\ file'[f].resv = file[f].resv
      /\ \A g \in Files : g # f => file'[g] = file[g]
      /\ upload'[c].received = upload[c].received + len
      /\ upload'[c].declared = upload[c].declared /\ upload'[c].count = upload[c].count
      /\ upload'[c].expanded = upload[c].expanded
      /\ \A d \in Batches : d # c => upload'[d] = upload[d]
  BY <1>1, CommitChunkRows DEF Committed
<1>3. ASSUME NEW b \in Batches PROVE BatchExact(b)'
  <2>1. Kept(b)' = Kept(b) /\ Budgeted(b)' = Budgeted(b)
    BY <1>2, KeptSame, BudgetedSame
  <2>2. CASE b = c
    <3>1. f \in Kept(b)
      <4>1. Shape[f].parent = NoFile
        BY <1>1, <1>2, TopLevelWaits
      <4>2. f \notin withdrawn
        BY <1>2, FileFacts DEF StatusFits
      <4> QED BY <1>1, <1>2, <2>2, <4>1, <4>2 DEF Kept, TopLevel, Of
    <3>2. \A g \in Kept(b) : file'[g].received = file[g].received + (IF g = f THEN len ELSE 0)
      <4>1. \A g \in Files : file[g].received \in Nat
        BY FileFacts DEF FileRow
      <4> QED BY <1>2, <4>1, KeptFiles
    <3> QED BY <1>2, <2>1, <2>2, <3>1, <3>2, ReceivedStep DEF Accounts
  <2>3. CASE b # c
    <3>1. \A g \in Kept(b) : file'[g].received = file[g].received
      BY <1>1, <1>2, <2>3, KeptFiles
    <3> QED BY <1>2, <2>1, <2>3, <3>1, SameStep DEF Accounts
  <2> QED BY <2>2, <2>3
<1> QED BY <1>3, Fixed DEF Accounts

-----------------------------------------------------------------------------
(* The actions.                                                             *)

LEMMA UntouchedAccounts ==
  ASSUME QueueInv, FilesInv, FilesInv', scenario' = scenario, Accounts, UNCHANGED <<upload, file, withdrawn>>
  PROVE  Accounts'
BY QuietAccounts

LEMMA ApiAccounts ==
  ASSUME QueueInv, FilesInv, FilesInv', scenario' = scenario, Accounts, Api
  PROVE  Accounts'
<1>1. ASSUME NEW b \in Batches, CreateBatch(b) PROVE Accounts'
  <2>1. UNCHANGED <<file, withdrawn>> /\ upload' = [upload EXCEPT ![b].status = "OPEN"]
    BY <1>1 DEF CreateBatch
  <2>2. \A c \in Batches : /\ upload'[c].declared = upload[c].declared /\ upload'[c].received = upload[c].received
                           /\ upload'[c].expanded = upload[c].expanded /\ upload'[c].count = upload[c].count
    BY <2>1 DEF FilesInv, RowsOK, UploadRow
  <2> QED BY <2>1, <2>2, QuietAccounts
<1>2. ASSUME NEW b \in Batches, CancelBatch(b) PROVE Accounts'
  BY <1>2, CancelTakes, TookBackAccounts DEF CancelBatch
<1>3. ASSUME NEW b \in Batches, NEW S \in SUBSET {f \in Files : Shape[f].batch = b},
             CreateBatchWithFiles(b, S) \/ CreateFiles(b, S)
      PROVE  Accounts'
  <2>1. S \in SUBSET Files /\ Register(b, S) /\ upload[b].status \in {"ABSENT", "OPEN", "UPLOADING"} /\ withdrawn' = withdrawn
    BY <1>3 DEF CreateBatchWithFiles, CreateFiles
  <2> QED BY <2>1, RegisterAccounts
<1>4. ASSUME NEW b \in Batches, NEW S \in SUBSET {f \in Files : Shape[f].batch = b}, RemoveFiles(b, S) PROVE Accounts'
  BY <1>4, RemoveAccounts
<1>5. ASSUME \/ \E b \in Batches : \E S \in SUBSET {f \in Files : Shape[f].batch = b} : RemoveAgain(b, S)
             \/ \E q \in Requests, f \in Files, len \in ChunkLengths : StageChunk(q, f, len)
             \/ \E q \in Requests : DropChunk(q)
      PROVE  Accounts'
  BY <1>5, UntouchedAccounts DEF RemoveAgain, StageChunk, DropChunk
<1>6. ASSUME NEW q \in Requests, CommitChunk(q) PROVE Accounts'
  BY <1>6, CommitChunkAccounts DEF CommitChunk
<1>7. ASSUME NEW f \in Files, FailFile(f) PROVE Accounts'
  <2>1. file[f].status # "ABSENT" /\ RecordUploadFileFailure(f) /\ withdrawn' = withdrawn /\ {f} \in SUBSET Files
    BY <1>7 DEF FailFile, Failable
  <2> QED BY <2>1, FailureTakes, TookBackAccounts
<1> QED BY <1>1, <1>2, <1>3, <1>4, <1>5, <1>6, <1>7 DEF Api

LEMMA TimeAccounts ==
  ASSUME QueueInv, FilesInv, FilesInv', scenario' = scenario, Accounts,
         \/ Time \/ ExpireStaging \/ Cleaner
         \/ \E b \in Batches : CompleteBatch(b)
         \/ \E f \in Files : CleanUpLost(f)
  PROVE  Accounts'
<1>1. ASSUME NEW b \in Batches, Tick(b) \/ CompleteBatch(b) PROVE Accounts'
  <2>1. /\ UNCHANGED <<file, withdrawn>>
        /\ upload' = [upload EXCEPT ![b].due = TRUE] \/ upload' = [upload EXCEPT ![b].status = "READY"]
    BY <1>1 DEF Tick, CompleteBatch
  <2>2. \A c \in Batches : /\ upload'[c].declared = upload[c].declared /\ upload'[c].received = upload[c].received
                           /\ upload'[c].expanded = upload[c].expanded /\ upload'[c].count = upload[c].count
    BY <2>1 DEF FilesInv, RowsOK, UploadRow
  <2> QED BY <2>1, <2>2, QuietAccounts
<1>2. CASE ExpireStaging
  BY <1>2, ExpireTakes, TookBackAccounts DEF ExpireStaging
<1>3. ASSUME NEW f \in Files, CleanUp(f) PROVE Accounts'
  <2>1. UNCHANGED <<upload, withdrawn>> /\ file' = [file EXCEPT ![f].temp = FALSE]
    BY <1>3 DEF CleanUp
  <2>2. \A g \in Files : /\ file'[g].status = file[g].status
                         /\ file'[g].resv = file[g].resv /\ file'[g].received = file[g].received
    BY <2>1 DEF FilesInv, RowsOK, FileRow
  <2> QED BY <2>1, <2>2, QuietAccounts
<1>4. ASSUME NEW f \in Files, CleanUpLost(f) PROVE Accounts'
  BY <1>4, UntouchedAccounts DEF CleanUpLost
<1> QED BY <1>1, <1>2, <1>3, <1>4 DEF Time, Cleaner

LEMMA HandlerAccounts ==
  ASSUME QueueInv, FilesInv, FilesInv', scenario' = scenario, Accounts, NEW s \in Slots,
         FinalizeStep(s) \/ AnalyzeStep(s) \/ CommitUnanswered(s) \/ StepRefused(s)
  PROVE  Accounts'
<1>1. CASE Restore(s) \/ WriteCiphertext(s) \/ Tidy(s) \/ AnalyzeStep(s) \/ StepRefused(s)
  <2>1. UNCHANGED <<upload, file, withdrawn>>
    BY <1>1 DEF Restore, WriteCiphertext, Tidy, AnalyzeStep, ReadObject, RecordAnalysis, ProjectAnalysisFailure,
       StepRefused, uploadVars
  <2> QED BY <2>1, UntouchedAccounts
<1>2. CASE Claim(s)
  <2>1. PICK f \in Files : f = Target(s)
    BY <1>2, ClaimMoves
  <2>2. /\ UNCHANGED <<upload, withdrawn>>
        /\ file' = file \/ (file' = [file EXCEPT ![f].status = "ENCRYPTING"] /\ file[f].status \in {"COMPLETE", "ENCRYPTING"})
    BY <1>2, <2>1 DEF Claim
  <2>3. \A g \in Files : /\ file'[g].status = "ABSENT" <=> file[g].status = "ABSENT"
                         /\ file'[g].resv = file[g].resv /\ file'[g].received = file[g].received
    BY <2>2 DEF FilesInv, RowsOK, FileRow
  <2> QED BY <2>2, <2>3, QuietAccounts
<1>3. CASE Reserve(s)
  <2>1. PICK f \in Files : f = Target(s)
    BY <1>3, ReserveMoves
  <2>2. withdrawn' = withdrawn /\ (UNCHANGED <<file, upload>> \/ Took(f))
    BY <1>3, <2>1, ReserveTakes DEF Reserve
  <2> QED BY <2>2, UntouchedAccounts, TookAccounts
<1>4. CASE Undo(s)
  <2>1. PICK f \in Files : f = Target(s)
    BY <1>4, UndoMoves
  <2>2. withdrawn' = withdrawn /\ (UNCHANGED <<file, upload>> \/ Gave(f))
    BY <1>4, <2>1, UndoGives DEF Undo
  <2> QED BY <2>2, UntouchedAccounts, GaveAccounts
<1>5. CASE CommitStored(s) \/ CommitUnanswered(s)
  <2>1. PICK f \in Files : f = Target(s)
    BY <1>5, CommitMoves
  <2>2. /\ UNCHANGED <<upload, withdrawn>>
        /\ \/ Storable(f) /\ Stored(f) /\ (Shape[f].kind = "ZIP" => file[f].resv = "RESERVED")
           \/ file' = file
    BY <1>5, <2>1 DEF CommitStored, CommitUnanswered
  <2>3. CASE file' = file
    BY <2>2, <2>3, UntouchedAccounts
  <2>4. CASE Storable(f) /\ Stored(f) /\ (Shape[f].kind = "ZIP" => file[f].resv = "RESERVED")
    <3>1. file[f].status = "ENCRYPTING" /\ StoredNow(f)
      BY <2>4, StoredRows DEF Storable
    <3> QED BY <2>2, <2>4, <3>1, StoredAccounts
  <2> QED BY <2>2, <2>3, <2>4
<1>6. CASE ProjectFinalizeFailure(s)
  <2>1. PICK f \in Files : f = Target(s)
    BY <1>6, ProjectFinalizeMoves
  <2>2. /\ withdrawn' = withdrawn
        /\ UNCHANGED <<upload, file>> \/ (file[f].status # "ABSENT" /\ RecordUploadFileFailure(f))
    BY <1>6, <2>1 DEF ProjectFinalizeFailure, Failable
  <2>3. {f} \in SUBSET Files
    OBVIOUS
  <2> QED BY <2>2, <2>3, UntouchedAccounts, FailureTakes, TookBackAccounts
<1>7. CASE SweepFailed(s)
  <2>1. PICK f \in Files : f = Target(s)
    BY <1>7, SweepMoves
  <2>2. UNCHANGED <<upload, withdrawn>> /\ file' = [file EXCEPT ![f].temp = FALSE]
    BY <1>7, <2>1 DEF SweepFailed
  <2>3. \A g \in Files : /\ file'[g].status = file[g].status
                         /\ file'[g].resv = file[g].resv /\ file'[g].received = file[g].received
    BY <2>2 DEF FilesInv, RowsOK, FileRow
  <2> QED BY <2>2, <2>3, QuietAccounts
<1> QED BY <1>1, <1>2, <1>3, <1>4, <1>5, <1>6, <1>7 DEF FinalizeStep

LEMMA ReconcilerAccounts ==
  ASSUME QueueInv, FilesInv, FilesInv', scenario' = scenario, Accounts,
         ReconcilerStep \/ (ReconciliationLost /\ UNCHANGED uploadVars)
  PROVE  Accounts'
<1>1. CASE UNCHANGED uploadVars \/ ReconcileAnalysis
  BY <1>1, UntouchedAccounts DEF uploadVars, ReconcileAnalysis
<1>2. CASE ReconcileFinalize
  <2>1. PICK f \in Files : f = rec.work.obj
    BY <1>2, RecFacts DEF ReconcileFinalize, RecIdle
  <2>2. /\ withdrawn' = withdrawn
        /\ UNCHANGED <<upload, file>> \/ (file[f].status # "ABSENT" /\ RecordUploadFileFailure(f))
    BY <1>2, <2>1 DEF ReconcileFinalize, Hopeless
  <2>3. {f} \in SUBSET Files
    OBVIOUS
  <2> QED BY <2>2, <2>3, UntouchedAccounts, FailureTakes, TookBackAccounts
<1>3. CASE ReconcileSweep
  <2>1. PICK f \in Files : f = rec.work.obj
    BY <1>3, RecFacts DEF ReconcileSweep, RecIdle
  <2>2. UNCHANGED <<upload, withdrawn>> /\ file' = [file EXCEPT ![f].temp = FALSE]
    BY <1>3, <2>1 DEF ReconcileSweep
  <2>3. \A g \in Files : /\ file'[g].status = file[g].status
                         /\ file'[g].resv = file[g].resv /\ file'[g].received = file[g].received
    BY <2>2 DEF FilesInv, RowsOK, FileRow
  <2> QED BY <2>2, <2>3, QuietAccounts
<1> QED BY <1>1, <1>2, <1>3 DEF ReconcilerStep

LEMMA NextAccounts == QueueInv /\ FilesInv /\ Accounts /\ [Next]_vars => Accounts'
<1> SUFFICES ASSUME QueueInv, FilesInv, Accounts, [Next]_vars PROVE Accounts'
  OBVIOUS
<1>0. scenario' = scenario /\ FilesInv'
  BY NextScenario, NextFiles DEF FilesKept
<1>1. CASE UNCHANGED uploadVars
  BY <1>0, <1>1, UntouchedAccounts DEF uploadVars
<1>2. CASE UNCHANGED vars
  BY <1>0, <1>2, UntouchedAccounts DEF vars
<1>3. CASE Staging(Api)
  BY <1>0, <1>3, ApiAccounts DEF Staging
<1>4. CASE Staging(Time) \/ Staging(ExpireStaging) \/ Staging(Cleaner)
  BY <1>0, <1>4, TimeAccounts DEF Staging
<1>5. CASE NoFault(\E b \in Batches : CompleteBatch(b))
  BY <1>0, <1>5, TimeAccounts DEF NoFault
<1>6. CASE QueueOnly(QueueStep) \/ (QueueFault /\ UNCHANGED uploadVars)
  BY <1>1, <1>6 DEF QueueOnly
<1>7. CASE NoFault(\E s \in Slots : FinalizeStep(s) \/ AnalyzeStep(s))
  <2>1. PICK s \in Slots : FinalizeStep(s) \/ AnalyzeStep(s)
    BY <1>7 DEF NoFault
  <2> QED BY <1>0, <2>1, HandlerAccounts
<1>8. CASE NoFault(ReconcilerStep) \/ (ReconciliationLost /\ UNCHANGED uploadVars)
  BY <1>0, <1>8, ReconcilerAccounts DEF NoFault
<1>9. CASE \E f \in Files : CleanUpLost(f) /\ UNCHANGED queueVars
  BY <1>0, <1>9, TimeAccounts
<1>10. CASE \E s \in Slots : CommitUnanswered(s) \/ StepRefused(s)
  <2>1. PICK s \in Slots : CommitUnanswered(s) \/ StepRefused(s)
    BY <1>10
  <2> QED BY <1>0, <2>1, HandlerAccounts
<1> QED BY <1>2, <1>3, <1>4, <1>5, <1>6, <1>7, <1>8, <1>9, <1>10 DEF Next

LEMMA InitAccounts ==
  ASSUME Init PROVE Accounts
<1>1. /\ upload = [b \in Batches |-> [status |-> "ABSENT", declared |-> 0, received |-> 0, count |-> 0,
                                      expanded |-> 0, due |-> FALSE]]
      /\ \A f \in Files : file[f].status = "ABSENT"
      /\ scenario \in Scenarios
  BY DEF Init, QueueInit, UploadsInit
<1>2. MaxBatchBytes \in Nat /\ MaxFiles \in Nat /\ MaxExpanded \in Nat
  BY <1>1, ShapeFacts
<1>3. ASSUME NEW b \in Batches PROVE BatchExact(b)
  <2>1. Kept(b) = {} /\ Budgeted(b) = {}
    BY <1>1 DEF Kept, Budgeted, TopLevel, Of
  <2>2. Under({}) = {}
    BY DEF Under
  <2>3. SumFunctionOnSet(SizeMap, {}) = 0 /\ SumFunctionOnSet(GotMap, {}) = 0 /\ Cardinality({}) = 0
    BY SumEmpty, FS_EmptySet
  <2>4. /\ upload[b].declared = 0 /\ upload[b].received = 0 /\ upload[b].count = 0 /\ upload[b].expanded = 0
    BY <1>1
  <2>5. Exact(upload[b], GotMap, {}, {})
    BY <1>2, <2>2, <2>3, <2>4 DEF Exact
  <2> QED BY <2>1, <2>5 DEF BatchExact
<1> QED BY <1>3 DEF Accounts

(* What a batch was charged is what its files take, after any number of     *)
(* repeated withdrawals, attempts that die, failures, expiries and          *)
(* cancellations (uploads/service.ts, archive-budget.ts, finalize.ts).      *)
THEOREM UsageExactHolds == Spec => []UsageExact
<1>1. Init => QueueInv /\ FilesInv /\ Accounts
  BY InitQueue, InitFiles, InitAccounts
<1>2. QueueInv /\ FilesInv /\ Accounts /\ [Next]_vars => QueueInv' /\ FilesInv' /\ Accounts'
  BY NextQueue, NextFiles, NextAccounts DEF FilesKept
<1>3. Accounts => UsageExact
  BY ExactUsage DEF Accounts
<1> QED BY <1>1, <1>2, <1>3, PTL DEF Spec

-----------------------------------------------------------------------------
(* The receipts of a file.                                                  *)

LenMap == [r \in receipts |-> r.len]

Receipted ==
  /\ IsFiniteSet(receipts) /\ receipts \subseteq [file : Files, offset : Nat, len : Nat]
  /\ ChunksExact

LEMMA QuietReceipts ==
  ASSUME scenario' = scenario, Receipted, receipts' = receipts,
         \A f \in Files : Shape[f].parent = NoFile => file'[f].received = file[f].received
  PROVE  Receipted'
<1>1. Files' = Files /\ Shape' = Shape /\ \A f : ReceiptsOf(f)' = ReceiptsOf(f)
  BY Fixed DEF ReceiptsOf
<1> QED BY <1>1 DEF Receipted, ChunksExact

LEMMA CommittedReceipts ==
  ASSUME QueueInv, FilesInv, scenario' = scenario, Receipted, NEW q \in Requests, CommitChunk(q)
  PROVE  Receipted'
<1>1. PICK c \in [file : Files, offset : Nat, len : Nat], f \in Files : c = inflight[q] /\ f = c.file
  BY CommitChunkRows DEF Committed
<1>2. /\ c.offset \in Nat /\ c.len \in Nat
      /\ c.offset = file[f].received /\ c.offset + c.len <= Shape[f].size
      /\ \A r \in receipts : ~(r.file = f /\ r.offset = c.offset)
      /\ receipts' = receipts \cup {c}
      /\ file'[f].received = file[f].received + c.len
      /\ \A g \in Files : g # f => file'[g] = file[g]
  BY <1>1, CommitChunkRows DEF Committed
<1>3. c \notin receipts
  BY <1>1, <1>2
<1>4. IsFiniteSet(receipts') /\ receipts' \subseteq [file : Files, offset : Nat, len : Nat]
  BY <1>1, <1>2, FS_AddElement DEF Receipted
<1>5. PICK old, new : old = LenMap /\ new = [r \in receipts' |-> r.len]
  OBVIOUS
<1>6. /\ \A r \in receipts : old[r] = r.len /\ new[r] = r.len /\ r.len \in Nat /\ r.offset \in Nat
      /\ new[c] = c.len
  BY <1>2, <1>5 DEF LenMap, Receipted
<1>7. ASSUME NEW g \in Files, Shape[g].parent = NoFile
      PROVE  /\ file'[g].received = SumFunctionOnSet(new, {r \in receipts' : r.file = g})
             /\ file'[g].received <= Shape[g].size
             /\ \A r \in receipts' : r.file = g => r.offset + r.len <= file'[g].received
  <2>1. PICK R \in SUBSET receipts : R = ReceiptsOf(g)
    BY DEF ReceiptsOf
  <2>2. /\ file[g].received = SumFunctionOnSet(old, R) /\ file[g].received <= Shape[g].size
        /\ \A r \in R : r.offset + r.len <= file[g].received
        /\ file[g].received \in Nat
    BY <1>5, <1>7, <2>1, FileFacts DEF Receipted, ChunksExact, LenMap, FileRow
  <2>3. IsFiniteSet(R)
    BY FS_Subset DEF Receipted
  <2>4. SumFunctionOnSet(new, R) = SumFunctionOnSet(old, R)
    BY <1>6, <2>3, SumSame
  <2>5. CASE g = f
    <3>1. {r \in receipts' : r.file = g} = R \cup {c}
      BY <1>1, <1>2, <2>1, <2>5 DEF ReceiptsOf
    <3>2. IsFiniteSet(R \cup {c}) /\ (R \cup {c}) \ {c} = R /\ c \in R \cup {c}
          /\ \A r \in R \cup {c} : new[r] \in Nat
      BY <1>2, <1>3, <1>6, <2>3, FS_AddElement
    <3>3. SumFunctionOnSet(new, R \cup {c}) = new[c] + SumFunctionOnSet(new, R)
      BY <3>2, SumTakes
    <3>4. file'[g].received = SumFunctionOnSet(new, R \cup {c})
      BY <1>2, <1>6, <2>2, <2>4, <2>5, <3>3
    <3>5. file'[g].received <= Shape[g].size
      BY <1>2, <2>5
    <3>6. ASSUME NEW r \in receipts', r.file = g PROVE r.offset + r.len <= file'[g].received
      <4>1. CASE r = c
        BY <1>2, <2>2, <2>5, <4>1
      <4>2. CASE r # c
        <5>1. r \in R /\ r.offset \in Nat /\ r.len \in Nat
          BY <1>2, <1>6, <2>1, <3>6, <4>2 DEF ReceiptsOf
        <5> QED BY <1>2, <2>2, <2>5, <5>1
      <4> QED BY <4>1, <4>2
    <3> QED BY <3>1, <3>4, <3>5, <3>6
  <2>6. CASE g # f
    <3>1. {r \in receipts' : r.file = g} = R /\ file'[g] = file[g]
      BY <1>1, <1>2, <2>1, <2>6 DEF ReceiptsOf
    <3> QED BY <2>2, <2>4, <3>1
  <2> QED BY <2>5, <2>6
<1>8. ChunksExact'
  BY <1>5, <1>7, Fixed DEF ChunksExact, ReceiptsOf
<1> QED BY <1>4, <1>8, Fixed DEF Receipted

(* A step that receives nothing.                                            *)
Received0 ==
  /\ receipts' = receipts
  /\ \A f \in Files : Shape[f].parent = NoFile => file'[f].received = file[f].received

LEMMA FailingReceives ==
  ASSUME FilesInv, NEW S \in SUBSET Files, file' = Failing(S), receipts' = receipts
  PROVE  Received0
<1>1. \A f \in Files : file'[f].received = file[f].received
  <2>1. ASSUME NEW f \in Files PROVE file'[f].received = file[f].received
    <3>1. file[f] \in FileRow
      BY DEF FilesInv, RowsOK
    <3> QED BY <3>1 DEF Failing, FailedRow, FileRow
  <2> QED BY <2>1
<1> QED BY <1>1 DEF Received0

LEMMA FieldReceives ==
  ASSUME FilesInv, NEW f \in Files, receipts' = receipts,
         \/ file' = file \/ file' = [file EXCEPT ![f].temp = FALSE]
         \/ file' = [file EXCEPT ![f].status = "ENCRYPTING"]
         \/ file' = [file EXCEPT ![f].resv = "RESERVED"]
         \/ file' = [file EXCEPT ![f].resv = "NONE"]
  PROVE  Received0
BY DEF FilesInv, RowsOK, FileRow, Received0

LEMMA StoredReceives ==
  ASSUME QueueInv, FilesInv, NEW f \in Files, Storable(f), Stored(f), receipts' = receipts
  PROVE  Received0
<1>1. StoredNow(f)
  BY StoredRows DEF Storable
<1>2. f # NoFile
  BY ShapeFacts DEF QueueInv
<1> QED BY <1>1, <1>2 DEF StoredNow, Received0, Entries

LEMMA ApiReceives ==
  ASSUME QueueInv, FilesInv, Api
  PROVE  Received0 \/ \E q \in Requests : CommitChunk(q)
<1>1. ASSUME NEW b \in Batches, CreateBatch(b) PROVE Received0
  BY <1>1 DEF CreateBatch, Received0
<1>2. ASSUME NEW b \in Batches, CancelBatch(b) PROVE Received0
  <2>1. receipts' = receipts
    BY <1>2 DEF CancelBatch
  <2>2. PICK S \in SUBSET Files : TookBack(S)
    BY <1>2, CancelTakes
  <2> QED BY <2>1, <2>2, FailingReceives DEF TookBack
<1>3. ASSUME NEW b \in Batches, NEW S \in SUBSET {f \in Files : Shape[f].batch = b},
             CreateBatchWithFiles(b, S) \/ CreateFiles(b, S)
      PROVE  Received0
  <2>1. S \in SUBSET Files /\ Register(b, S) /\ upload[b].status \in {"ABSENT", "OPEN", "UPLOADING"} /\ receipts' = receipts
    BY <1>3 DEF CreateBatchWithFiles, CreateFiles
  <2>2. Registered(b, S)
    BY <2>1, RegisterRows
  <2> QED BY <2>1, <2>2 DEF Registered, Received0
<1>4. ASSUME NEW b \in Batches, NEW S \in SUBSET {f \in Files : Shape[f].batch = b}, RemoveFiles(b, S) PROVE Received0
  <2>1. S \in SUBSET Files /\ file' = Failing(S) /\ receipts' = receipts
    BY <1>4 DEF RemoveFiles
  <2> QED BY <2>1, FailingReceives
<1>5. ASSUME \/ \E b \in Batches : \E S \in SUBSET {f \in Files : Shape[f].batch = b} : RemoveAgain(b, S)
             \/ \E q \in Requests, f \in Files, len \in ChunkLengths : StageChunk(q, f, len)
             \/ \E q \in Requests : DropChunk(q)
      PROVE  Received0
  BY <1>5 DEF RemoveAgain, StageChunk, DropChunk, Received0
<1>6. ASSUME NEW f \in Files, FailFile(f) PROVE Received0
  <2>1. {f} \in SUBSET Files /\ file' = Failing({f}) /\ receipts' = receipts
    BY <1>6 DEF FailFile, RecordUploadFileFailure
  <2> QED BY <2>1, FailingReceives
<1> QED BY <1>1, <1>2, <1>3, <1>4, <1>5, <1>6 DEF Api

LEMMA TimeReceives ==
  ASSUME QueueInv, FilesInv,
         \/ Time \/ ExpireStaging \/ Cleaner
         \/ \E b \in Batches : CompleteBatch(b)
         \/ \E f \in Files : CleanUpLost(f)
  PROVE  Received0
<1>1. ASSUME NEW b \in Batches, Tick(b) \/ CompleteBatch(b) PROVE Received0
  BY <1>1 DEF Tick, CompleteBatch, Received0
<1>2. CASE ExpireStaging
  <2>1. PICK S \in SUBSET Files : file' = Failing(S) /\ receipts' = receipts
    BY <1>2 DEF ExpireStaging
  <2> QED BY <2>1, FailingReceives
<1>3. ASSUME NEW f \in Files, CleanUp(f) \/ CleanUpLost(f) PROVE Received0
  BY <1>3, FieldReceives DEF CleanUp, CleanUpLost
<1> QED BY <1>1, <1>2, <1>3 DEF Time, Cleaner

LEMMA HandlerReceives ==
  ASSUME QueueInv, FilesInv, scenario' = scenario, NEW s \in Slots,
         FinalizeStep(s) \/ AnalyzeStep(s) \/ CommitUnanswered(s) \/ StepRefused(s)
  PROVE  Received0
<1>1. CASE Restore(s) \/ WriteCiphertext(s) \/ Tidy(s) \/ AnalyzeStep(s) \/ StepRefused(s)
  <2>1. UNCHANGED <<file, receipts>>
    BY <1>1 DEF Restore, WriteCiphertext, Tidy, AnalyzeStep, ReadObject, RecordAnalysis, ProjectAnalysisFailure,
       StepRefused, uploadVars
  <2> QED BY <2>1 DEF Received0
<1>2. CASE Claim(s)
  <2>1. PICK f \in Files : f = Target(s)
    BY <1>2, ClaimMoves
  <2> QED BY <1>2, <2>1, FieldReceives DEF Claim
<1>3. CASE Reserve(s)
  <2>1. PICK f \in Files : f = Target(s)
    BY <1>3, ReserveMoves
  <2> QED BY <1>3, <2>1, ReserveTakes, FieldReceives DEF Reserve, Took
<1>4. CASE Undo(s)
  <2>1. PICK f \in Files : f = Target(s)
    BY <1>4, UndoMoves
  <2> QED BY <1>4, <2>1, UndoGives, FieldReceives DEF Undo, Gave
<1>5. CASE CommitStored(s) \/ CommitUnanswered(s)
  <2>1. PICK f \in Files : f = Target(s)
    BY <1>5, CommitMoves
  <2>2. receipts' = receipts /\ ((Storable(f) /\ Stored(f)) \/ file' = file)
    BY <1>5, <2>1 DEF CommitStored, CommitUnanswered
  <2> QED BY <2>2, StoredReceives DEF Received0
<1>6. CASE ProjectFinalizeFailure(s)
  <2>1. PICK f \in Files : f = Target(s)
    BY <1>6, ProjectFinalizeMoves
  <2>2. receipts' = receipts /\ (file' = file \/ file' = Failing({f})) /\ {f} \in SUBSET Files
    BY <1>6, <2>1 DEF ProjectFinalizeFailure, RecordUploadFileFailure
  <2> QED BY <2>2, FailingReceives DEF Received0
<1>7. CASE SweepFailed(s)
  <2>1. PICK f \in Files : f = Target(s)
    BY <1>7, SweepMoves
  <2> QED BY <1>7, <2>1, FieldReceives DEF SweepFailed
<1> QED BY <1>1, <1>2, <1>3, <1>4, <1>5, <1>6, <1>7 DEF FinalizeStep

LEMMA ReconcilerReceives ==
  ASSUME QueueInv, FilesInv, ReconcilerStep \/ (ReconciliationLost /\ UNCHANGED uploadVars)
  PROVE  Received0
<1>1. CASE UNCHANGED uploadVars \/ ReconcileAnalysis
  BY <1>1 DEF uploadVars, ReconcileAnalysis, Received0
<1>2. CASE ReconcileFinalize
  <2>1. PICK f \in Files : f = rec.work.obj
    BY <1>2, RecFacts DEF ReconcileFinalize, RecIdle
  <2>2. receipts' = receipts /\ (file' = file \/ file' = Failing({f})) /\ {f} \in SUBSET Files
    BY <1>2, <2>1 DEF ReconcileFinalize, RecordUploadFileFailure
  <2> QED BY <2>2, FailingReceives DEF Received0
<1>3. CASE ReconcileSweep
  <2>1. PICK f \in Files : f = rec.work.obj
    BY <1>3, RecFacts DEF ReconcileSweep, RecIdle
  <2> QED BY <1>3, <2>1, FieldReceives DEF ReconcileSweep
<1> QED BY <1>1, <1>2, <1>3 DEF ReconcilerStep

LEMMA NextReceipts == QueueInv /\ FilesInv /\ Receipted /\ [Next]_vars => Receipted'
<1> SUFFICES ASSUME QueueInv, FilesInv, Receipted, [Next]_vars PROVE Receipted'
  OBVIOUS
<1>0. scenario' = scenario
  BY NextScenario
<1>a. ASSUME Received0 PROVE Receipted'
  BY <1>0, <1>a, QuietReceipts DEF Received0
<1>1. CASE UNCHANGED uploadVars \/ UNCHANGED vars \/ QueueOnly(QueueStep)
  <2>1. UNCHANGED <<file, receipts>>
    BY <1>1 DEF uploadVars, vars, QueueOnly
  <2> QED BY <1>a, <2>1 DEF Received0
<1>2. CASE Staging(Api)
  <2>1. Api
    BY <1>2 DEF Staging
  <2> QED BY <1>0, <1>a, <2>1, ApiReceives, CommittedReceipts
<1>3. CASE Staging(Time) \/ Staging(ExpireStaging) \/ Staging(Cleaner)
  BY <1>a, <1>3, TimeReceives DEF Staging
<1>4. CASE NoFault(\E b \in Batches : CompleteBatch(b)) \/ \E f \in Files : CleanUpLost(f) /\ UNCHANGED queueVars
  BY <1>a, <1>4, TimeReceives DEF NoFault
<1>5. CASE NoFault(\E s \in Slots : FinalizeStep(s) \/ AnalyzeStep(s)) \/ \E s \in Slots : CommitUnanswered(s) \/ StepRefused(s)
  <2>1. PICK s \in Slots : FinalizeStep(s) \/ AnalyzeStep(s) \/ CommitUnanswered(s) \/ StepRefused(s)
    BY <1>5 DEF NoFault
  <2> QED BY <1>0, <1>a, <2>1, HandlerReceives
<1>6. CASE NoFault(ReconcilerStep) \/ (ReconciliationLost /\ UNCHANGED uploadVars)
  BY <1>a, <1>6, ReconcilerReceives DEF NoFault
<1> QED BY <1>1, <1>2, <1>3, <1>4, <1>5, <1>6 DEF Next

LEMMA InitReceipts ==
  ASSUME Init PROVE Receipted
<1>1. receipts = {} /\ (\A f \in Files : file[f].received = 0) /\ scenario \in Scenarios
  BY DEF Init, QueueInit, UploadsInit
<1>2. SumFunctionOnSet([r \in receipts |-> r.len], {}) = 0 /\ IsFiniteSet({})
  BY SumEmpty, FS_EmptySet
<1>3. \A f \in Files : ReceiptsOf(f) = {} /\ Shape[f].size \in Nat
  BY <1>1, ShapeFacts DEF ReceiptsOf
<1>4. ASSUME NEW f \in Files
      PROVE  /\ file[f].received = SumFunctionOnSet([r \in receipts |-> r.len], ReceiptsOf(f))
             /\ file[f].received <= Shape[f].size
             /\ \A r \in ReceiptsOf(f) : r.offset + r.len <= file[f].received
  <2>1. ReceiptsOf(f) = {} /\ file[f].received = 0 /\ Shape[f].size \in Nat
    BY <1>1, <1>3
  <2>2. file[f].received = SumFunctionOnSet([r \in receipts |-> r.len], ReceiptsOf(f))
    BY <1>2, <2>1
  <2> QED BY <2>1, <2>2
<1>5. ChunksExact
  BY <1>4 DEF ChunksExact
<1> QED BY <1>1, <1>2, <1>5 DEF Receipted

(* A file holds what its receipts say, although a chunk may be sent twice   *)
(* and two requests may race for an offset (uploads/service.ts appendChunk).*)
THEOREM ChunksExactHolds == Spec => []ChunksExact
<1>1. Init => QueueInv /\ FilesInv /\ Receipted
  BY InitQueue, InitFiles, InitReceipts
<1>2. QueueInv /\ FilesInv /\ Receipted /\ [Next]_vars => QueueInv' /\ FilesInv' /\ Receipted'
  BY NextQueue, NextFiles, NextReceipts DEF FilesKept
<1> QED BY <1>1, <1>2, PTL DEF Spec, Receipted

-----------------------------------------------------------------------------
(* The two directories and the rows.                                        *)

LEMMA ExactNat ==
  ASSUME QueueInv, FilesInv, NEW b \in Batches, BatchExact(b)
  PROVE  /\ upload[b].declared \in Nat /\ upload[b].received \in Nat
         /\ upload[b].expanded \in Nat /\ upload[b].count \in Nat
<1>1. PICK K \in SUBSET Files, A \in SUBSET Files : K = Kept(b) /\ A = Budgeted(b)
  BY KeptFiles
<1>2. scenario \in Scenarios /\ Exact(upload[b], GotMap, K, A) /\ {} \in SUBSET K /\ {} \in SUBSET A
  BY <1>1 DEF QueueInv, BatchExact
<1>3. \A f \in Files : GotMap[f] \in Nat
  BY DEF GotMap, FilesInv, RowsOK, FileRow
<1>4. SumFunctionOnSet(SizeMap, K) \in Nat /\ Cardinality(K) \in Nat
  BY <1>2, SizeSums
<1>5. SumFunctionOnSet(GotMap, K) \in Nat
  BY <1>2, <1>3, GotSums
<1>6. SumFunctionOnSet(SizeMap, Under(A)) \in Nat /\ Cardinality(Under(A)) \in Nat
  BY <1>2, EntrySums
<1> QED BY <1>2, <1>4, <1>5, <1>6 DEF Exact

LEMMA TypesHold == QueueInv /\ FilesInv /\ Accounts => TypeOK
<1> SUFFICES ASSUME QueueInv, FilesInv, Accounts PROVE TypeOK
  OBVIOUS
<1>1. upload \in [Batches -> [status : UploadStatus, declared : Nat, received : Nat, count : Nat,
                              expanded : Nat, due : BOOLEAN]]
  <2>1. ASSUME NEW b \in Batches
        PROVE  upload[b] \in [status : UploadStatus, declared : Nat, received : Nat, count : Nat,
                              expanded : Nat, due : BOOLEAN]
    <3>1. /\ upload[b].declared \in Nat /\ upload[b].received \in Nat
          /\ upload[b].expanded \in Nat /\ upload[b].count \in Nat
      BY ExactNat DEF Accounts
    <3>2. upload[b] \in UploadRow
      BY DEF FilesInv, RowsOK
    <3> QED BY <3>1, <3>2 DEF UploadRow
  <2>2. upload \in [Batches -> UploadRow]
    BY DEF FilesInv, RowsOK
  <2> QED BY <2>1, <2>2
<1>2. /\ imp \in [Batches -> ImportStatus]
      /\ file \in [Files -> [status : FileStatus, received : Nat, temp : BOOLEAN,
                             resv : {"NONE", "RESERVED", "COMMITTED"}, object : Files \cup {NoFile}]]
      /\ objects \subseteq Files /\ staged \subseteq Files /\ cipher \subseteq Files
  BY DEF FilesInv, RowsOK, FileRow
<1>3. \A a \in analysis : a.batch \in Batches /\ a.object \in Files
  BY DEF FilesInv, AnalysisOK
<1>4. ASSUME NEW f \in Files PROVE file[f].status = "STORED" <=> file[f].object \in objects
  <2>1. NoFile \notin objects
    BY <1>2, ShapeFacts DEF QueueInv
  <2> QED BY <2>1, FileFacts DEF StatusFits, ObjectFits
<1> QED BY <1>1, <1>2, <1>3, <1>4 DEF TypeOK

LEMMA PlaintextStays == FilesInv => PlaintextKept
BY FileFacts DEF PlaintextKept, PlaintextFits, Needed

LEMMA ObjectsRead == FilesInv => StoredReadable
BY DEF StoredReadable, FilesInv, RowsOK, FileFits, ObjectFits

LEMMA CiphersOwned == QueueInv /\ FilesInv /\ WorkInv => NoOrphanCiphertext
<1> SUFFICES ASSUME QueueInv, FilesInv, WorkInv, NEW f \in cipher \ objects
             PROVE  FinalizeOpen(f) \/ file[f].status = "STORED"
  BY DEF NoOrphanCiphertext
<1>1. f \in Files /\ f \in cipher
  BY DEF FilesInv, RowsOK
<1>2. file[f].status = "STORED" \/ Held(Fin(f))
  BY <1>1 DEF WorkInv, HeldInv, FileHeld
<1> QED BY <1>1, <1>2, HeldUnfinished, FileWorks DEF FinalizeOpen, Fin

(* The bytes of a file that is still to be received or archived stay in the *)
(* staging directory, and a stored object stays readable, whatever retries, *)
(* catch blocks, cleanups and projections remove (staging-cleanup.ts,       *)
(* finalize.ts).                                                            *)
THEOREM BytesKept == Spec => [](PlaintextKept /\ StoredReadable)
BY FilesInvHolds, PlaintextStays, ObjectsRead, PTL

(* The staging directory and the object store hold what the rows need, and  *)
(* no ciphertext that no work will remove (finalize.ts, staging-cleanup.ts, *)
(* worker/register-handlers.ts).                                            *)
THEOREM FilesSoundHolds == Spec => []FilesSound
<1>1. QueueInv /\ FilesInv /\ WorkInv /\ Accounts => FilesSound
  BY TypesHold, PlaintextStays, ObjectsRead, CiphersOwned DEF FilesSound
<1>2. Spec => []Accounts
  <2>1. Init => QueueInv /\ FilesInv /\ Accounts
    BY InitQueue, InitFiles, InitAccounts
  <2>2. QueueInv /\ FilesInv /\ Accounts /\ [Next]_vars => QueueInv' /\ FilesInv' /\ Accounts'
    BY NextQueue, NextFiles, NextAccounts DEF FilesKept
  <2> QED BY <2>1, <2>2, PTL DEF Spec
<1> QED BY <1>1, <1>2, QueueInvHolds, FilesInvHolds, WorkInvHolds, PTL
=============================================================================
