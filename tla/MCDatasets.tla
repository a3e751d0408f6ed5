----------------------------- MODULE MCDatasets -----------------------------
(***************************************************************************)
(* Instances of Datasets: two marketplaces, two months and a handful of    *)
(* files whose rows meet every outcome an import knows.                    *)
(***************************************************************************)
EXTENDS Datasets

Row(obj, site, old, new, order) ==
  [obj |-> obj, site |-> site, month |-> <<old, new>>, order |-> order,
   amount |-> TRUE, date |-> TRUE]

(* ship moves from the second month to the first under the new date rule;  *)
(* trans fixes its blank marketplace by inference, and fixed corrects the  *)
(* row trans has in the second month; mixed has two marketplaces, so its   *)
(* blank row is refused; merchant needs no shipment report.                *)
AllRows ==
  [s1 |-> Row("ship", "US", 2, 1, "NONE"),
   s2 |-> Row("ship", "NON_AMAZON", 1, 1, "NONE"),
   s3 |-> [Row("ship", "NON_AMAZON", 1, 1, "NONE") EXCEPT !.amount = FALSE],
   s4 |-> [Row("ship", "US", 1, 1, "NONE") EXCEPT !.date = FALSE],
   t1 |-> Row("trans", "US", 1, 1, "OTHER"),
   t2 |-> Row("trans", "BLANK", 2, 2, "NONE"),
   f1 |-> Row("fixed", "US", 2, 2, "NONE"),
   h1 |-> Row("late", "US", 1, 1, "NONE"),
   m1 |-> Row("mixed", "US", 1, 1, "MERCHANT"),
   m2 |-> Row("mixed", "CA", 1, 1, "OTHER"),
   m3 |-> Row("mixed", "BLANK", 1, 1, "OTHER"),
   x1 |-> Row("junk", "UNKNOWN", 1, 1, "NONE")]

AllKinds == [ship |-> "SHIPMENT", late |-> "SHIPMENT", trans |-> "TRANSACTION",
             fixed |-> "TRANSACTION", mixed |-> "TRANSACTION", junk |-> "TRANSACTION"]

(* TLC evaluates AllRows and AllKinds once.                                *)
MCRows == AllRows
MCKind == AllKinds
MCObjects == DOMAIN MCKind

(* The accounting period of an upload: every month, or some.               *)
For(months, objs) == [objs |-> objs, period |-> months]
Whole(uploads) == {For(Months, objs) : objs \in uploads}

(* A new shop and files of every kind; one has no row in its period.       *)
Imports ==
  [legacy |-> {}, keys |-> {}, maxBatches |-> 2, maxMoves |-> 0,
   uploads |-> Whole({{"ship", "trans"}, {"late", "mixed"}, {"junk"}})
                 \cup {For({2}, {"trans"}), For({2}, {"mixed"})}]

(* Reports uploaded one by one, corrected or completed, and replayed.      *)
Corrections ==
  [Imports EXCEPT !.uploads = Whole({{"trans"}, {"fixed"}}), !.keys = {"k1"}, !.maxBatches = 3]
Completions == [Corrections EXCEPT !.uploads = Whole({{"ship"}, {"fixed"}})]

(* A replay of an older release's reports while single files are uploaded. *)
Replays ==
  [legacy |-> {"ship", "trans"}, uploads |-> Whole({{"fixed"}, {"ship"}}), keys |-> {"k1"},
   maxBatches |-> 3, maxMoves |-> 1]

(* ship uploaded again for the first month leaves its row of the second    *)
(* under the rule of the older release.                                    *)
Periods == [Replays EXCEPT !.uploads = {For({1}, {"ship"}), For({2}, {"ship", "trans"})}, !.keys = {}]

(* Rollbacks and resumes that meet commits.                                *)
Deadlocks == [Replays EXCEPT !.uploads = Whole({{"trans"}}), !.maxMoves = 2]

All == {Imports, Corrections, Completions, Replays, Periods, Deadlocks}

=============================================================================
