-------------------------------- MODULE MCFx --------------------------------
(* Instances of Fx.                                                        *)
EXTENDS Fx

CONSTANTS usd, myr

Rates(C, values) == {q \in [C -> values] : \E c \in C : q[c] # 0}

(* Corrected rates, a job that fails and the operator's script beside it.  *)
Corrected ==
  [lastDay |-> 2, currencies |-> {usd}, quotations |-> Rates({usd}, {1, 2}), sliceDays |-> 2, recentDays |-> 2,
   retryLimit |-> 1, maxBoots |-> 0, maxFaults |-> 1, manualRanges |-> {<<1, 1>>}, slowSyncs |-> FALSE,
   keys |-> {}, ranges |-> {}, requests |-> {}, reporting |-> FALSE, maxOverrides |-> 0, maxAnswers |-> 0]

(* Syncs that last past midnight.                                          *)
Slow == [Corrected EXCEPT !.quotations = Rates({usd}, {1}), !.sliceDays = 1, !.slowSyncs = TRUE]

(* Jobs and workers that fail, and the job of the next day.                *)
Arriving ==
  [Slow EXCEPT !.lastDay = 3, !.sliceDays = 2, !.retryLimit = 2,
     !.maxBoots = 1, !.maxFaults = 2, !.manualRanges = {}, !.slowSyncs = FALSE]

(* Administrators who write overrides while a report is made.              *)
Overriding ==
  [Arriving EXCEPT !.lastDay = 1, !.sliceDays = 1, !.recentDays = 1, !.maxBoots = 0, !.maxFaults = 0,
     !.keys = {"k1", "k2"}, !.ranges = {<<1, 1>>, <<1, 2>>}, !.reporting = TRUE, !.maxOverrides = 2]

(* Conversions between two currencies while rates arrive.                  *)
Converting ==
  [Overriding EXCEPT !.lastDay = 2, !.currencies = {usd, myr},
     !.quotations = {q \in Rates({usd, myr}, {0, 1}) : q[usd] = 1},
     !.sliceDays = 2, !.recentDays = 2, !.keys = {"k1"}, !.ranges = {<<1, 2>>}, !.reporting = FALSE,
     !.maxOverrides = 1, !.maxAnswers = 1, !.requests = {<<1, usd, myr>>}]

(* Conversions after a midnight between an answer and the look at the clock. *)
Midnight ==
  [Converting EXCEPT !.currencies = {usd}, !.quotations = Rates({usd}, {1}), !.keys = {}, !.ranges = {},
     !.requests = {<<1, "CNY", usd>>}, !.maxOverrides = 0, !.manualRanges = {<<1, 1>>}, !.slowSyncs = TRUE]

All == {Corrected, Slow, Arriving, Overriding, Converting, Midnight}

=============================================================================
