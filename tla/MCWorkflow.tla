----------------------------- MODULE MCWorkflow -----------------------------
(* Instances of Workflow.                                                  *)
EXTENDS Workflow

CONSTANTS s1, s2

(* A member at one shop, whose batch is in any situation.                  *)
OneShop ==
  [shops |-> {s1}, access |-> "ENTERPRISE", customerExport |-> FALSE, closed |-> {},
   begin |-> DOMAIN Situations, hangs |-> Queues, maxMoves |-> 3]

(* A member who goes back and forth between two shops, one of them closed. *)
TwoShops ==
  [OneShop EXCEPT !.shops = {s1, s2}, !.closed = {s2}, !.begin = {"REVIEW"},
                  !.hangs = {"report.auto-publish"}, !.maxMoves = 2]

(* A customer who may export.                                              *)
Customer ==
  [OneShop EXCEPT !.access = "CUSTOMER", !.customerExport = TRUE, !.begin = {"PUBLISHING", "PUBLISHED"},
                  !.hangs = {"export.generate"}]

All == {OneShop, TwoShops, Customer}

=============================================================================
