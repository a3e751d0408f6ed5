----------------------------- MODULE MCBilling -----------------------------
(***************************************************************************)
(* Billing on one enterprise wallet, a new and a discounted order, and a    *)
(* provider that repeats, reorders and garbles its callbacks.               *)
(***************************************************************************)
EXTENDS Billing, FiniteSetsExt

CONSTANTS w1, o1, o2, t1, t2, e1, e2, e3, e4, e5, e6, a1, a2, root, k1

MCWallets   == {w1}
MCOrders    == {o1, o2}
MCLedgerIds == {o1, o2, e1, e2, e3, e4, e5, e6, k1}
MCEventIds  == {e1, e2, e3, e4, e5, e6}
MCLegacyQuote == [credit |-> 3, payable |-> 2]
MCAdjustments == {-2, 1}
MCWalletOf  == [o \in MCOrders |-> w1]

Event(id, type, o, txn, amount) ==
  [id |-> id, type |-> type, order |-> o, txn |-> txn, amount |-> amount, matches |-> TRUE]

(* The discounted order o2 is paid, refunded and charged back out of order, *)
(* event ids come back with another content, a refund is reported twice,    *)
(* more of o1 is refunded than was paid, and the transaction id of o1 is    *)
(* used for o2 as well.                                                     *)
MCCallbacks ==
  {Event(e1, "PAID", o1, t1, 2), Event(e5, "REFUND", o1, t1, 3),
   Event(e2, "PAID", o2, t2, 2), Event(e5, "PAID", o2, t1, 2),
   Event(e3, "REFUND", o2, t2, 1), Event(e4, "REFUND", o2, t2, 1),
   Event(e4, "CHARGEBACK", o2, t2, 2)}

=============================================================================
