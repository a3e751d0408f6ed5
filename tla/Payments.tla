------------------------------ MODULE Payments ------------------------------
(***************************************************************************)
(* Top-up orders and the provider callbacks that settle and reverse them   *)
(* (payments/service.ts, payments/postgres.ts, migration 0003).            *)
(*                                                                         *)
(* A callback is whatever the payment provider sends and signs: it may     *)
(* arrive late, twice, out of order, or never.  Next delivers any element  *)
(* of Callbacks at any moment, any number of times.  Each delivery is one  *)
(* transaction of applyVerifiedEvent, which locks the inbox row, the order *)
(* and the wallet; a delivery the code or the database refuses is rolled   *)
(* back, which is a step that is not enabled.                              *)
(***************************************************************************)
EXTENDS Wallet, Money

CONSTANTS Orders,          \* payment orders, named by their idempotency key
          EventIds,        \* provider_event_id
          Txns,            \* provider_transaction_id
          NoTxn,           \* its NULL
          NoOrder,         \* payment_order_id NULL
          Credits,         \* credit amounts a customer may ask for
          LegacyOrders,    \* orders quoted with a discount by an earlier release
          LegacyQuote,     \* their credit and payable amounts
          WalletOf,        \* the wallet an order tops up
          Callbacks        \* the verified events providers send

VARIABLES order,           \* [Orders -> payment_order row]
          inbox,           \* [a subset of EventIds -> payment_event_inbox row]
          reversal         \* [Orders -> payment_reversal rows in insertion order]

EventTypes  == {"PAID", "REFUND", "REVERSAL", "CHARGEBACK"}
Settled     == {"PAID", "PARTIALLY_REVERSED", "REVERSED", "CHARGEBACK"}
OrderStatus == {"ABSENT", "CREATED", "PENDING", "RECONCILIATION_REQUIRED"} \cup Settled
InboxStatus == {"PROCESSED", "DUPLICATE", "RECONCILIATION_REQUIRED"}

(* A callback: `matches` says that provider, merchant and currency are the *)
(* order's own.  Two callbacks are the same event for the inbox when type, *)
(* transaction and payload digest agree, that is, when they are equal.     *)
Callback    == [id : EventIds, type : EventTypes, order : Orders, txn : Txns,
                amount : Int, matches : BOOLEAN]
OrderRow    == [status : OrderStatus, txn : Txns \cup {NoTxn}, credit : Nat, payable : Nat]
InboxRow    == [event : Callback, order : Orders \cup {NoOrder}, status : InboxStatus]
ReversalRow == [event : EventIds, payable : Nat, credit : Nat, delta : Int]

(* Amounts are positive, a discount lowers what is paid and never what is  *)
(* credited, and every name a business key can carry is a ledger id.       *)
ASSUME PaymentsAssumption ==
  /\ NoTxn \notin Txns
  /\ NoOrder \notin Orders
  /\ Orders \cup EventIds \subseteq LedgerIds
  /\ Credits \subseteq Nat \ {0}
  /\ LegacyOrders \subseteq Orders
  /\ LegacyQuote \in [credit : Nat \ {0}, payable : Nat \ {0}]
  /\ LegacyQuote.payable <= LegacyQuote.credit
  /\ WalletOf \in [Orders -> Wallets]
  /\ Callbacks \subseteq Callback

paymentVars == <<order, inbox, reversal>>

PaymentsInit ==
  /\ order = [o \in Orders |->
                IF o \in LegacyOrders
                THEN [status |-> "PENDING", txn |-> NoTxn,
                      credit |-> LegacyQuote.credit, payable |-> LegacyQuote.payable]
                ELSE [status |-> "ABSENT", txn |-> NoTxn, credit |-> 0, payable |-> 0]]
  /\ inbox = [e \in {} |-> NoOrder]
  /\ reversal = [o \in Orders |-> <<>>]

-----------------------------------------------------------------------------
(* Creating an order.  A repeated request with the same idempotency key    *)
(* finds the order and changes nothing, with other amounts it is refused:  *)
(* both are stuttering steps.                                              *)
CreateOrder(o, credit) ==
  /\ order[o].status = "ABSENT"
  /\ order' = [order EXCEPT ![o] =
                 [status |-> "CREATED", txn |-> NoTxn,
                  credit |-> QuoteTopUp(credit).credit, payable |-> QuoteTopUp(credit).payable]]
  /\ UNCHANGED <<wallet, ledger, inbox, reversal>>

(* Written after the provider answered, in a statement of its own: a       *)
(* callback may have settled the order in between, and then it is left     *)
(* alone.                                                                  *)
MarkOrderPending(o) ==
  /\ order[o].status = "CREATED"
  /\ order' = [order EXCEPT ![o].status = "PENDING"]
  /\ UNCHANGED <<wallet, ledger, inbox, reversal>>

-----------------------------------------------------------------------------
(* applyVerifiedEvent: the checks.                                         *)

Recorded(ev) == ev.id \in DOMAIN inbox

KnownOrder(ev) == order[ev.order].status # "ABSENT"

(* The row payment_reversal holds with the largest cumulative amount.      *)
NoReversal == [payable |-> 0, credit |-> 0]
PreviousReversal(o) ==
  IF reversal[o] = <<>> THEN NoReversal
  ELSE LET i == CHOOSE i \in DOMAIN reversal[o] :
                  \A j \in DOMAIN reversal[o] : reversal[o][j].payable <= reversal[o][i].payable
       IN  [payable |-> reversal[o][i].payable, credit |-> reversal[o][i].credit]

ReversedCredit(ev) ==
  CumulativeCreditReversal(order[ev.order].credit, order[ev.order].payable, ev.amount)

TransactionMismatch(ev) ==
  \/ ~ev.matches
  \/ order[ev.order].txn \notin {NoTxn, ev.txn}

TransactionReused(ev) == \E p \in Orders \ {ev.order} : order[p].txn = ev.txn

PaymentConflict(ev) == ev.amount # order[ev.order].payable

\* Mutated form: a smaller cumulative amount is let through.
ReversalOrderIgnored(ev) ==
  \/ order[ev.order].status \notin Settled
  \/ ~ReversalAmountValid(order[ev.order].payable, ev.amount)
ReversalConflict(ev) ==
  \/ order[ev.order].status \notin Settled
  \/ ~ReversalAmountValid(order[ev.order].payable, ev.amount)
  \/ ev.amount < PreviousReversal(ev.order).payable
  \/ ev.amount > PreviousReversal(ev.order).payable
       /\ ReversedCredit(ev) < PreviousReversal(ev.order).credit

Conflict(ev) ==
  \/ TransactionMismatch(ev)
  \/ TransactionReused(ev)
  \/ IF ev.type = "PAID" THEN PaymentConflict(ev) ELSE ReversalConflict(ev)

(* An event the order has already absorbed under another event id.         *)
AlreadyApplied(ev) ==
  IF ev.type = "PAID" THEN order[ev.order].status \in Settled
                      ELSE ev.amount = PreviousReversal(ev.order).payable

Record(ev, o, status) ==
  inbox' = [e \in DOMAIN inbox \cup {ev.id} |->
              IF e = ev.id THEN [event |-> ev, order |-> o, status |-> status] ELSE inbox[e]]

(* CHECK (provider_transaction_id IS NOT NULL OR status IN (...)) of       *)
(* payment_order: an order that never settled cannot be put under          *)
(* reconciliation; the statement fails and the transaction is rolled back. *)
\* Mutated form: without the CHECK.
ReconcileAnyOrder(o) == TRUE
CanReconcile(o) == order[o].txn # NoTxn

-----------------------------------------------------------------------------
(* applyVerifiedEvent: its outcomes.                                       *)

(* requireReconciliation for a known order.                                *)
RequireReconciliation(o) ==
  /\ CanReconcile(o)
  /\ RestrictWallet(WalletOf[o])
  /\ order' = [order EXCEPT ![o].status = "RECONCILIATION_REQUIRED"]
  /\ UNCHANGED <<ledger, reversal>>

(* applyPayment.                                                           *)
ApplyPayment(ev) ==
  /\ ~Recorded(ev) /\ KnownOrder(ev) /\ ~Conflict(ev) /\ ~AlreadyApplied(ev)
  /\ ev.type = "PAID"
  /\ AppendWalletEntry(WalletOf[ev.order], Key("payment-paid", ev.order),
                       order[ev.order].credit, FALSE, FALSE)
  /\ order' = [order EXCEPT ![ev.order].status = "PAID", ![ev.order].txn = ev.txn]
  /\ Record(ev, ev.order, "PROCESSED")
  /\ UNCHANGED reversal

\* Mutated form: a status the CHECK of payment_order does not list.
RefundedStatus(ev) == IF ev.type = "CHARGEBACK" THEN "CHARGEBACK" ELSE "REFUNDED"
ReversedStatus(ev) ==
  IF ev.type = "CHARGEBACK" THEN "CHARGEBACK"
  ELSE IF ev.amount = order[ev.order].payable THEN "REVERSED" ELSE "PARTIALLY_REVERSED"

(* applyReversal: the event carries the cumulative amount, the wallet is   *)
(* debited the difference, restricted or not.                              *)
ApplyReversal(ev) ==
  LET delta == ReversedCredit(ev) - PreviousReversal(ev.order).credit
  IN  /\ ~Recorded(ev) /\ KnownOrder(ev) /\ ~Conflict(ev) /\ ~AlreadyApplied(ev)
      /\ ev.type # "PAID"
      /\ IF delta > 0
         THEN AppendWalletEntry(WalletOf[ev.order], Key("payment-reversal", ev.id),
                                -delta, FALSE, TRUE)
         ELSE UNCHANGED <<wallet, ledger>>
      /\ reversal' = [reversal EXCEPT ![ev.order] =
                        Append(@, [event |-> ev.id, payable |-> ev.amount,
                                   credit |-> ReversedCredit(ev), delta |-> -delta])]
      /\ order' = [order EXCEPT ![ev.order].status = ReversedStatus(ev)]
      /\ Record(ev, ev.order, "PROCESSED")

(* markEventDuplicate.                                                     *)
MarkEventDuplicate(ev) ==
  /\ ~Recorded(ev) /\ KnownOrder(ev) /\ ~Conflict(ev) /\ AlreadyApplied(ev)
  /\ Record(ev, ev.order, "DUPLICATE")
  /\ UNCHANGED <<wallet, ledger, order, reversal>>

(* A new event that does not fit its order.  On an order that never        *)
(* settled the CHECK rolls everything back, the inbox row included.        *)
ConflictingEvent(ev) ==
  /\ ~Recorded(ev) /\ KnownOrder(ev) /\ Conflict(ev)
  /\ RequireReconciliation(ev.order)
  /\ Record(ev, ev.order, "RECONCILIATION_REQUIRED")

(* A new event for an order nobody knows: recorded, nothing to restrict.   *)
UnmatchedEvent(ev) ==
  /\ ~Recorded(ev) /\ ~KnownOrder(ev)
  /\ Record(ev, NoOrder, "RECONCILIATION_REQUIRED")
  /\ UNCHANGED <<wallet, ledger, order, reversal>>

(* An event id seen before with other content: the first content stays in  *)
(* the inbox row, its order goes under reconciliation.                     *)
EventContentMismatch(ev) ==
  /\ Recorded(ev) /\ inbox[ev.id].event # ev
  /\ inbox' = [inbox EXCEPT ![ev.id].status = "RECONCILIATION_REQUIRED"]
  /\ IF inbox[ev.id].order = NoOrder
     THEN UNCHANGED <<wallet, ledger, order, reversal>>
     ELSE RequireReconciliation(inbox[ev.id].order)

ApplyVerifiedEvent(ev) ==
  \/ ApplyPayment(ev)
  \/ ApplyReversal(ev)
  \/ MarkEventDuplicate(ev)
  \/ ConflictingEvent(ev)
  \/ UnmatchedEvent(ev)
  \/ EventContentMismatch(ev)

=============================================================================
