--------------------------- MODULE BillingProofs ----------------------------
(***************************************************************************)
(* Theorems about Billing, for every set of wallets, orders, callbacks,    *)
(* accounts, prices and adjustments: its type invariant and its ledger;    *)
(* an order is credited once, what is taken back is exactly what was       *)
(* returned, every charged shop is paid for (CreditedOnce, ReversalsExact  *)
(* and ChargesPaid); and billing as a whole implements the account book:   *)
(* no transaction of any actor posts more than one entry, or one the book  *)
(* does not allow.                                                         *)
(***************************************************************************)
EXTENDS Billing, TLAPS

(* The reversal rows of an order in the order they were inserted are in the *)
(* order of their cumulative amounts, so the largest is the last.           *)
Ascending(rows) ==
  \A i, j \in DOMAIN rows : i < j => rows[i].payable < rows[j].payable

LastReversal(rows) ==
  IF rows = <<>> THEN NoReversal
  ELSE [payable |-> rows[Len(rows)].payable, credit |-> rows[Len(rows)].credit]

(* Half-up rounding of a non-negative quotient is a natural number.         *)
LEMMA RoundHalfUpNat ==
  ASSUME NEW n \in Nat, NEW d \in Nat, d > 0
  PROVE  RoundHalfUp(n, d) \in Nat
<1>1. n \div d \in Nat /\ n % d \in Nat
  BY SMT
<1> QED BY <1>1 DEF RoundHalfUp

(* The credit taken back is a natural number.                               *)
LEMMA CumulativeNat ==
  ASSUME NEW c \in Nat, NEW p \in Nat, NEW a \in Int, ReversalAmountValid(p, a)
  PROVE  CumulativeCreditReversal(c, p, a) \in Nat
<1>1. p > 0 /\ a \in Nat
  BY DEF ReversalAmountValid
<1>2. c * a \in Nat
  BY <1>1
<1> QED BY <1>1, <1>2, RoundHalfUpNat DEF CumulativeCreditReversal

(* ORDER BY cumulative amount DESC LIMIT 1 returns the last row inserted.   *)
LEMMA PreviousIsLast ==
  ASSUME NEW o \in Orders, reversal \in [Orders -> Seq(ReversalRow)], Ascending(reversal[o])
  PROVE  PreviousReversal(o) = LastReversal(reversal[o])
<1> DEFINE rows == reversal[o]
<1>0. rows \in Seq(ReversalRow) OBVIOUS
<1>1. CASE rows = <<>>
  BY <1>1 DEF PreviousReversal, LastReversal
<1>2. CASE rows # <<>>
  <2> DEFINE P(i) == \A j \in DOMAIN rows : rows[j].payable <= rows[i].payable
             m == CHOOSE i \in DOMAIN rows : P(i)
  <2>1. Len(rows) \in DOMAIN rows /\ DOMAIN rows = 1..Len(rows) /\ Len(rows) \in Nat
    BY <1>0, <1>2
  <2>2. \A i \in DOMAIN rows : rows[i].payable \in Nat
    <3> TAKE i \in DOMAIN rows
    <3>1. rows[i] \in ReversalRow
      BY <1>0
    <3> QED BY <3>1 DEF ReversalRow
  <2>3. P(Len(rows))
    <3> TAKE j \in DOMAIN rows
    <3>1. j = Len(rows) \/ j < Len(rows)
      BY <2>1
    <3> QED BY <3>1, <2>1, <2>2 DEF Ascending
  <2>4. m \in DOMAIN rows /\ P(m)
    <3> HIDE DEF P
    <3> QED BY <2>1, <2>3, Zenon
  <2>5. m = Len(rows)
    <3>1. ~(m < Len(rows))
      BY <2>1, <2>2, <2>4 DEF Ascending
    <3> QED BY <3>1, <2>1, <2>4
  <2>6. PreviousReversal(o) = [payable |-> rows[m].payable, credit |-> rows[m].credit]
    BY <1>2 DEF PreviousReversal
  <2> QED BY <2>5, <2>6, <1>2 DEF LastReversal
<1> QED BY <1>1, <1>2

-----------------------------------------------------------------------------
(* Typing needs the order of the reversal rows: without it the previous     *)
(* cumulative credit would be the field of an arbitrary value.              *)
TypeInv ==
  /\ TypeOK
  /\ \A o \in Orders : Ascending(reversal[o])

(* What a transaction does to wallets and ledgers: nothing, one posting     *)
(* under a fresh key, or one restriction.                                   *)
Posting(w, key, delta, resolve, allow) ==
  /\ key \in BusinessKey /\ delta \in Int /\ delta # 0
  /\ ~Posted(w, key)
  /\ PostEntry(w, key, delta, resolve, allow)

Restricting(w) == RestrictWallet(w) /\ UNCHANGED ledger

WalletMove ==
  \/ UNCHANGED <<wallet, ledger>>
  \/ \E w \in Wallets, resolve, allow \in BOOLEAN :
       \E key \in BusinessKey, delta \in Int : Posting(w, key, delta, resolve, allow)
  \/ \E w \in Wallets : Restricting(w)

(* appendWalletEntry with well-typed arguments posts an entry or, under a    *)
(* key already posted, changes nothing.                                     *)
LEMMA AppendMoves ==
  ASSUME NEW w \in Wallets, NEW key \in BusinessKey, NEW delta \in Int,
         NEW resolve \in BOOLEAN, NEW allow \in BOOLEAN,
         AppendWalletEntry(w, key, delta, resolve, allow)
  PROVE  WalletMove
BY DEF AppendWalletEntry, WalletMove, Posting

(* The fields of a well-typed order and of a callback.                      *)
LEMMA Fields ==
  ASSUME TypeInv, NEW ev \in Callbacks
  PROVE  /\ ev.id \in EventIds /\ ev.order \in Orders /\ ev.txn \in Txns
         /\ ev.type \in EventTypes /\ ev.amount \in Int
         /\ order[ev.order].credit \in Nat /\ order[ev.order].payable \in Nat
         /\ WalletOf[ev.order] \in Wallets
<1>1. ev \in Callback
  BY PaymentsAssumption
<1>2. ev.order \in Orders
  BY <1>1 DEF Callback
<1>3. order[ev.order] \in OrderRow
  BY <1>2 DEF TypeInv, TypeOK
<1> QED BY <1>1, <1>2, <1>3, PaymentsAssumption DEF Callback, OrderRow

(* The amounts an accepted reversal works with.                             *)
LEMMA ReversalAmounts ==
  ASSUME TypeInv, NEW ev \in Callbacks, ~Conflict(ev), ev.type # "PAID"
  PROVE  /\ ReversalAmountValid(order[ev.order].payable, ev.amount)
         /\ ReversedCredit(ev) \in Nat
         /\ PreviousReversal(ev.order) = LastReversal(reversal[ev.order])
         /\ PreviousReversal(ev.order).credit \in Nat
         /\ PreviousReversal(ev.order).payable \in Nat
         /\ PreviousReversal(ev.order).payable <= ev.amount
<1>1. ReversalAmountValid(order[ev.order].payable, ev.amount)
      /\ ~(ev.amount < PreviousReversal(ev.order).payable)
  BY DEF Conflict, ReversalConflict
<1>2. ReversedCredit(ev) \in Nat
  BY <1>1, Fields, CumulativeNat DEF ReversedCredit
<1>3. PreviousReversal(ev.order) = LastReversal(reversal[ev.order])
  BY Fields, PreviousIsLast DEF TypeInv, TypeOK
<1>4. LastReversal(reversal[ev.order]).credit \in Nat /\ LastReversal(reversal[ev.order]).payable \in Nat
  <2> DEFINE rows == reversal[ev.order]
  <2>1. rows \in Seq(ReversalRow)
    BY Fields DEF TypeInv, TypeOK
  <2>2. CASE rows = <<>>
    BY <2>2 DEF LastReversal, NoReversal
  <2>3. CASE rows # <<>>
    <3>1. rows[Len(rows)] \in ReversalRow
      BY <2>1, <2>3
    <3> QED BY <3>1, <2>3 DEF LastReversal, ReversalRow
  <2> QED BY <2>2, <2>3
<1> QED BY <1>1, <1>2, <1>3, <1>4, Fields

(* Every step of billing moves wallets in one of those three ways.          *)
LEMMA NextMovesWallets ==
  ASSUME TypeInv, [Next]_vars
  PROVE  WalletMove
<1>1. CASE UNCHANGED vars
  BY <1>1 DEF vars, WalletMove
<1>2. ASSUME NEW o \in Orders, OrderStep(o) PROVE WalletMove
  BY <1>2 DEF OrderStep, CreateOrder, MarkOrderPending, WalletMove
<1>3. ASSUME NEW ev \in Callbacks, DeliverCallback(ev) PROVE WalletMove
  <2>1. CASE ApplyPayment(ev)
    <3>1. Key("payment-paid", ev.order) \in BusinessKey
      BY Fields, PaymentsAssumption DEF Key, BusinessKey, KeyKinds
    <3>2. AppendWalletEntry(WalletOf[ev.order], Key("payment-paid", ev.order),
                            order[ev.order].credit, FALSE, FALSE)
      BY <2>1 DEF ApplyPayment
    <3>3. WalletOf[ev.order] \in Wallets /\ order[ev.order].credit \in Int
      BY Fields
    <3> QED BY <3>1, <3>2, <3>3, AppendMoves
  <2>2. CASE ApplyReversal(ev)
    <3> DEFINE delta == ReversedCredit(ev) - PreviousReversal(ev.order).credit
    <3>1. Key("payment-reversal", ev.id) \in BusinessKey
      BY Fields, PaymentsAssumption DEF Key, BusinessKey, KeyKinds
    <3>2. delta \in Int
      BY <2>2, ReversalAmounts DEF ApplyReversal
    <3>3. CASE delta > 0
      <4>1. AppendWalletEntry(WalletOf[ev.order], Key("payment-reversal", ev.id), -delta, FALSE, TRUE)
        BY <2>2, <3>3 DEF ApplyReversal
      <4>2. WalletOf[ev.order] \in Wallets /\ -delta \in Int
        BY <3>2, Fields
      <4> HIDE DEF delta
      <4> QED BY <3>1, <4>1, <4>2, AppendMoves
    <3>4. CASE ~(delta > 0)
      BY <2>2, <3>4 DEF ApplyReversal, WalletMove
    <3> QED BY <3>3, <3>4
  <2>3. CASE MarkEventDuplicate(ev) \/ UnmatchedEvent(ev)
    BY <2>3 DEF MarkEventDuplicate, UnmatchedEvent, WalletMove
  <2>4. CASE ConflictingEvent(ev)
    BY <2>4, Fields DEF ConflictingEvent, RequireReconciliation, Restricting, WalletMove
  <2>5. CASE EventContentMismatch(ev)
    <3>1. CASE inbox[ev.id].order = NoOrder
      BY <2>5, <3>1 DEF EventContentMismatch, WalletMove
    <3>2. CASE inbox[ev.id].order # NoOrder
      <4>1. inbox[ev.id] \in InboxRow
        BY <2>5 DEF EventContentMismatch, Recorded, TypeInv, TypeOK
      <4>2. inbox[ev.id].order \in Orders
        BY <4>1, <3>2 DEF InboxRow
      <4>3. WalletOf[inbox[ev.id].order] \in Wallets
        BY <4>2, PaymentsAssumption
      <4> QED BY <2>5, <3>2, <4>3 DEF EventContentMismatch, RequireReconciliation, Restricting, WalletMove
    <3> QED BY <3>1, <3>2
  <2> QED BY <1>3, <2>1, <2>2, <2>3, <2>4, <2>5 DEF DeliverCallback, ApplyVerifiedEvent
<1>4. ASSUME NEW kind \in ChargeKinds, NEW a \in Accounts, NEW k \in ChargeKeys,
             NEW w \in Wallets, NEW price \in Prices, ChargeShop(kind, a, k, w, price)
      PROVE  WalletMove
  <2> DEFINE original == IF a \in Admins THEN 0 ELSE price
  <2>1. original \in Nat /\ -original \in Int
    BY BillingAssumption
  <2>2. Key(kind, k) \in BusinessKey
    BY BillingAssumption DEF Key, BusinessKey, KeyKinds, ChargeKinds
  <2>3. CASE original > 0
    BY <1>4, <2>1, <2>2, <2>3, AppendMoves DEF ChargeShop
  <2>4. CASE ~(original > 0)
    BY <1>4, <2>4 DEF ChargeShop, WalletMove
  <2> QED BY <2>3, <2>4
<1>5. ASSUME NEW w \in Wallets, NEW k \in AdjustKeys, NEW delta \in Adjustments,
             AdjustWallet(w, k, delta)
      PROVE  WalletMove
  <2>1. Key("admin-adjustment", k) \in BusinessKey /\ delta \in Int
    BY BillingAssumption DEF Key, BusinessKey, KeyKinds
  <2> QED BY <1>5, <2>1, AppendMoves DEF AdjustWallet, AdjustEnterprise
<1> QED BY <1>1, <1>2, <1>3, <1>4, <1>5 DEF Next

(* A wallet move keeps wallets and ledgers well typed.                      *)
LEMMA WalletMoveTyped ==
  ASSUME TypeInv, WalletMove
  PROVE  wallet' \in [Wallets -> WalletRow] /\ ledger' \in [Wallets -> Seq(LedgerRow)]
<1>0. wallet \in [Wallets -> WalletRow] /\ ledger \in [Wallets -> Seq(LedgerRow)]
  BY DEF TypeInv, TypeOK
<1>1. CASE UNCHANGED <<wallet, ledger>>
  BY <1>0, <1>1
<1>2. ASSUME NEW w \in Wallets, NEW resolve \in BOOLEAN, NEW allow \in BOOLEAN,
             NEW key \in BusinessKey, NEW delta \in Int, Posting(w, key, delta, resolve, allow)
      PROVE  wallet' \in [Wallets -> WalletRow] /\ ledger' \in [Wallets -> Seq(LedgerRow)]
  <2> DEFINE next == wallet[w].balance + delta
             row == [balance |-> next, status |-> NextStatus(wallet[w].status, next, resolve)]
             entry == [key |-> key, delta |-> delta, after |-> next]
  <2>1. wallet[w] \in WalletRow
    BY <1>0
  <2>2. next \in Int
    BY <2>1 DEF WalletRow
  <2>3. NextStatus(wallet[w].status, next, resolve) \in WalletStatus
    BY DEF NextStatus, WalletStatus
  <2>4. row \in WalletRow /\ entry \in LedgerRow
    BY <2>2, <2>3 DEF WalletRow, LedgerRow
  <2>5. wallet' = [wallet EXCEPT ![w] = row] /\ ledger' = [ledger EXCEPT ![w] = Append(@, entry)]
    BY <1>2 DEF Posting, PostEntry
  <2>6. Append(ledger[w], entry) \in Seq(LedgerRow)
    BY <1>0, <2>4
  <2> HIDE DEF row, entry
  <2> QED BY <1>0, <2>4, <2>5, <2>6
<1>3. ASSUME NEW w \in Wallets, Restricting(w)
      PROVE  wallet' \in [Wallets -> WalletRow] /\ ledger' \in [Wallets -> Seq(LedgerRow)]
  BY <1>0, <1>3 DEF Restricting, RestrictWallet, WalletRow, WalletStatus
<1> QED BY <1>1, <1>2, <1>3 DEF WalletMove

(* Recording an event keeps the inbox well typed.                           *)
LEMMA RecordTyped ==
  ASSUME TypeInv, NEW ev \in Callbacks, NEW o \in Orders \cup {NoOrder},
         NEW status \in InboxStatus, Record(ev, o, status)
  PROVE  DOMAIN inbox' \subseteq EventIds /\ \A e \in DOMAIN inbox' : inbox'[e] \in InboxRow
<1>1. ev \in Callback /\ ev.id \in EventIds
  BY Fields, PaymentsAssumption
<1>2. [event |-> ev, order |-> o, status |-> status] \in InboxRow
  BY <1>1 DEF InboxRow
<1> QED BY <1>1, <1>2 DEF Record, TypeInv, TypeOK

(* Changing the status of an order keeps orders well typed.                 *)
LEMMA StatusTyped ==
  ASSUME TypeInv, NEW o \in Orders, NEW status \in OrderStatus,
         order' = [order EXCEPT ![o].status = status]
  PROVE  order' \in [Orders -> OrderRow]
<1>1. order \in [Orders -> OrderRow] /\ order[o] \in OrderRow
  BY DEF TypeInv, TypeOK
<1>2. [order[o] EXCEPT !.status = status] \in OrderRow
  BY <1>1 DEF OrderRow
<1>3. order' = [order EXCEPT ![o] = [order[o] EXCEPT !.status = status]]
  OBVIOUS
<1> HIDE DEF OrderRow
<1> QED BY <1>1, <1>2, <1>3

(* The conjuncts of TypeInv that wallets and ledgers have no part in.       *)
OtherTyped ==
  /\ order \in [Orders -> OrderRow]
  /\ DOMAIN inbox \subseteq EventIds
  /\ \A e \in DOMAIN inbox : inbox[e] \in InboxRow
  /\ reversal \in [Orders -> Seq(ReversalRow)]
  /\ charge \subseteq ChargeRow
  /\ \A o \in Orders : Ascending(reversal[o])

(* Putting an order under reconciliation keeps orders well typed.           *)
LEMMA ReconciliationTyped ==
  ASSUME TypeInv, NEW o \in Orders, RequireReconciliation(o)
  PROVE  order' \in [Orders -> OrderRow]
<1>1. "RECONCILIATION_REQUIRED" \in OrderStatus
  BY DEF OrderStatus
<1> QED BY <1>1, StatusTyped DEF RequireReconciliation

(* Every step keeps billing well typed.                                     *)
LEMMA TypeStep ==
  ASSUME TypeInv, [Next]_vars
  PROVE  TypeInv'
<1>0. OtherTyped
  BY DEF TypeInv, TypeOK, OtherTyped
<1>1. CASE UNCHANGED vars
  BY <1>0, <1>1 DEF vars, OtherTyped, TypeInv, TypeOK
<1>2. ASSUME NEW o \in Orders, OrderStep(o) PROVE OtherTyped'
  <2>1. ASSUME NEW credit \in Credits, CreateOrder(o, credit) PROVE order' \in [Orders -> OrderRow]
    <3>1. credit \in Nat
      BY PaymentsAssumption
    <3> QED BY <1>0, <2>1, <3>1 DEF CreateOrder, OtherTyped, OrderRow, QuoteTopUp, OrderStatus
  <2>2. ASSUME MarkOrderPending(o) PROVE order' \in [Orders -> OrderRow]
    BY <2>2, StatusTyped DEF MarkOrderPending, OrderStatus
  <2>3. order' \in [Orders -> OrderRow] /\ UNCHANGED <<inbox, reversal, charge>>
    BY <1>2, <2>1, <2>2 DEF OrderStep, CreateOrder, MarkOrderPending
  <2> QED BY <1>0, <2>3 DEF OtherTyped
<1>3. ASSUME NEW ev \in Callbacks, DeliverCallback(ev) PROVE OtherTyped'
  <2>0. charge' = charge
    BY <1>3 DEF DeliverCallback
  <2>1. CASE ApplyPayment(ev)
    <3>1. order' \in [Orders -> OrderRow]
      <4>1. order' = [order EXCEPT ![ev.order] = [@ EXCEPT !.status = "PAID", !.txn = ev.txn]]
        BY <2>1 DEF ApplyPayment
      <4>2. order[ev.order] \in OrderRow
        BY <1>0, Fields DEF OtherTyped
      <4>3. [order[ev.order] EXCEPT !.status = "PAID", !.txn = ev.txn] \in OrderRow
        BY <4>2, Fields DEF OrderRow, OrderStatus, Settled
      <4> QED BY <1>0, <4>1, <4>3, Fields DEF OtherTyped
    <3>2. DOMAIN inbox' \subseteq EventIds /\ \A e \in DOMAIN inbox' : inbox'[e] \in InboxRow
      BY <2>1, RecordTyped, Fields DEF ApplyPayment, InboxStatus
    <3> QED BY <1>0, <2>0, <2>1, <3>1, <3>2 DEF OtherTyped, ApplyPayment
  <2>2. CASE ApplyReversal(ev)
    <3> DEFINE row == [event |-> ev.id, payable |-> ev.amount, credit |-> ReversedCredit(ev),
                       delta |-> -(ReversedCredit(ev) - PreviousReversal(ev.order).credit)]
               rows == reversal[ev.order]
    <3>0. ev.type # "PAID" /\ ~Conflict(ev) /\ ~AlreadyApplied(ev)
      BY <2>2 DEF ApplyReversal
    <3>1. ReversedStatus(ev) \in OrderStatus
      BY DEF ReversedStatus, OrderStatus, Settled
    <3>2. order' \in [Orders -> OrderRow]
      BY <2>2, <3>1, StatusTyped, Fields DEF ApplyReversal
    <3>3. DOMAIN inbox' \subseteq EventIds /\ \A e \in DOMAIN inbox' : inbox'[e] \in InboxRow
      BY <2>2, RecordTyped, Fields DEF ApplyReversal, InboxStatus
    <3>4. row \in ReversalRow
      BY <3>0, ReversalAmounts, Fields DEF ReversalRow, ReversalAmountValid
    <3>5. rows \in Seq(ReversalRow) /\ Ascending(rows)
      BY <1>0, Fields DEF OtherTyped
    <3>6. reversal' = [reversal EXCEPT ![ev.order] = Append(rows, row)]
      BY <2>2 DEF ApplyReversal
    <3>7. \A i \in DOMAIN rows : rows[i].payable < row.payable
      <4>0. PreviousReversal(ev.order).payable < ev.amount
        BY <3>0, ReversalAmounts, Fields DEF AlreadyApplied
      <4> SUFFICES ASSUME NEW i \in DOMAIN rows PROVE rows[i].payable < ev.amount
        OBVIOUS
      <4>1. rows # <<>> /\ i \in 1..Len(rows) /\ Len(rows) \in DOMAIN rows
        BY <3>5
      <4>2. rows[Len(rows)].payable < ev.amount
        <5>1. PreviousReversal(ev.order) = LastReversal(rows)
          BY <3>0, ReversalAmounts
        <5>2. LastReversal(rows).payable = rows[Len(rows)].payable
          BY <4>1 DEF LastReversal
        <5> QED BY <4>0, <5>1, <5>2
      <4>3. rows[i] \in ReversalRow /\ rows[Len(rows)] \in ReversalRow
        BY <3>5, <4>1
      <4>4. rows[i].payable <= rows[Len(rows)].payable
        <5>1. rows[i].payable \in Nat /\ rows[Len(rows)].payable \in Nat
          BY <4>3 DEF ReversalRow
        <5>2. CASE i = Len(rows)
          BY <5>1, <5>2
        <5>3. CASE i < Len(rows)
          BY <3>5, <4>1, <5>1, <5>3 DEF Ascending
        <5>4. i = Len(rows) \/ i < Len(rows)
          BY <3>5, <4>1
        <5> QED BY <5>2, <5>3, <5>4
      <4> QED BY <4>2, <4>3, <4>4, Fields DEF ReversalRow
    <3>8. Append(rows, row) \in Seq(ReversalRow)
      BY <3>4, <3>5
    <3>9. Ascending(Append(rows, row))
      <4> HIDE DEF row
      <4> QED BY <3>5, <3>7 DEF Ascending
    <3>10. reversal' \in [Orders -> Seq(ReversalRow)] /\ \A o \in Orders : Ascending(reversal'[o])
      <4> HIDE DEF row
      <4> QED BY <1>0, <3>6, <3>8, <3>9, Fields DEF OtherTyped
    <3> QED BY <1>0, <2>0, <2>2, <3>2, <3>3, <3>10 DEF OtherTyped, ApplyReversal
  <2>3. CASE MarkEventDuplicate(ev)
    BY <1>0, <2>0, <2>3, RecordTyped, Fields DEF MarkEventDuplicate, InboxStatus, OtherTyped
  <2>4. CASE UnmatchedEvent(ev)
    BY <1>0, <2>0, <2>4, RecordTyped, Fields DEF UnmatchedEvent, InboxStatus, OtherTyped
  <2>5. CASE ConflictingEvent(ev)
    <3>1. order' \in [Orders -> OrderRow]
      BY <2>5, ReconciliationTyped, Fields DEF ConflictingEvent
    <3>2. DOMAIN inbox' \subseteq EventIds /\ \A e \in DOMAIN inbox' : inbox'[e] \in InboxRow
      BY <2>5, RecordTyped, Fields DEF ConflictingEvent, InboxStatus
    <3> QED BY <1>0, <2>0, <2>5, <3>1, <3>2 DEF OtherTyped, ConflictingEvent, RequireReconciliation
  <2>6. CASE EventContentMismatch(ev)
    <3>1. ev.id \in DOMAIN inbox /\ inbox[ev.id] \in InboxRow
      BY <1>0, <2>6 DEF EventContentMismatch, Recorded, OtherTyped
    <3>2. [inbox[ev.id] EXCEPT !.status = "RECONCILIATION_REQUIRED"] \in InboxRow
      BY <3>1 DEF InboxRow, InboxStatus
    <3>3. inbox' = [inbox EXCEPT ![ev.id] = [inbox[ev.id] EXCEPT !.status = "RECONCILIATION_REQUIRED"]]
      BY <2>6 DEF EventContentMismatch
    <3>4. DOMAIN inbox' \subseteq EventIds /\ \A e \in DOMAIN inbox' : inbox'[e] \in InboxRow
      <4>1. DOMAIN inbox' = DOMAIN inbox
        BY <3>3
      <4> QED BY <1>0, <3>2, <3>3, <4>1 DEF OtherTyped
    <3>5. CASE inbox[ev.id].order = NoOrder
      BY <1>0, <2>0, <2>6, <3>4, <3>5 DEF OtherTyped, EventContentMismatch
    <3>6. CASE inbox[ev.id].order # NoOrder
      <4>1. inbox[ev.id].order \in Orders
        BY <3>1, <3>6 DEF InboxRow
      <4>2. RequireReconciliation(inbox[ev.id].order)
        BY <2>6, <3>6 DEF EventContentMismatch
      <4> QED BY <1>0, <2>0, <3>4, <4>1, <4>2, ReconciliationTyped DEF OtherTyped, RequireReconciliation
    <3> QED BY <3>5, <3>6
  <2> QED BY <1>3, <2>1, <2>2, <2>3, <2>4, <2>5, <2>6 DEF DeliverCallback, ApplyVerifiedEvent
<1>4. ASSUME NEW kind \in ChargeKinds, NEW a \in Accounts, NEW k \in ChargeKeys,
             NEW w \in Wallets, NEW price \in Prices, ChargeShop(kind, a, k, w, price)
      PROVE  OtherTyped'
  <2>1. [account |-> a, key |-> k, kind |-> kind, wallet |-> w,
         charged |-> IF a \in Admins THEN 0 ELSE price] \in ChargeRow
    BY BillingAssumption DEF ChargeRow
  <2> QED BY <1>0, <1>4, <2>1 DEF ChargeShop, OtherTyped, paymentVars
<1>5. ASSUME NEW w \in Wallets, NEW k \in AdjustKeys, NEW delta \in Adjustments,
             AdjustWallet(w, k, delta)
      PROVE  OtherTyped'
  BY <1>0, <1>5 DEF AdjustWallet, OtherTyped
<1>6. CASE Next
  <2>1. OtherTyped'
    BY <1>2, <1>3, <1>4, <1>5, <1>6 DEF Next
  <2>2. wallet' \in [Wallets -> WalletRow] /\ ledger' \in [Wallets -> Seq(LedgerRow)]
    BY NextMovesWallets, WalletMoveTyped
  <2> QED BY <2>1, <2>2 DEF OtherTyped, TypeInv, TypeOK
<1> QED BY <1>1, <1>6

(* Billing starts well typed.                                               *)
LEMMA TypeInit == Init => TypeInv
<1> SUFFICES ASSUME Init PROVE TypeInv
  OBVIOUS
<1>1. wallet \in [Wallets -> WalletRow] /\ ledger \in [Wallets -> Seq(LedgerRow)]
  BY DEF Init, WalletInit, WalletRow, WalletStatus
<1>2. order \in [Orders -> OrderRow]
  BY PaymentsAssumption DEF Init, PaymentsInit, OrderRow, OrderStatus
<1>3. inbox = [e \in {} |-> NoOrder] /\ reversal = [o \in Orders |-> <<>>]
      /\ charge = {}
  BY DEF Init, PaymentsInit
<1> QED BY <1>1, <1>2, <1>3 DEF TypeInv, TypeOK, Ascending

(* Billing is well typed and reversal rows are ascending, in every          *)
(* reachable state.                                                         *)
THEOREM TypeCorrect == Spec => []TypeInv
<1>1. TypeInv /\ [Next]_vars => TypeInv'
  BY TypeStep
<1> QED BY <1>1, TypeInit, PTL DEF Spec

(* The type invariant the runs check.                                       *)
THEOREM TypeOKHolds == Spec => []TypeOK
<1>1. TypeInv => TypeOK
  BY DEF TypeInv
<1> QED BY <1>1, TypeCorrect, PTL

-----------------------------------------------------------------------------
(* A wallet move keeps the ledger and the wallet in agreement.               *)
LEMMA LedgerStep ==
  ASSUME TypeInv, WalletMove, LedgerSound
  PROVE  LedgerSound'
<1>0. wallet \in [Wallets -> WalletRow] /\ ledger \in [Wallets -> Seq(LedgerRow)]
  BY DEF TypeInv, TypeOK
<1>1. CASE UNCHANGED <<wallet, ledger>>
  BY <1>1 DEF LedgerSound, LedgerConsistent, DebtIffNegative
<1>2. ASSUME NEW w \in Wallets, NEW resolve \in BOOLEAN, NEW allow \in BOOLEAN,
             NEW key \in BusinessKey, NEW delta \in Int, Posting(w, key, delta, resolve, allow)
      PROVE  LedgerSound'
  <2> DEFINE next == wallet[w].balance + delta
             row == [balance |-> next, status |-> NextStatus(wallet[w].status, next, resolve)]
             entry == [key |-> key, delta |-> delta, after |-> next]
             old == ledger[w]
             new == Append(old, entry)
  <2>1. wallet' = [wallet EXCEPT ![w] = row] /\ ledger' = [ledger EXCEPT ![w] = new]
    BY <1>2 DEF Posting, PostEntry
  <2>2. \A v \in Wallets \ {w} : wallet'[v] = wallet[v] /\ ledger'[v] = ledger[v]
    BY <1>0, <2>1
  <2>3. wallet'[w] = row /\ ledger'[w] = new
    BY <1>0, <2>1
  <2>4. next \in Int /\ wallet[w].balance \in Int
    <3>1. wallet[w] \in WalletRow
      BY <1>0
    <3> QED BY <3>1 DEF WalletRow
  <2>5. row.balance < 0 <=> row.status = "RESTRICTED_DEBT"
    BY <2>4 DEF NextStatus
  <2>6. DebtIffNegative'
    <3> HIDE DEF row
    <3> QED BY <2>2, <2>3, <2>5 DEF LedgerSound, DebtIffNegative
  <2>7. old \in Seq(LedgerRow) /\ Len(old) \in Nat /\ DOMAIN old = 1..Len(old)
    BY <1>0
  <2>8. /\ Len(new) = Len(old) + 1 /\ DOMAIN new = 1..(Len(old) + 1)
        /\ new[Len(old) + 1] = entry
        /\ \A i \in 1..Len(old) : new[i] = old[i]
    <3> HIDE DEF entry
    <3> QED BY <2>7
  <2>9. BalanceAfter(new, Len(old)) = wallet[w].balance
    <3>1. BalanceAfter(new, Len(old)) = BalanceAfter(old, Len(old))
      <4> HIDE DEF new
      <4> QED BY <2>7, <2>8 DEF BalanceAfter
    <3> QED BY <3>1 DEF LedgerSound, LedgerConsistent
  <2>10. \A i \in DOMAIN new : new[i].after = BalanceAfter(new, i - 1) + new[i].delta
    <3> HIDE DEF new
    <3> TAKE i \in DOMAIN new
    <3>1. CASE i = Len(old) + 1
      BY <2>7, <2>8, <2>9, <3>1
    <3>2. CASE i \in 1..Len(old)
      <4>1. BalanceAfter(new, i - 1) = BalanceAfter(old, i - 1)
        BY <2>7, <2>8, <3>2 DEF BalanceAfter
      <4>2. old[i].after = BalanceAfter(old, i - 1) + old[i].delta
        BY <2>7, <3>2 DEF LedgerSound, LedgerConsistent
      <4> QED BY <2>8, <3>2, <4>1, <4>2
    <3> QED BY <2>7, <2>8, <3>1, <3>2
  <2>11. row.balance = BalanceAfter(new, Len(new))
    <3> HIDE DEF new
    <3> QED BY <2>7, <2>8 DEF BalanceAfter
  <2>12. \A i, j \in DOMAIN new : new[i].key = new[j].key => i = j
    <3>1. \A i \in 1..Len(old) : old[i].key # key
      BY <1>2, <2>7 DEF Posting, Posted
    <3>2. \A i, j \in 1..Len(old) : old[i].key = old[j].key => i = j
      BY <2>7 DEF LedgerSound, LedgerConsistent
    <3> HIDE DEF new
    <3> TAKE i, j \in DOMAIN new
    <3>3. /\ i \in 1..Len(old) => new[i].key = old[i].key
          /\ j \in 1..Len(old) => new[j].key = old[j].key
      BY <2>8
    <3>4. /\ i \in 1..Len(old) \/ (i = Len(old) + 1 /\ new[i].key = key)
          /\ j \in 1..Len(old) \/ (j = Len(old) + 1 /\ new[j].key = key)
      BY <2>7, <2>8
    <3> QED BY <3>1, <3>2, <3>3, <3>4
  <2>13. LedgerConsistent'
    <3> HIDE DEF new, row
    <3> QED BY <2>2, <2>3, <2>10, <2>11, <2>12 DEF LedgerSound, LedgerConsistent, BalanceAfter
  <2> QED BY <2>6, <2>13 DEF LedgerSound
<1>3. ASSUME NEW w \in Wallets, Restricting(w) PROVE LedgerSound'
  <2>1. wallet' = [wallet EXCEPT ![w].status =
                     IF wallet[w].balance < 0 THEN "RESTRICTED_DEBT" ELSE "RESTRICTED_RECONCILIATION"]
        /\ ledger' = ledger
    BY <1>3 DEF Restricting, RestrictWallet
  <2>2. \A v \in Wallets : wallet'[v].balance = wallet[v].balance
    BY <1>0, <2>1 DEF WalletRow
  <2>3. LedgerConsistent'
    BY <2>1, <2>2 DEF LedgerSound, LedgerConsistent, BalanceAfter
  <2>4. DebtIffNegative'
    BY <1>0, <2>1 DEF LedgerSound, DebtIffNegative, WalletRow
  <2> QED BY <2>3, <2>4 DEF LedgerSound
<1> QED BY <1>1, <1>2, <1>3 DEF WalletMove

(* For every wallet, at every moment: balance_after_cents chains from the   *)
(* first entry to the wallet's balance, no business key is posted twice,    *)
(* and the status is RESTRICTED_DEBT exactly when money is owed.            *)
THEOREM LedgerCorrect == Spec => []LedgerSound
<1>1. Init => LedgerSound
  <2> SUFFICES ASSUME Init PROVE LedgerSound
    OBVIOUS
  <2>1. wallet = [w \in Wallets |-> [balance |-> 0, status |-> "ACTIVE"]]
        /\ ledger = [w \in Wallets |-> <<>>]
    BY DEF Init, WalletInit
  <2> QED BY <2>1 DEF LedgerSound, LedgerConsistent, DebtIffNegative, BalanceAfter
<1>2. TypeInv /\ LedgerSound /\ [Next]_vars => LedgerSound'
  BY NextMovesWallets, LedgerStep
<1> QED BY <1>1, <1>2, TypeCorrect, PTL DEF Spec

-----------------------------------------------------------------------------
(* Top-ups, reversals and charges.                                          *)

(* Division and remainder of naturals.                                      *)
LEMMA DivMod ==
  ASSUME NEW n \in Nat, NEW d \in Nat, d > 0
  PROVE  /\ n \div d \in Nat /\ n % d \in Nat /\ n % d < d
         /\ n = d * (n \div d) + (n % d)
  OBVIOUS

(* roundHalfUp of n / d is within half a unit of it.                        *)
LEMMA RoundHalfUpBounds ==
  ASSUME NEW n \in Nat, NEW d \in Nat, d > 0
  PROVE  /\ RoundHalfUp(n, d) \in Nat
         /\ 2 * (d * RoundHalfUp(n, d)) <= 2 * n + d
         /\ 2 * n < 2 * (d * RoundHalfUp(n, d)) + d
<1> DEFINE q == n \div d
           r == n % d
<1>1. q \in Nat /\ r \in Nat /\ r < d /\ n = d * q + r
  BY DivMod
<1>2. CASE r * 2 >= d
  <2>1. RoundHalfUp(n, d) = q + 1
    BY <1>2 DEF RoundHalfUp
  <2>2. d * (q + 1) = d * q + d /\ d * q \in Nat
    BY <1>1
  <2> HIDE DEF q, r
  <2> QED BY <1>1, <1>2, <2>1, <2>2
<1>3. CASE ~(r * 2 >= d)
  <2>1. RoundHalfUp(n, d) = q
    BY <1>1, <1>3 DEF RoundHalfUp
  <2>2. d * q \in Nat
    BY <1>1
  <2> HIDE DEF q, r
  <2> QED BY <1>1, <1>3, <2>1, <2>2
<1> QED BY <1>2, <1>3

(* Products keep the order.                                                 *)
LEMMA ProductOrder ==
  ASSUME NEW d \in Nat, NEW a \in Nat, NEW b \in Nat, a < b
  PROVE  d * a + d <= d * b
<1>1. PICK e \in Nat : b = a + 1 + e
  <2>1. b - a - 1 \in Nat /\ b = a + 1 + (b - a - 1)
    OBVIOUS
  <2> QED BY <2>1
<1>2. d * (a + 1 + e) = d * a + d + d * e /\ d * e \in Nat /\ d * a \in Nat
  OBVIOUS
<1> QED BY <1>1, <1>2

(* roundHalfUp of a whole multiple is exact.                                *)
LEMMA RoundHalfUpExact ==
  ASSUME NEW c \in Nat, NEW d \in Nat, d > 0
  PROVE  RoundHalfUp(d * c, d) = c
<1> DEFINE k == RoundHalfUp(d * c, d)
<1>1. d * c \in Nat
  OBVIOUS
<1>2. k \in Nat /\ 2 * (d * k) <= 2 * (d * c) + d /\ 2 * (d * c) < 2 * (d * k) + d
  BY <1>1, RoundHalfUpBounds
<1> HIDE DEF k
<1>3. ~(k < c)
  <2> SUFFICES ASSUME k < c PROVE FALSE
    OBVIOUS
  <2>1. d * k + d <= d * c
    BY <1>2, ProductOrder
  <2>2. d * k \in Nat
    BY <1>2
  <2> QED BY <1>1, <1>2, <2>1, <2>2
<1>4. ~(c < k)
  <2> SUFFICES ASSUME c < k PROVE FALSE
    OBVIOUS
  <2>1. d * c + d <= d * k
    BY <1>2, ProductOrder
  <2>2. d * k \in Nat
    BY <1>2
  <2> QED BY <1>1, <1>2, <2>1, <2>2
<1> QED BY <1>2, <1>3, <1>4 DEF k

(* roundHalfUp grows when the numerator grows by the denominator.           *)
LEMMA RoundHalfUpGrows ==
  ASSUME NEW m \in Nat, NEW n \in Nat, NEW d \in Nat, d > 0, m + d <= n
  PROVE  RoundHalfUp(m, d) < RoundHalfUp(n, d)
<1> DEFINE j == RoundHalfUp(m, d)
           k == RoundHalfUp(n, d)
<1>1. j \in Nat /\ 2 * (d * j) <= 2 * m + d
  BY RoundHalfUpBounds
<1>2. k \in Nat /\ 2 * n < 2 * (d * k) + d
  BY RoundHalfUpBounds
<1> HIDE DEF j, k
<1>3. ~(k < j) /\ k # j
  <2>1. d * j \in Nat /\ d * k \in Nat /\ d * j < d * k
    BY <1>1, <1>2
  <2>2. ~(k < j)
    BY <1>1, <1>2, <2>1, ProductOrder
  <2> QED BY <2>1, <2>2
<1> QED BY <1>1, <1>2, <1>3 DEF j, k

(* For an order that costs at most what it credits, the credit to take back *)
(* is positive and never more than was credited.                            *)
LEMMA CumulativeReversal ==
  ASSUME NEW c \in Nat, NEW p \in Nat, p <= c,
         NEW a \in Int, ReversalAmountValid(p, a)
  PROVE  /\ CumulativeCreditReversal(c, p, a) = RoundHalfUp(c * a, p)
         /\ CumulativeCreditReversal(c, p, a) \in 1..c
<1>0. p > 0 /\ a \in Nat /\ a > 0 /\ a <= p /\ c * a \in Nat /\ c > 0
  BY DEF ReversalAmountValid
<1> DEFINE k == RoundHalfUp(c * a, p)
<1>1. RoundHalfUp(c * p, p) = c
  <2>1. c * p = p * c
    OBVIOUS
  <2> QED BY <1>0, <2>1, RoundHalfUpExact
<1>2. CumulativeCreditReversal(c, p, a) = k
  BY <1>1 DEF CumulativeCreditReversal
<1>3. k <= c
  <2>1. CASE a = p
    BY <1>1, <2>1
  <2>2. CASE a < p
    <3>1. c * a + c <= c * p
      BY <1>0, <2>2, ProductOrder
    <3>2. c * a + p <= c * p /\ c * p \in Nat
      BY <1>0, <3>1
    <3>3. k < RoundHalfUp(c * p, p)
      BY <1>0, <3>2, RoundHalfUpGrows
    <3>4. k \in Nat
      BY <1>0, RoundHalfUpBounds
    <3> QED BY <1>1, <3>3, <3>4
  <2> QED BY <1>0, <2>1, <2>2
<1>4. 0 < k /\ k \in Nat
  <2>1. RoundHalfUp(0, p) = 0
    <3>1. p * 0 = 0
      BY <1>0
    <3> QED BY <1>0, <3>1, RoundHalfUpExact
  <2>2. c * 0 + c <= c * a /\ c * 0 = 0
    BY <1>0, ProductOrder
  <2>3. 0 + p <= c * a
    BY <1>0, <2>2
  <2>4. RoundHalfUp(0, p) < k
    BY <1>0, <2>3, RoundHalfUpGrows
  <2> QED BY <2>1, <2>4, <1>0, RoundHalfUpBounds
<1> QED BY <1>2, <1>3, <1>4

(* For such an order it grows with every further amount returned, so the    *)
(* debit of a reversal is never zero.                                       *)
LEMMA CumulativeGrows ==
  ASSUME NEW c \in Nat, NEW p \in Nat, p <= c, NEW a \in Int, NEW b \in Int,
         ReversalAmountValid(p, a), ReversalAmountValid(p, b), a < b
  PROVE  CumulativeCreditReversal(c, p, a) < CumulativeCreditReversal(c, p, b)
<1>1. p > 0 /\ a \in Nat /\ b \in Nat /\ c * a \in Nat /\ c * b \in Nat
  BY DEF ReversalAmountValid
<1>2. c * a + c <= c * b
  BY <1>1, ProductOrder
<1>3. c * a + p <= c * b
  BY <1>1, <1>2
<1>4. RoundHalfUp(c * a, p) < RoundHalfUp(c * b, p)
  BY <1>1, <1>3, RoundHalfUpGrows
<1> QED BY <1>4, CumulativeReversal

-----------------------------------------------------------------------------
(* The ledger after one more entry of wallet w.                             *)
NewEntry(w, entry) ==
  /\ \A v \in Wallets \ {w} : ledger'[v] = ledger[v]
  /\ \A n \in DOMAIN ledger[w] : n \in DOMAIN ledger'[w] /\ ledger'[w][n] = ledger[w][n]
  /\ \E n \in DOMAIN ledger'[w] : ledger'[w][n] = entry
  /\ \A n \in DOMAIN ledger'[w] : (n \in DOMAIN ledger[w]) \/ (ledger'[w][n] = entry)

(* The entry appendWalletEntry writes.                                      *)
EntryOf(w, key, delta) == [key |-> key, delta |-> delta, after |-> wallet[w].balance + delta]

(* Every entry stays, and none of the given kind is written.                *)
LedgerKept(kind) ==
  \A w \in Wallets :
    /\ \A n \in DOMAIN ledger[w] : n \in DOMAIN ledger'[w] /\ ledger'[w][n] = ledger[w][n]
    /\ \A n \in DOMAIN ledger'[w] : (n \in DOMAIN ledger[w]) \/ (ledger'[w][n].key.kind # kind)

(* appendWalletEntry writes one entry under a fresh key and changes nothing *)
(* under a key already posted.                                              *)
LEMMA AppendEffect ==
  ASSUME TypeInv, NEW w \in Wallets, NEW key, NEW delta, NEW resolve, NEW allow,
         AppendWalletEntry(w, key, delta, resolve, allow)
  PROVE  \/ Posted(w, key) /\ UNCHANGED <<wallet, ledger>>
         \/ ~Posted(w, key) /\ NewEntry(w, EntryOf(w, key, delta))
<1>1. CASE Posted(w, key)
  BY <1>1 DEF AppendWalletEntry
<1>2. CASE ~Posted(w, key)
  <2> DEFINE entry == EntryOf(w, key, delta)
             old == ledger[w]
  <2>1. ledger' = [ledger EXCEPT ![w] = Append(old, entry)]
    BY <1>2 DEF AppendWalletEntry, PostEntry, EntryOf
  <2>2. ledger \in [Wallets -> Seq(LedgerRow)] /\ old \in Seq(LedgerRow)
    BY DEF TypeInv, TypeOK
  <2>3. ledger'[w] = Append(old, entry) /\ \A v \in Wallets \ {w} : ledger'[v] = ledger[v]
    BY <2>1, <2>2
  <2> HIDE DEF entry
  <2>4. /\ DOMAIN old = 1..Len(old) /\ Len(old) \in Nat
        /\ DOMAIN Append(old, entry) = 1..(Len(old) + 1)
        /\ Append(old, entry)[Len(old) + 1] = entry
        /\ \A n \in 1..Len(old) : Append(old, entry)[n] = old[n]
    BY <2>2
  <2>5. /\ Len(old) + 1 \in DOMAIN Append(old, entry)
        /\ \A n \in 1..(Len(old) + 1) : (n \in 1..Len(old)) \/ (n = Len(old) + 1)
        /\ \A n \in 1..Len(old) : n \in 1..(Len(old) + 1)
    BY <2>4
  <2>6. NewEntry(w, entry)
    BY <2>3, <2>4, <2>5, Zenon DEF NewEntry
  <2> QED BY <1>2, <2>6 DEF entry
<1> QED BY <1>1, <1>2

(* A new entry of another kind, or none, keeps the ledger.                  *)
LEMMA NewEntryKeeps ==
  ASSUME NEW kind, NEW w \in Wallets, NEW entry, NewEntry(w, entry), entry.key.kind # kind
  PROVE  LedgerKept(kind)
BY Zenon DEF NewEntry, LedgerKept

(* A step that leaves the ledgers alone keeps every kind of entry.          *)
LEMMA UnchangedKeeps ==
  ASSUME NEW kind, ledger' = ledger
  PROVE  LedgerKept(kind)
BY DEF LedgerKept

(* Which actions write which entries.                                       *)
LEMMA AppendKeeps ==
  ASSUME TypeInv, NEW w \in Wallets, NEW key, NEW delta, NEW resolve, NEW allow,
         AppendWalletEntry(w, key, delta, resolve, allow), NEW kind, key.kind # kind
  PROVE  LedgerKept(kind)
<1>1. EntryOf(w, key, delta).key = key
  BY DEF EntryOf
<1>2. CASE ledger' = ledger
  BY <1>2, UnchangedKeeps
<1>3. CASE NewEntry(w, EntryOf(w, key, delta))
  <2> DEFINE entry == EntryOf(w, key, delta)
  <2>1. entry.key.kind # kind
    BY <1>1
  <2> HIDE DEF entry
  <2> QED BY <1>3, <2>1, NewEntryKeeps DEF entry
<1> QED BY <1>2, <1>3, AppendEffect

(* Only applyPayment writes a payment-paid entry, only applyReversal a      *)
(* payment-reversal entry.                                                  *)
LEMMA PaymentWrites ==
  ASSUME TypeInv, NEW ev \in Callbacks, ApplyPayment(ev), NEW kind, kind # "payment-paid"
  PROVE  LedgerKept(kind)
<1>1. AppendWalletEntry(WalletOf[ev.order], Key("payment-paid", ev.order),
                        order[ev.order].credit, FALSE, FALSE)
  BY DEF ApplyPayment
<1>2. Key("payment-paid", ev.order).kind # kind
  BY DEF Key
<1> QED BY <1>1, <1>2, Fields, AppendKeeps

(* A reversal writes entries of its own kind only.                          *)
LEMMA ReversalWrites ==
  ASSUME TypeInv, NEW ev \in Callbacks, ApplyReversal(ev), NEW kind, kind # "payment-reversal"
  PROVE  LedgerKept(kind)
<1> DEFINE delta == ReversedCredit(ev) - PreviousReversal(ev.order).credit
<1>1. Key("payment-reversal", ev.id).kind # kind
  BY DEF Key
<1>2. CASE delta > 0
  <2>1. AppendWalletEntry(WalletOf[ev.order], Key("payment-reversal", ev.id), -delta, FALSE, TRUE)
    BY <1>2 DEF ApplyReversal
  <2> QED BY <1>1, <2>1, Fields, AppendKeeps
<1>3. CASE ~(delta > 0)
  BY <1>3, UnchangedKeeps DEF ApplyReversal
<1> QED BY <1>2, <1>3

(* So does a charge.                                                        *)
LEMMA ChargeWrites ==
  ASSUME TypeInv, NEW kind \in ChargeKinds, NEW a, NEW k, NEW w \in Wallets, NEW price,
         ChargeShop(kind, a, k, w, price), NEW other, other # kind
  PROVE  LedgerKept(other)
<1> DEFINE original == IF a \in Admins THEN 0 ELSE price
<1>1. Key(kind, k).kind # other
  BY DEF Key
<1>2. CASE original > 0
  <2>1. AppendWalletEntry(w, Key(kind, k), -original, FALSE, FALSE)
    BY <1>2 DEF ChargeShop
  <2> QED BY <1>1, <2>1, AppendKeeps
<1>3. CASE ~(original > 0)
  BY <1>3, UnchangedKeeps DEF ChargeShop
<1> QED BY <1>2, <1>3

(* And an adjustment.                                                       *)
LEMMA AdjustWrites ==
  ASSUME TypeInv, NEW w \in Wallets, NEW k, NEW delta, AdjustWallet(w, k, delta),
         NEW kind, kind # "admin-adjustment"
  PROVE  LedgerKept(kind)
<1>1. AppendWalletEntry(w, Key("admin-adjustment", k), delta, TRUE, FALSE)
  BY DEF AdjustWallet, AdjustEnterprise
<1>2. Key("admin-adjustment", k).kind # kind
  BY DEF Key
<1> QED BY <1>1, <1>2, AppendKeeps

-----------------------------------------------------------------------------
(* The statuses of an order that carries a provider transaction.            *)
Claimed == Settled \cup {"RECONCILIATION_REQUIRED"}

(* A step that settles no order keeps what CreditedOnce says of all.        *)
LEMMA CreditFrame ==
  ASSUME TypeInv, CreditedOnce, LedgerKept("payment-paid"),
         \A o \in Orders :
           /\ order'[o].txn = order[o].txn
           /\ order'[o].status \in Claimed <=> order[o].status \in Claimed
           /\ order[o].txn # NoTxn => order'[o].credit = order[o].credit
  PROVE  CreditedOnce'
<1> SUFFICES ASSUME NEW o \in Orders
             PROVE  /\ order'[o].txn # NoTxn <=> order'[o].status \in Claimed
                    /\ \A w \in Wallets :
                         Posted(w, Key("payment-paid", o))' <=> (w = WalletOf[o] /\ order'[o].txn # NoTxn)
                    /\ \A i \in DOMAIN ledger'[WalletOf[o]] :
                         ledger'[WalletOf[o]][i].key = Key("payment-paid", o)
                           => ledger'[WalletOf[o]][i].delta = order'[o].credit
                    /\ order'[o].txn # NoTxn => \A p \in Orders \ {o} : order'[p].txn # order'[o].txn
  BY DEF CreditedOnce, Posted, Key, Claimed
<1>0. WalletOf[o] \in Wallets /\ Key("payment-paid", o).kind = "payment-paid"
  BY PaymentsAssumption DEF Key
<1>1. order'[o].txn # NoTxn <=> order'[o].status \in Claimed
  BY DEF CreditedOnce, Claimed
<1>2. ASSUME NEW w \in Wallets
      PROVE  Posted(w, Key("payment-paid", o))' <=> (w = WalletOf[o] /\ order'[o].txn # NoTxn)
  <2> DEFINE key == Key("payment-paid", o)
  <2>1. Posted(w, key) <=> (w = WalletOf[o] /\ order[o].txn # NoTxn)
    BY <1>2 DEF CreditedOnce
  <2>2. Posted(w, key)' <=> Posted(w, key)
    <3>0. key' = key
      BY DEF Key
    <3> HIDE DEF key
    <3> QED BY <1>0, <3>0, Zenon DEF LedgerKept, Posted, key
  <2> QED BY <2>1, <2>2
<1>3. ASSUME NEW i \in DOMAIN ledger'[WalletOf[o]], ledger'[WalletOf[o]][i].key = Key("payment-paid", o)
      PROVE  ledger'[WalletOf[o]][i].delta = order'[o].credit
  <2>1. i \in DOMAIN ledger[WalletOf[o]] /\ ledger'[WalletOf[o]][i] = ledger[WalletOf[o]][i]
    BY <1>0, <1>3, Zenon DEF LedgerKept
  <2>2. ledger[WalletOf[o]][i].delta = order[o].credit /\ Posted(WalletOf[o], Key("payment-paid", o))
    BY <1>3, <2>1 DEF CreditedOnce, Posted
  <2>3. order[o].txn # NoTxn
    BY <1>0, <2>2 DEF CreditedOnce
  <2> QED BY <2>1, <2>2, <2>3
<1>4. order'[o].txn # NoTxn => \A p \in Orders \ {o} : order'[p].txn # order'[o].txn
  BY DEF CreditedOnce
<1> QED BY <1>1, <1>2, <1>3, <1>4

(* Changing the status of one order and nothing else of any.                *)
LEMMA StatusOnly ==
  ASSUME TypeInv, NEW o \in Orders, NEW status,
         order' = [order EXCEPT ![o].status = status]
  PROVE  /\ order'[o].status = status
         /\ \A p \in Orders : /\ order'[p].txn = order[p].txn
                              /\ order'[p].credit = order[p].credit
                              /\ order'[p].payable = order[p].payable
                              /\ p # o => order'[p].status = order[p].status
<1>1. order \in [Orders -> OrderRow] /\ order[o] \in OrderRow
  BY DEF TypeInv, TypeOK
<1> QED BY <1>1 DEF OrderRow

(* An order set aside for reconciliation keeps its credit.                  *)
LEMMA ReconciliationKeepsCredit ==
  ASSUME TypeInv, CreditedOnce, NEW o \in Orders, RequireReconciliation(o)
  PROVE  CreditedOnce'
<1>1. order' = [order EXCEPT ![o].status = "RECONCILIATION_REQUIRED"] /\ ledger' = ledger
      /\ order[o].txn # NoTxn
  BY DEF RequireReconciliation, CanReconcile
<1>2. order[o].status \in Claimed
  BY <1>1 DEF CreditedOnce, Claimed
<1>3. "RECONCILIATION_REQUIRED" \in Claimed
  BY DEF Claimed
<1>4. \A p \in Orders :
           /\ order'[p].txn = order[p].txn
           /\ order'[p].status \in Claimed <=> order[p].status \in Claimed
           /\ order[p].txn # NoTxn => order'[p].credit = order[p].credit
  BY <1>1, <1>2, <1>3, StatusOnly
<1> QED BY <1>1, <1>4, UnchangedKeeps, CreditFrame

(* applyPayment credits its order, once.                                    *)
LEMMA PaymentCredits ==
  ASSUME TypeInv, CreditedOnce, NEW ev \in Callbacks, ApplyPayment(ev)
  PROVE  CreditedOnce'
<1> DEFINE o == ev.order
           key == Key("payment-paid", o)
           w == WalletOf[o]
<1>0. /\ o \in Orders /\ ev.txn \in Txns /\ ev.txn # NoTxn /\ w \in Wallets
      /\ order[o].txn \in {NoTxn, ev.txn} /\ \A p \in Orders \ {o} : order[p].txn # ev.txn
  BY Fields, PaymentsAssumption DEF ApplyPayment, Conflict, TransactionMismatch, TransactionReused
<1>1. /\ order'[o].status = "PAID" /\ order'[o].txn = ev.txn /\ order'[o].credit = order[o].credit
      /\ \A p \in Orders \ {o} : order'[p] = order[p]
  <2>1. order \in [Orders -> OrderRow] /\ order[o] \in OrderRow
    BY <1>0 DEF TypeInv, TypeOK
  <2>2. order' = [order EXCEPT ![o].status = "PAID", ![o].txn = ev.txn]
    BY DEF ApplyPayment
  <2> QED BY <1>0, <2>1, <2>2 DEF OrderRow
<1>2. AppendWalletEntry(w, key, order[o].credit, FALSE, FALSE)
  BY DEF ApplyPayment
<1>3. /\ \A v \in Wallets : \A n \in DOMAIN ledger[v] : n \in DOMAIN ledger'[v] /\ ledger'[v][n] = ledger[v][n]
      /\ \A v \in Wallets : \A n \in DOMAIN ledger'[v] :
           \/ n \in DOMAIN ledger[v] 
           \/ v = w /\ ledger'[v][n].key = key /\ ledger'[v][n].delta = order[o].credit
      /\ \E n \in DOMAIN ledger'[w] : ledger'[w][n].key = key
  <2>1. CASE Posted(w, key) /\ ledger' = ledger
    BY <2>1 DEF Posted
  <2>2. CASE NewEntry(w, EntryOf(w, key, order[o].credit))
    <3> DEFINE entry == EntryOf(w, key, order[o].credit)
    <3>1. entry.key = key /\ entry.delta = order[o].credit
      BY DEF EntryOf
    <3> HIDE DEF entry, key
    <3> QED BY <2>2, <3>1, Zenon DEF NewEntry, entry
  <2> QED BY <1>0, <1>2, <2>1, <2>2, AppendEffect
<1> SUFFICES ASSUME NEW p \in Orders
             PROVE  /\ order'[p].txn # NoTxn <=> order'[p].status \in Claimed
                    /\ \A v \in Wallets :
                         Posted(v, Key("payment-paid", p))' <=> (v = WalletOf[p] /\ order'[p].txn # NoTxn)
                    /\ \A i \in DOMAIN ledger'[WalletOf[p]] :
                         ledger'[WalletOf[p]][i].key = Key("payment-paid", p)
                           => ledger'[WalletOf[p]][i].delta = order'[p].credit
                    /\ order'[p].txn # NoTxn => \A q \in Orders \ {p} : order'[q].txn # order'[p].txn
  BY DEF CreditedOnce, Posted, Key, Claimed
<1>4. WalletOf[p] \in Wallets /\ (p # o => Key("payment-paid", p) # key)
  BY PaymentsAssumption DEF Key
<1>5. order'[p].txn # NoTxn <=> order'[p].status \in Claimed
  BY <1>0, <1>1 DEF CreditedOnce, Claimed, Settled
<1>6. ASSUME NEW v \in Wallets
      PROVE  Posted(v, Key("payment-paid", p))' <=> (v = WalletOf[p] /\ order'[p].txn # NoTxn)
  <2>0. Key("payment-paid", p)' = Key("payment-paid", p)
    BY DEF Key
  <2>1. Posted(v, Key("payment-paid", p)) <=> (v = WalletOf[p] /\ order[p].txn # NoTxn)
    BY <1>6 DEF CreditedOnce
  <2>2. CASE p # o
    <3>1. Posted(v, Key("payment-paid", p))' <=> Posted(v, Key("payment-paid", p))
      <4> DEFINE other == Key("payment-paid", p)
      <4>1. other # key /\ other' = other
        BY <1>4, <2>0, <2>2
      <4> HIDE DEF other, key
      <4> QED BY <1>3, <1>6, <4>1, Zenon DEF Posted, other
    <3> QED BY <1>1, <2>1, <2>2, <3>1
  <2>3. CASE p = o
    <3>1. Posted(v, key)' <=> v = w
      <4>0. key' = key
        BY DEF Key
      <4>1. Posted(v, key) => v = w
        BY <2>1, <2>3
      <4> HIDE DEF key, w
      <4> QED BY <1>3, <1>6, <4>0, <4>1, Zenon DEF Posted
    <3> QED BY <1>0, <1>1, <2>0, <2>3, <3>1
  <2> QED BY <2>2, <2>3
<1>7. ASSUME NEW i \in DOMAIN ledger'[WalletOf[p]], ledger'[WalletOf[p]][i].key = Key("payment-paid", p)
      PROVE  ledger'[WalletOf[p]][i].delta = order'[p].credit
  <2>1. order'[p].credit = order[p].credit
    BY <1>1
  <2>2. CASE i \in DOMAIN ledger[WalletOf[p]]
    BY <1>3, <1>4, <1>7, <2>1, <2>2 DEF CreditedOnce
  <2>3. CASE i \notin DOMAIN ledger[WalletOf[p]]
    <3>1. ledger'[WalletOf[p]][i].key = key /\ ledger'[WalletOf[p]][i].delta = order[o].credit
      BY <1>3, <1>4, <1>7, <2>3, Zenon
    <3> QED BY <1>4, <1>7, <2>1, <3>1
  <2> QED BY <2>2, <2>3
<1>8. order'[p].txn # NoTxn => \A q \in Orders \ {p} : order'[q].txn # order'[p].txn
  BY <1>0, <1>1 DEF CreditedOnce
<1> QED BY <1>5, <1>6, <1>7, <1>8

(* Every step keeps CreditedOnce.                                           *)
LEMMA CreditStep ==
  ASSUME TypeInv, CreditedOnce, [Next]_vars
  PROVE  CreditedOnce'
<1>1. CASE UNCHANGED vars
  BY <1>1, UnchangedKeeps, CreditFrame DEF vars
<1>2. ASSUME NEW o \in Orders, NEW credit \in Credits, CreateOrder(o, credit) PROVE CreditedOnce'
  <2>1. order \in [Orders -> OrderRow] /\ order[o].status = "ABSENT" /\ ledger' = ledger
    BY <1>2 DEF TypeInv, TypeOK, CreateOrder
  <2>2. order[o].txn = NoTxn
    BY <2>1 DEF CreditedOnce, Settled
  <2>3. /\ order'[o].status = "CREATED" /\ order'[o].txn = NoTxn
        /\ \A p \in Orders \ {o} : order'[p] = order[p]
    BY <1>2, <2>1 DEF CreateOrder
  <2>4. \A p \in Orders :
           /\ order'[p].txn = order[p].txn
           /\ order'[p].status \in Claimed <=> order[p].status \in Claimed
           /\ order[p].txn # NoTxn => order'[p].credit = order[p].credit
    BY <2>1, <2>2, <2>3 DEF Claimed, Settled
  <2> QED BY <2>1, <2>4, UnchangedKeeps, CreditFrame
<1>3. ASSUME NEW o \in Orders, MarkOrderPending(o) PROVE CreditedOnce'
  <2>1. /\ order[o].status = "CREATED" /\ ledger' = ledger
        /\ order' = [order EXCEPT ![o].status = "PENDING"]
    BY <1>3 DEF MarkOrderPending
  <2>2. "PENDING" \notin Claimed /\ order[o].status \notin Claimed
    BY <2>1 DEF Claimed, Settled
  <2>3. \A p \in Orders :
           /\ order'[p].txn = order[p].txn
           /\ order'[p].status \in Claimed <=> order[p].status \in Claimed
           /\ order[p].txn # NoTxn => order'[p].credit = order[p].credit
    BY <2>1, <2>2, StatusOnly
  <2> QED BY <2>1, <2>3, UnchangedKeeps, CreditFrame
<1>4. ASSUME NEW ev \in Callbacks, ApplyVerifiedEvent(ev) PROVE CreditedOnce'
  <2>0. ev.order \in Orders
    BY Fields
  <2>1. CASE ApplyPayment(ev)
    BY <2>1, PaymentCredits
  <2>2. CASE ApplyReversal(ev)
    <3>1. /\ LedgerKept("payment-paid")
          /\ order' = [order EXCEPT ![ev.order].status = ReversedStatus(ev)]
      BY <2>2, ReversalWrites DEF ApplyReversal
    <3>2. order[ev.order].status \in Claimed /\ ReversedStatus(ev) \in Claimed
      BY <2>2 DEF ApplyReversal, Conflict, ReversalConflict, Claimed, ReversedStatus, Settled
    <3>3. \A p \in Orders :
           /\ order'[p].txn = order[p].txn
           /\ order'[p].status \in Claimed <=> order[p].status \in Claimed
           /\ order[p].txn # NoTxn => order'[p].credit = order[p].credit
      BY <2>0, <3>1, <3>2, StatusOnly
    <3> QED BY <3>1, <3>3, CreditFrame
  <2>3. CASE MarkEventDuplicate(ev) \/ UnmatchedEvent(ev)
    BY <2>3, UnchangedKeeps, CreditFrame DEF MarkEventDuplicate, UnmatchedEvent
  <2>4. CASE ConflictingEvent(ev)
    BY <2>0, <2>4, ReconciliationKeepsCredit DEF ConflictingEvent
  <2>5. CASE EventContentMismatch(ev)
    <3>1. CASE inbox[ev.id].order = NoOrder
      BY <2>5, <3>1, UnchangedKeeps, CreditFrame DEF EventContentMismatch
    <3>2. CASE inbox[ev.id].order # NoOrder
      <4>1. inbox[ev.id].order \in Orders
        BY <2>5, <3>2 DEF EventContentMismatch, Recorded, TypeInv, TypeOK, InboxRow
      <4> QED BY <2>5, <3>2, <4>1, ReconciliationKeepsCredit DEF EventContentMismatch
    <3> QED BY <3>1, <3>2
  <2> QED BY <1>4, <2>1, <2>2, <2>3, <2>4, <2>5 DEF ApplyVerifiedEvent
<1>5. ASSUME NEW kind \in ChargeKinds, NEW a \in Accounts, NEW k \in ChargeKeys,
             NEW w \in Wallets, NEW price \in Prices, ChargeShop(kind, a, k, w, price)
      PROVE  CreditedOnce'
  <2>1. LedgerKept("payment-paid") /\ order' = order
    BY <1>5, ChargeWrites DEF ChargeShop, paymentVars, ChargeKinds
  <2> QED BY <2>1, CreditFrame
<1>6. ASSUME NEW w \in Wallets, NEW k \in AdjustKeys, NEW delta \in Adjustments,
             AdjustWallet(w, k, delta)
      PROVE  CreditedOnce'
  <2>1. LedgerKept("payment-paid") /\ order' = order
    BY <1>6, AdjustWrites DEF AdjustWallet
  <2> QED BY <2>1, CreditFrame
<1> QED BY <1>1, <1>2, <1>3, <1>4, <1>5, <1>6 DEF Next, OrderStep, DeliverCallback

(* An order is credited once and in full, in its own wallet, exactly when it *)
(* carries a provider transaction, and no transaction pays for two orders,   *)
(* whatever callbacks arrive, how often and in which order.                  *)
THEOREM CreditedOnceHolds == Spec => []CreditedOnce
<1>1. Init => CreditedOnce
  <2> SUFFICES ASSUME Init PROVE CreditedOnce
    OBVIOUS
  <2>1. \A o \in Orders : order[o].txn = NoTxn /\ order[o].status \in {"PENDING", "ABSENT"}
    BY DEF Init, PaymentsInit
  <2>2. \A w \in Wallets : ledger[w] = <<>>
    BY DEF Init, WalletInit
  <2>3. \A o \in Orders : WalletOf[o] \in Wallets
    BY PaymentsAssumption
  <2> QED BY <2>1, <2>2, <2>3 DEF CreditedOnce, Posted, Settled
<1>2. TypeInv /\ CreditedOnce /\ [Next]_vars => CreditedOnce'
  BY CreditStep
<1> QED BY <1>1, <1>2, TypeCorrect, PTL DEF Spec

-----------------------------------------------------------------------------
(* ReversalsExact is not inductive as it stands: that the debit of a        *)
(* reversal is never zero, and that its key is fresh, follows from how each *)
(* row was computed, from the quote of its order and from the inbox.        *)

(* An order costs at most what it credits.                                  *)
QuoteCovered == \A o \in Orders : order[o].payable <= order[o].credit

(* Only orders that exist are reversed, so the quote of a reversed order is *)
(* final.                                                                   *)
ReversedExists == \A o \in Orders : reversal[o] # <<>> => order[o].status # "ABSENT"

(* Every row was computed from the quote and its predecessor, and its event *)
(* is in the inbox.                                                         *)
RowComputed(o, i) ==
  LET row == reversal[o][i]
  IN  /\ row.event \in DOMAIN inbox
      /\ ReversalAmountValid(order[o].payable, row.payable)
      /\ row.credit = CumulativeCreditReversal(order[o].credit, order[o].payable, row.payable)
      /\ row.delta = CreditReversed(reversal[o], i - 1) - row.credit
RowsComputed == \A o \in Orders : \A i \in DOMAIN reversal[o] : RowComputed(o, i)

ReversalInv == QuoteCovered /\ ReversedExists /\ RowsComputed /\ ReversalsDebited

(* A step that reverses nothing keeps ReversalInv.                          *)
LEMMA ReversalFrame ==
  ASSUME TypeInv, ReversalInv, LedgerKept("payment-reversal"), reversal' = reversal,
         DOMAIN inbox \subseteq DOMAIN inbox',
         \A o \in Orders :
           /\ order'[o].payable <= order'[o].credit
           /\ order[o].status # "ABSENT" =>
                /\ order'[o].status # "ABSENT"
                /\ order'[o].payable = order[o].payable /\ order'[o].credit = order[o].credit
  PROVE  ReversalInv'
<1>1. QuoteCovered'
  BY DEF QuoteCovered
<1>2. ReversedExists'
  BY DEF ReversedExists, ReversalInv
<1>3. RowsComputed'
  <2> SUFFICES ASSUME NEW o \in Orders, NEW i \in DOMAIN reversal[o]
               PROVE  RowComputed(o, i)'
    BY DEF RowsComputed
  <2>1. reversal[o] # <<>>
    BY DEF TypeInv, TypeOK
  <2>2. order[o].status # "ABSENT"
    BY <2>1 DEF ReversedExists, ReversalInv
  <2>3. RowComputed(o, i)
    BY DEF RowsComputed, ReversalInv
  <2> QED BY <2>2, <2>3 DEF RowComputed, CreditReversed
<1>4. ReversalsDebited'
  <2>0. ReversalsDebited
    BY DEF ReversalInv
  <2>1. ASSUME NEW o \in Orders, NEW i \in DOMAIN reversal[o]
        PROVE  \E n \in DOMAIN ledger'[WalletOf[o]] :
                 /\ ledger'[WalletOf[o]][n].key = Key("payment-reversal", reversal[o][i].event)
                 /\ ledger'[WalletOf[o]][n].delta = reversal[o][i].delta
    <3>1. PICK n \in DOMAIN ledger[WalletOf[o]] :
            /\ ledger[WalletOf[o]][n].key = Key("payment-reversal", reversal[o][i].event)
            /\ ledger[WalletOf[o]][n].delta = reversal[o][i].delta
      BY <2>0, <2>1 DEF ReversalsDebited
    <3>2. n \in DOMAIN ledger'[WalletOf[o]] /\ ledger'[WalletOf[o]][n] = ledger[WalletOf[o]][n]
      BY <3>1, PaymentsAssumption DEF LedgerKept
    <3> QED BY <3>1, <3>2
  <2>2. ASSUME NEW w \in Wallets, NEW n \in DOMAIN ledger'[w], ledger'[w][n].key.kind = "payment-reversal"
        PROVE  \E o \in Orders : /\ WalletOf[o] = w
                                 /\ \E i \in DOMAIN reversal[o] :
                                      reversal[o][i].event = ledger'[w][n].key.id
    <3>1. n \in DOMAIN ledger[w] /\ ledger'[w][n] = ledger[w][n]
      BY <2>2 DEF LedgerKept
    <3> QED BY <2>0, <2>2, <3>1 DEF ReversalsDebited
  <2> QED BY <2>1, <2>2 DEF ReversalsDebited, Key
<1> QED BY <1>1, <1>2, <1>3, <1>4 DEF ReversalInv

(* A change of status keeps it too, unless the order did not exist.         *)
LEMMA StatusKeepsReversals ==
  ASSUME TypeInv, ReversalInv, NEW o \in Orders, NEW status,
         status # "ABSENT", order' = [order EXCEPT ![o].status = status]
  PROVE  \A p \in Orders :
           /\ order'[p].payable <= order'[p].credit
           /\ order[p].status # "ABSENT" =>
                /\ order'[p].status # "ABSENT"
                /\ order'[p].payable = order[p].payable /\ order'[p].credit = order[p].credit
<1>1. \A p \in Orders : order[p].payable <= order[p].credit
  BY DEF ReversalInv, QuoteCovered
<1>2. order'[o].status = status /\ \A p \in Orders : /\ order'[p].credit = order[p].credit
                                                     /\ order'[p].payable = order[p].payable
                                                     /\ p # o => order'[p].status = order[p].status
  BY StatusOnly
<1> QED BY <1>1, <1>2

(* The inbox grows by the event that is recorded.                           *)
LEMMA RecordGrows ==
  ASSUME NEW ev, NEW o, NEW status, Record(ev, o, status)
  PROVE  DOMAIN inbox' = DOMAIN inbox \cup {ev.id}
BY DEF Record

(* An order set aside for reconciliation keeps its reversals.               *)
LEMMA ReconciliationKeepsReversals ==
  ASSUME TypeInv, ReversalInv, NEW o \in Orders, RequireReconciliation(o),
         DOMAIN inbox \subseteq DOMAIN inbox'
  PROVE  ReversalInv'
<1>1. /\ order' = [order EXCEPT ![o].status = "RECONCILIATION_REQUIRED"]
      /\ ledger' = ledger /\ reversal' = reversal
  BY DEF RequireReconciliation
<1>2. "RECONCILIATION_REQUIRED" # "ABSENT"
  OBVIOUS
<1> QED BY <1>1, <1>2, StatusKeepsReversals, UnchangedKeeps, ReversalFrame

(* The debit of an accepted reversal is positive.                           *)
LEMMA ReversalDebits ==
  ASSUME TypeInv, ReversalInv, NEW ev \in Callbacks, ~Conflict(ev), ~AlreadyApplied(ev), ev.type # "PAID"
  PROVE  PreviousReversal(ev.order).credit < ReversedCredit(ev)
<1> DEFINE o == ev.order
           rows == reversal[o]
           c == order[o].credit
           p == order[o].payable
<1>1. /\ o \in Orders /\ c \in Nat /\ p \in Nat /\ p <= c /\ ev.amount \in Int
      /\ ReversalAmountValid(p, ev.amount) /\ ReversedCredit(ev) \in Nat
      /\ PreviousReversal(o) = LastReversal(rows)
      /\ PreviousReversal(o).payable < ev.amount
  <2>1. ev.amount # PreviousReversal(o).payable
    BY DEF AlreadyApplied
  <2> QED BY <2>1, Fields, ReversalAmounts DEF ReversalInv, QuoteCovered
<1>2. ReversedCredit(ev) = CumulativeCreditReversal(c, p, ev.amount)
  BY DEF ReversedCredit
<1>3. CASE rows = <<>>
  <2>1. PreviousReversal(o).credit = 0
    BY <1>1, <1>3 DEF LastReversal, NoReversal
  <2>2. CumulativeCreditReversal(c, p, ev.amount) \in 1..c
    BY <1>1, CumulativeReversal
  <2> QED BY <1>1, <1>2, <2>1, <2>2
<1>4. CASE rows # <<>>
  <2>1. rows \in Seq(ReversalRow) /\ Len(rows) \in DOMAIN rows
    BY <1>1, <1>4 DEF TypeInv, TypeOK
  <2> DEFINE last == rows[Len(rows)]
  <2>2. RowComputed(o, Len(rows)) /\ last \in ReversalRow
    BY <1>1, <2>1 DEF ReversalInv, RowsComputed
  <2>3. last.payable \in Int /\ ReversalAmountValid(p, last.payable)
        /\ last.credit = CumulativeCreditReversal(c, p, last.payable)
    BY <2>2 DEF RowComputed, ReversalRow
  <2>4. PreviousReversal(o) = [payable |-> last.payable, credit |-> last.credit]
    BY <1>1, <1>4 DEF LastReversal
  <2>5. last.payable < ev.amount
    BY <1>1, <2>4
  <2>6. CumulativeCreditReversal(c, p, last.payable) < CumulativeCreditReversal(c, p, ev.amount)
    BY <1>1, <2>3, <2>5, CumulativeGrows
  <2> QED BY <1>2, <2>3, <2>4, <2>6
<1> QED BY <1>3, <1>4

(* applyReversal adds a row and the entry that pays it.                     *)
LEMMA ReversalPays ==
  ASSUME TypeInv, ReversalInv, NEW ev \in Callbacks, ApplyReversal(ev)
  PROVE  ReversalInv'
<1> DEFINE o == ev.order
           w == WalletOf[o]
           rows == reversal[o]
           credit == ReversedCredit(ev)
           prior == PreviousReversal(o).credit
           row == [event |-> ev.id, payable |-> ev.amount, credit |-> credit, delta |-> -(credit - prior)]
           key == Key("payment-reversal", ev.id)
<1>0. /\ ~Conflict(ev) /\ ~AlreadyApplied(ev) /\ ev.type # "PAID" /\ ~Recorded(ev)
      /\ order[o].status # "ABSENT" /\ ReversedStatus(ev) # "ABSENT"
      /\ order' = [order EXCEPT ![o].status = ReversedStatus(ev)]
      /\ reversal' = [reversal EXCEPT ![o] = Append(rows, row)]
      /\ DOMAIN inbox' = DOMAIN inbox \cup {ev.id}
  BY RecordGrows DEF ApplyReversal, KnownOrder, ReversedStatus
<1>1. o \in Orders /\ w \in Wallets /\ credit \in Nat /\ prior \in Nat /\ prior < credit
  BY <1>0, Fields, ReversalAmounts, ReversalDebits
<1>2. \A p \in Orders :
           /\ order'[p].payable = order[p].payable /\ order'[p].credit = order[p].credit
           /\ order'[p].payable <= order'[p].credit
           /\ order[p].status # "ABSENT" => order'[p].status # "ABSENT"
  <2>1. \A p \in Orders : order[p].payable <= order[p].credit
    BY DEF ReversalInv, QuoteCovered
  <2>2. order'[o].status = ReversedStatus(ev)
        /\ \A p \in Orders : /\ order'[p].credit = order[p].credit
                             /\ order'[p].payable = order[p].payable
                             /\ p # o => order'[p].status = order[p].status
    <3> PICK status : status = ReversedStatus(ev)
      OBVIOUS
    <3>1. order' = [order EXCEPT ![o].status = status] /\ o \in Orders
      BY <1>0, <1>1
    <3> HIDE DEF o
    <3> QED BY <3>1, StatusOnly
  <2> TAKE p \in Orders
  <2>3. order[p].payable <= order[p].credit
    BY <2>1
  <2>4. /\ order'[p].credit = order[p].credit /\ order'[p].payable = order[p].payable
        /\ p # o => order'[p].status = order[p].status
    BY <2>2
  <2>5. order'[o].status # "ABSENT"
    BY <1>0, <2>2
  <2> HIDE DEF o
  <2> QED BY <2>3, <2>4, <2>5
<1>3. /\ \A p \in Orders \ {o} : reversal'[p] = reversal[p]
      /\ reversal'[o] = Append(rows, row)
      /\ rows \in Seq(ReversalRow)
  BY <1>0, <1>1 DEF TypeInv, TypeOK
<1>4. /\ DOMAIN rows = 1..Len(rows) /\ Len(rows) \in Nat
      /\ DOMAIN reversal'[o] = 1..(Len(rows) + 1)
      /\ reversal'[o][Len(rows) + 1] = row
      /\ \A i \in 1..Len(rows) : reversal'[o][i] = rows[i]
  <2> HIDE DEF row
  <2> QED BY <1>3
<1>5. ~Posted(w, key) /\ NewEntry(w, EntryOf(w, key, -(credit - prior)))
  <2>1. AppendWalletEntry(w, key, -(credit - prior), FALSE, TRUE)
    <3>1. credit - prior > 0
      BY <1>1
    <3> QED BY <3>1 DEF ApplyReversal
  <2>2. ~Posted(w, key)
    <3> SUFFICES ASSUME NEW n \in DOMAIN ledger[w], ledger[w][n].key = key PROVE FALSE
      BY DEF Posted
    <3>1. key.kind = "payment-reversal" /\ key.id = ev.id
      BY DEF Key
    <3>2. PICK p \in Orders : \E i \in DOMAIN reversal[p] : reversal[p][i].event = ev.id
      <4> HIDE DEF key, w
      <4> QED BY <1>1, <3>1 DEF ReversalInv, ReversalsDebited
    <3>3. ev.id \in DOMAIN inbox
      BY <3>2 DEF ReversalInv, RowsComputed, RowComputed
    <3> QED BY <1>0, <3>3 DEF Recorded
  <2> QED BY <1>1, <2>1, <2>2, AppendEffect
<1> DEFINE entry == EntryOf(w, key, -(credit - prior))
<1>6. entry.key = key /\ entry.delta = row.delta /\ key.kind = "payment-reversal" /\ key.id = ev.id
  BY DEF EntryOf, Key
<1>7. QuoteCovered'
  BY <1>2 DEF QuoteCovered
<1>8. ReversedExists'
  BY <1>0, <1>2, <1>3 DEF ReversedExists, ReversalInv
<1>9. RowsComputed'
  <2> SUFFICES ASSUME NEW p \in Orders, NEW i \in DOMAIN reversal'[p]
               PROVE  RowComputed(p, i)'
    BY DEF RowsComputed
  <2>1. CASE p # o
    <3>1. RowComputed(p, i) /\ reversal'[p] = reversal[p]
      BY <1>3, <2>1 DEF RowsComputed, ReversalInv
    <3> QED BY <1>0, <1>2, <3>1 DEF RowComputed, CreditReversed
  <2>2. CASE p = o /\ i \in 1..Len(rows)
    <3>1. RowComputed(p, i)
      BY <1>4, <2>2 DEF RowsComputed, ReversalInv
    <3>2. CreditReversed(reversal'[p], i - 1) = CreditReversed(rows, i - 1)
      <4> HIDE DEF rows
      <4> QED BY <1>4, <2>2 DEF CreditReversed
    <3> QED BY <1>0, <1>2, <1>4, <2>2, <3>1, <3>2 DEF RowComputed, CreditReversed
  <2>3. CASE p = o /\ i = Len(rows) + 1
    <3>1. CreditReversed(reversal'[o], i - 1) = prior
      <4>1. PreviousReversal(o) = LastReversal(rows)
        BY <1>0, ReversalAmounts
      <4>2. CASE rows = <<>>
        BY <2>3, <4>1, <4>2 DEF CreditReversed, LastReversal, NoReversal
      <4>3. CASE rows # <<>>
        <5>1. Len(rows) \in 1..Len(rows)
          BY <1>3, <1>4, <4>3
        <5>2. prior = rows[Len(rows)].credit
          BY <4>1, <4>3 DEF LastReversal
        <5>3. i - 1 = Len(rows) /\ i - 1 # 0 /\ reversal'[o][Len(rows)] = rows[Len(rows)]
          BY <1>4, <2>3, <5>1
        <5> QED BY <5>2, <5>3 DEF CreditReversed
      <4> QED BY <4>2, <4>3
    <3>2. reversal'[o][i] = row /\ row.event = ev.id /\ row.payable = ev.amount
          /\ row.credit = credit /\ row.delta = prior - credit
      BY <1>1, <1>4, <2>3
    <3>3. ReversalAmountValid(order[o].payable, ev.amount)
          /\ credit = CumulativeCreditReversal(order[o].credit, order[o].payable, ev.amount)
      BY <1>0, ReversalAmounts DEF ReversedCredit
    <3> HIDE DEF row, credit, prior
    <3> QED BY <1>0, <1>1, <1>2, <2>3, <3>1, <3>2, <3>3 DEF RowComputed
  <2>4. p = o => i \in 1..(Len(rows) + 1)
    BY <1>4
  <2> QED BY <1>4, <2>1, <2>2, <2>3, <2>4
<1>10. ReversalsDebited'
  <2>0. ReversalsDebited
    BY DEF ReversalInv
  <2> HIDE DEF entry
  <2>1. ASSUME NEW p \in Orders, NEW i \in DOMAIN reversal'[p]
        PROVE  \E n \in DOMAIN ledger'[WalletOf[p]] :
                 /\ ledger'[WalletOf[p]][n].key = Key("payment-reversal", reversal'[p][i].event)
                 /\ ledger'[WalletOf[p]][n].delta = reversal'[p][i].delta
    <3>1. CASE i \in DOMAIN reversal[p] /\ reversal'[p][i] = reversal[p][i]
      <4>1. PICK n \in DOMAIN ledger[WalletOf[p]] :
              /\ ledger[WalletOf[p]][n].key = Key("payment-reversal", reversal[p][i].event)
              /\ ledger[WalletOf[p]][n].delta = reversal[p][i].delta
        BY <2>0, <3>1 DEF ReversalsDebited
      <4>2. n \in DOMAIN ledger'[WalletOf[p]] /\ ledger'[WalletOf[p]][n] = ledger[WalletOf[p]][n]
        <5>1. WalletOf[p] \in Wallets
          BY PaymentsAssumption
        <5> QED BY <1>5, <4>1, <5>1 DEF NewEntry, entry
      <4> QED BY <3>1, <4>1, <4>2
    <3>2. CASE p = o /\ reversal'[p][i] = row
      <4>1. PICK n \in DOMAIN ledger'[w] : ledger'[w][n] = entry
        BY <1>5 DEF NewEntry, entry
      <4>2. ledger'[w][n].key = key /\ ledger'[w][n].delta = row.delta /\ row.event = ev.id
        BY <1>6, <4>1
      <4> QED BY <3>2, <4>1, <4>2
    <3>3. CASE p = o
      <4>1. i \in 1..Len(rows) \/ i = Len(rows) + 1
        <5> HIDE DEF row, rows, o
        <5>1. i \in 1..(Len(rows) + 1) /\ Len(rows) \in Nat
          BY <1>4, <2>1, <3>3
        <5> QED BY <5>1
      <4> HIDE DEF row
      <4>2. CASE i \in 1..Len(rows)
        BY <1>4, <3>1, <3>3, <4>2
      <4>3. CASE i = Len(rows) + 1
        BY <1>4, <3>2, <3>3, <4>3
      <4> QED BY <4>1, <4>2, <4>3
    <3>4. CASE p # o
      BY <1>3, <2>1, <3>1, <3>4
    <3> QED BY <3>3, <3>4
  <2>2. ASSUME NEW v \in Wallets, NEW n \in DOMAIN ledger'[v], ledger'[v][n].key.kind = "payment-reversal"
        PROVE  \E p \in Orders : /\ WalletOf[p] = v
                                 /\ \E i \in DOMAIN reversal'[p] :
                                      reversal'[p][i].event = ledger'[v][n].key.id
    <3>1. CASE n \in DOMAIN ledger[v] /\ ledger'[v][n] = ledger[v][n]
      <4>1. PICK p \in Orders : /\ WalletOf[p] = v
                                /\ \E i \in DOMAIN reversal[p] : reversal[p][i].event = ledger[v][n].key.id
        BY <2>0, <2>2, <3>1 DEF ReversalsDebited
      <4>2. \A i \in DOMAIN reversal[p] : i \in DOMAIN reversal'[p] /\ reversal'[p][i] = reversal[p][i]
        <5> HIDE DEF rows, row
        <5>1. CASE p = o
          <6>1. \A i \in 1..Len(rows) : i \in 1..(Len(rows) + 1)
            BY <1>4
          <6> QED BY <1>4, <5>1, <6>1, Zenon DEF rows
        <5>2. CASE p # o
          BY <1>3, <5>2
        <5> QED BY <5>1, <5>2
      <4> QED BY <3>1, <4>1, <4>2
    <3>2. CASE v = w /\ ledger'[v][n] = entry
      <4>1. Len(rows) + 1 \in DOMAIN reversal'[o] /\ reversal'[o][Len(rows) + 1].event = ev.id
        BY <1>4
      <4>2. ledger'[v][n].key.id = ev.id
        BY <1>6, <3>2
      <4> HIDE DEF o
      <4> QED BY <1>1, <3>2, <4>1, <4>2 DEF w
    <3>3. (n \in DOMAIN ledger[v] /\ ledger'[v][n] = ledger[v][n]) \/ (v = w /\ ledger'[v][n] = entry)
      BY <1>5, <2>2 DEF NewEntry, entry
    <3> QED BY <3>1, <3>2, <3>3
  <2> QED BY <2>1, <2>2 DEF ReversalsDebited, Key
<1> QED BY <1>7, <1>8, <1>9, <1>10 DEF ReversalInv

(* Every step keeps ReversalInv.                                            *)
LEMMA ReversalStep ==
  ASSUME TypeInv, ReversalInv, [Next]_vars
  PROVE  ReversalInv'
<1>0. \A o \in Orders : order[o].payable <= order[o].credit
  BY DEF ReversalInv, QuoteCovered
<1>1. CASE UNCHANGED vars
  BY <1>0, <1>1, UnchangedKeeps, ReversalFrame DEF vars
<1>2. ASSUME NEW o \in Orders, NEW credit \in Credits, CreateOrder(o, credit) PROVE ReversalInv'
  <2>1. order \in [Orders -> OrderRow] /\ order[o].status = "ABSENT"
        /\ ledger' = ledger /\ reversal' = reversal /\ inbox' = inbox
    BY <1>2 DEF TypeInv, TypeOK, CreateOrder
  <2>2. order'[o].payable = credit /\ order'[o].credit = credit /\ credit \in Nat
        /\ \A p \in Orders \ {o} : order'[p] = order[p]
    BY <1>2, <2>1, PaymentsAssumption DEF CreateOrder, QuoteTopUp
  <2> QED BY <1>0, <2>1, <2>2, UnchangedKeeps, ReversalFrame
<1>3. ASSUME NEW o \in Orders, MarkOrderPending(o) PROVE ReversalInv'
  <2>1. /\ ledger' = ledger /\ reversal' = reversal /\ inbox' = inbox
        /\ order' = [order EXCEPT ![o].status = "PENDING"]
    BY <1>3 DEF MarkOrderPending
  <2>2. "PENDING" # "ABSENT"
    OBVIOUS
  <2> QED BY <2>1, <2>2, StatusKeepsReversals, UnchangedKeeps, ReversalFrame
<1>4. ASSUME NEW ev \in Callbacks, ApplyVerifiedEvent(ev) PROVE ReversalInv'
  <2>0. ev.order \in Orders
    BY Fields
  <2>1. CASE ApplyPayment(ev)
    <3>1. LedgerKept("payment-reversal") /\ reversal' = reversal /\ DOMAIN inbox \subseteq DOMAIN inbox'
          /\ order' = [order EXCEPT ![ev.order].status = "PAID", ![ev.order].txn = ev.txn]
      BY <2>1, PaymentWrites, RecordGrows DEF ApplyPayment
    <3>2. order \in [Orders -> OrderRow] /\ order[ev.order] \in OrderRow
      BY <2>0 DEF TypeInv, TypeOK
    <3>3. /\ order'[ev.order].status = "PAID" /\ order'[ev.order].credit = order[ev.order].credit
          /\ order'[ev.order].payable = order[ev.order].payable
          /\ \A p \in Orders \ {ev.order} : order'[p] = order[p]
      BY <2>0, <3>1, <3>2 DEF OrderRow
    <3>4. \A p \in Orders :
           /\ order'[p].payable <= order'[p].credit
           /\ order[p].status # "ABSENT" =>
                /\ order'[p].status # "ABSENT"
                /\ order'[p].payable = order[p].payable /\ order'[p].credit = order[p].credit
      BY <1>0, <3>3
    <3> QED BY <3>1, <3>4, ReversalFrame
  <2>2. CASE ApplyReversal(ev)
    BY <2>2, ReversalPays
  <2>3. CASE MarkEventDuplicate(ev) \/ UnmatchedEvent(ev)
    <3>1. order' = order /\ ledger' = ledger /\ reversal' = reversal /\ DOMAIN inbox \subseteq DOMAIN inbox'
      BY <2>3, RecordGrows DEF MarkEventDuplicate, UnmatchedEvent
    <3> QED BY <1>0, <3>1, UnchangedKeeps, ReversalFrame
  <2>4. CASE ConflictingEvent(ev)
    BY <2>0, <2>4, RecordGrows, ReconciliationKeepsReversals DEF ConflictingEvent
  <2>5. CASE EventContentMismatch(ev)
    <3>0. DOMAIN inbox \subseteq DOMAIN inbox'
      BY <2>5 DEF EventContentMismatch
    <3>1. CASE inbox[ev.id].order = NoOrder
      BY <1>0, <2>5, <3>0, <3>1, UnchangedKeeps, ReversalFrame DEF EventContentMismatch
    <3>2. CASE inbox[ev.id].order # NoOrder
      <4>1. inbox[ev.id].order \in Orders
        BY <2>5, <3>2 DEF EventContentMismatch, Recorded, TypeInv, TypeOK, InboxRow
      <4> QED BY <2>5, <3>0, <3>2, <4>1, ReconciliationKeepsReversals DEF EventContentMismatch
    <3> QED BY <3>1, <3>2
  <2> QED BY <1>4, <2>1, <2>2, <2>3, <2>4, <2>5 DEF ApplyVerifiedEvent
<1>5. ASSUME NEW kind \in ChargeKinds, NEW a \in Accounts, NEW k \in ChargeKeys,
             NEW w \in Wallets, NEW price \in Prices, ChargeShop(kind, a, k, w, price)
      PROVE  ReversalInv'
  <2>1. LedgerKept("payment-reversal") /\ order' = order /\ inbox' = inbox /\ reversal' = reversal
    BY <1>5, ChargeWrites DEF ChargeShop, paymentVars, ChargeKinds
  <2> QED BY <1>0, <2>1, ReversalFrame
<1>6. ASSUME NEW w \in Wallets, NEW k \in AdjustKeys, NEW delta \in Adjustments,
             AdjustWallet(w, k, delta)
      PROVE  ReversalInv'
  <2>1. LedgerKept("payment-reversal") /\ order' = order /\ inbox' = inbox /\ reversal' = reversal
    BY <1>6, AdjustWrites DEF AdjustWallet
  <2> QED BY <1>0, <2>1, ReversalFrame
<1> QED BY <1>1, <1>2, <1>3, <1>4, <1>5, <1>6 DEF Next, OrderStep, DeliverCallback

(* The invariant gives ReversalsExact: amounts grow, debits are what the    *)
(* rows say, and they never exceed what was credited.                       *)
LEMMA ReversalInvExact ==
  ASSUME TypeInv, ReversalInv
  PROVE  ReversalsExact
<1> SUFFICES ASSUME NEW o \in Orders, NEW i \in DOMAIN reversal[o]
             PROVE  /\ PayableReversed(reversal[o], i - 1) < reversal[o][i].payable
                    /\ reversal[o][i].delta = CreditReversed(reversal[o], i - 1) - reversal[o][i].credit
                    /\ reversal[o][i].delta <= 0
                    /\ reversal[o][i].credit <= order[o].credit
                    /\ reversal[o][i].payable <= order[o].payable
                    /\ reversal[o][i].payable = order[o].payable => reversal[o][i].credit = order[o].credit
  BY DEF ReversalsExact, ReversalsWithinCredit, ReversalInv
<1> DEFINE rows == reversal[o]
           c == order[o].credit
           p == order[o].payable
<1>1. rows \in Seq(ReversalRow) /\ DOMAIN rows = 1..Len(rows) /\ Len(rows) \in Nat /\ Ascending(rows)
  BY DEF TypeInv, TypeOK
<1>2. c \in Nat /\ p \in Nat /\ p <= c
  <2>1. order[o] \in OrderRow
    BY DEF TypeInv, TypeOK
  <2> QED BY <2>1 DEF OrderRow, ReversalInv, QuoteCovered
<1>3. \A j \in DOMAIN rows : /\ rows[j].payable \in Int /\ ReversalAmountValid(p, rows[j].payable)
                             /\ rows[j].credit = CumulativeCreditReversal(c, p, rows[j].payable)
                             /\ rows[j].delta = CreditReversed(rows, j - 1) - rows[j].credit
  <2> TAKE j \in DOMAIN rows
  <2>1. RowComputed(o, j) /\ rows[j] \in ReversalRow
    BY <1>1 DEF ReversalInv, RowsComputed
  <2> QED BY <2>1 DEF RowComputed, ReversalRow
<1>4. /\ rows[i].credit \in 1..c
      /\ 0 < rows[i].payable /\ rows[i].payable <= p
      /\ rows[i].payable = p => rows[i].credit = c
  BY <1>2, <1>3, CumulativeReversal DEF CumulativeCreditReversal, ReversalAmountValid
<1>5. CASE i = 1
  <2>1. PayableReversed(rows, i - 1) = 0 /\ CreditReversed(rows, i - 1) = 0
    BY <1>5 DEF PayableReversed, CreditReversed
  <2> QED BY <1>2, <1>3, <1>4, <2>1
<1>6. CASE i # 1
  <2>1. i - 1 \in DOMAIN rows /\ i - 1 # 0 /\ i - 1 < i
    BY <1>1, <1>6
  <2>2. PayableReversed(rows, i - 1) = rows[i - 1].payable /\ CreditReversed(rows, i - 1) = rows[i - 1].credit
    BY <2>1 DEF PayableReversed, CreditReversed
  <2>3. rows[i - 1].payable < rows[i].payable
    BY <1>1, <2>1 DEF Ascending
  <2> PICK j : j = i - 1
    OBVIOUS
  <2> HIDE DEF rows, c, p
  <2>5. /\ rows[j].payable \in Int /\ ReversalAmountValid(p, rows[j].payable)
        /\ rows[j].credit = CumulativeCreditReversal(c, p, rows[j].payable)
    BY <1>3, <2>1
  <2>6. /\ rows[i].payable \in Int /\ ReversalAmountValid(p, rows[i].payable)
        /\ rows[i].credit = CumulativeCreditReversal(c, p, rows[i].payable)
    BY <1>3 DEF rows
  <2>7. rows[j].credit \in 1..c
    BY <1>2, <2>5, CumulativeReversal
  <2>8. rows[j].credit < rows[i].credit
    BY <1>2, <2>3, <2>5, <2>6, CumulativeGrows
  <2>4. rows[i - 1].credit < rows[i].credit /\ rows[i - 1].credit \in 1..c
    BY <2>7, <2>8
  <2>9. rows[i].delta = CreditReversed(rows, i - 1) - rows[i].credit
    BY <1>3 DEF rows
  <2>10. rows[i].delta <= 0
    BY <1>2, <1>4, <2>2, <2>4, <2>9
  <2> QED BY <1>4, <2>2, <2>3, <2>9, <2>10, <1>2 DEF rows, c, p
<1> QED BY <1>5, <1>6

(* For every order, at every moment: reversals grow, each debits exactly    *)
(* what the previous ones left out, what is taken back never exceeds what   *)
(* was credited and is all of it once all was returned, and rows and ledger *)
(* entries correspond.                                                      *)
THEOREM ReversalsExactHolds == Spec => []ReversalsExact
<1>1. Init => ReversalInv
  <2> SUFFICES ASSUME Init PROVE ReversalInv
    OBVIOUS
  <2>1. \A o \in Orders : reversal[o] = <<>> /\ DOMAIN reversal[o] = {}
    BY DEF Init, PaymentsInit
  <2>2. \A w \in Wallets : DOMAIN ledger[w] = {}
    <3> SUFFICES ASSUME NEW w \in Wallets PROVE DOMAIN ledger[w] = {}
      OBVIOUS
    <3>1. ledger[w] = <<>> /\ DOMAIN <<>> = {}
      BY DEF Init, WalletInit
    <3> QED BY <3>1
  <2>3. QuoteCovered
    BY PaymentsAssumption DEF Init, PaymentsInit, QuoteCovered
  <2> QED BY <2>1, <2>2, <2>3, PaymentsAssumption
           DEF ReversalInv, ReversedExists, RowsComputed, ReversalsDebited
<1>2. TypeInv /\ ReversalInv /\ [Next]_vars => ReversalInv'
  BY ReversalStep
<1>3. TypeInv /\ ReversalInv => ReversalsExact
  BY ReversalInvExact
<1> QED BY <1>1, <1>2, <1>3, TypeCorrect, PTL DEF Spec

-----------------------------------------------------------------------------
(* Charged shops, and the account book.                                     *)

(* What makes a charge find no entry of another one under its key: the      *)
(* shop entries of a ledger were all written for a charge.                  *)
ShopEntriesCharged ==
  \A w \in Wallets : \A n \in DOMAIN ledger[w] :
    ledger[w][n].key.kind \in ChargeKinds =>
      \E c \in charge : /\ c.kind = ledger[w][n].key.kind /\ c.key = ledger[w][n].key.id
                        /\ c.wallet = w /\ c.charged > 0

ChargeInv == ShopEntriesCharged /\ ChargesPaid

(* A step that charges nothing keeps ChargeInv.                             *)
LEMMA ChargeFrame ==
  ASSUME TypeInv, ChargeInv, charge' = charge, \A kind \in ChargeKinds : LedgerKept(kind)
  PROVE  ChargeInv'
<1>1. ShopEntriesCharged'
  <2> SUFFICES ASSUME NEW w \in Wallets, NEW n \in DOMAIN ledger'[w],
                      ledger'[w][n].key.kind \in ChargeKinds
               PROVE  \E c \in charge : /\ c.kind = ledger'[w][n].key.kind
                                        /\ c.key = ledger'[w][n].key.id
                                        /\ c.wallet = w /\ c.charged > 0
    BY DEF ShopEntriesCharged, ChargeKinds
  <2>1. n \in DOMAIN ledger[w] /\ ledger'[w][n] = ledger[w][n]
    BY DEF LedgerKept
  <2> QED BY <2>1 DEF ChargeInv, ShopEntriesCharged
<1>2. ASSUME NEW c \in charge, c.charged > 0
      PROVE  \E n \in DOMAIN ledger'[c.wallet] :
               /\ ledger'[c.wallet][n].key = Key(c.kind, c.key)
               /\ ledger'[c.wallet][n].delta = -c.charged
               /\ ledger'[c.wallet][n].after >= 0
  <2>1. PICK n \in DOMAIN ledger[c.wallet] :
               /\ ledger[c.wallet][n].key = Key(c.kind, c.key)
               /\ ledger[c.wallet][n].delta = -c.charged
               /\ ledger[c.wallet][n].after >= 0
    BY <1>2 DEF ChargeInv, ChargesPaid
  <2>2. c.wallet \in Wallets
    BY DEF TypeInv, TypeOK, ChargeRow
  <2>3. n \in DOMAIN ledger'[c.wallet] /\ ledger'[c.wallet][n] = ledger[c.wallet][n]
    BY <2>1, <2>2 DEF LedgerKept, ChargeKinds
  <2> QED BY <2>1, <2>3
<1> QED BY <1>1, <1>2 DEF ChargeInv, ChargesPaid, Key

(* ShopService.create and renew keep it: a paid charge finds its key fresh. *)
LEMMA ChargePays ==
  ASSUME TypeInv, ChargeInv,
         NEW kind \in ChargeKinds, NEW a \in Accounts, NEW k \in ChargeKeys,
         NEW w \in Wallets, NEW price \in Prices, ChargeShop(kind, a, k, w, price)
  PROVE  ChargeInv'
<1> DEFINE original == IF a \in Admins THEN 0 ELSE price
           row == [account |-> a, key |-> k, kind |-> kind, wallet |-> w, charged |-> original]
           key == Key(kind, k)
<1>0. /\ charge' = charge \cup {row} /\ ~Charged(a, k) /\ original \in Nat
      /\ charge \subseteq ChargeRow
  BY BillingAssumption DEF ChargeShop, TypeInv, TypeOK
<1>1. \A c, d \in charge' : <<c.account, c.key>> = <<d.account, d.key>> => c = d
  <2>1. \A c \in charge : ~(c.account = a /\ c.key = k)
    BY <1>0 DEF Charged
  <2>2. row.account = a /\ row.key = k
    OBVIOUS
  <2>3. \A c, d \in charge : <<c.account, c.key>> = <<d.account, d.key>> => c = d
    BY DEF ChargeInv, ChargesPaid
  <2> HIDE DEF row
  <2> QED BY <1>0, <2>1, <2>2, <2>3
<1>2. CASE original = 0
  <2>1. ledger' = ledger
    <3>1. ~(original > 0)
      BY <1>2
    <3> QED BY <3>1 DEF ChargeShop
  <2>2. row.charged = 0
    BY <1>2
  <2> HIDE DEF row
  <2>3. ShopEntriesCharged'
    BY <1>0, <2>1 DEF ChargeInv, ShopEntriesCharged, ChargeKinds
  <2>4. \A c \in charge' : c.charged > 0 => c \in charge
    BY <1>0, <2>2
  <2>5. \A c \in charge' : c.charged > 0 =>
          \E n \in DOMAIN ledger'[c.wallet] :
            /\ ledger'[c.wallet][n].key = Key(c.kind, c.key)
            /\ ledger'[c.wallet][n].delta = -c.charged
            /\ ledger'[c.wallet][n].after >= 0
    BY <2>1, <2>4 DEF ChargeInv, ChargesPaid
  <2>6. \A c, d \in charge' :
          c.charged > 0 /\ d.charged > 0 /\ <<c.kind, c.key, c.wallet>> = <<d.kind, d.key, d.wallet>>
            => c = d
    BY <2>4 DEF ChargeInv, ChargesPaid
  <2> QED BY <1>1, <2>3, <2>5, <2>6 DEF ChargeInv, ChargesPaid, Key
<1>3. CASE original > 0
  <2>1. /\ wallet[w].balance >= original /\ LedgerEntryFree(kind, k, w)
        /\ AppendWalletEntry(w, key, -original, FALSE, FALSE)
    BY <1>3 DEF ChargeShop
  <2>2. \A c \in charge : c.kind = kind /\ c.key = k /\ c.wallet = w => ~(c.charged > 0)
    BY <2>1 DEF LedgerEntryFree
  <2>3. ~Posted(w, key)
    <3> SUFFICES ASSUME NEW n \in DOMAIN ledger[w], ledger[w][n].key = key PROVE FALSE
      BY DEF Posted
    <3>1. ledger[w][n].key.kind = kind /\ ledger[w][n].key.id = k
      BY DEF Key
    <3> QED BY <2>2, <3>1 DEF ChargeInv, ShopEntriesCharged
  <2> DEFINE entry == EntryOf(w, key, -original)
  <2>4. NewEntry(w, entry)
    BY <2>1, <2>3, AppendEffect
  <2>5. /\ entry.key = key /\ entry.delta = -original /\ entry.after >= 0
        /\ key.kind = kind /\ key.id = k
        /\ row.kind = kind /\ row.key = k /\ row.wallet = w /\ row.charged = original
    <3>1. wallet[w].balance \in Int
      BY DEF TypeInv, TypeOK, WalletRow
    <3> HIDE DEF original
    <3> QED BY <1>0, <2>1, <3>1 DEF EntryOf, Key
  <2>6. \A v \in Wallets : \A n \in DOMAIN ledger[v] : n \in DOMAIN ledger'[v] /\ ledger'[v][n] = ledger[v][n]
    <3> HIDE DEF entry
    <3> QED BY <2>4 DEF NewEntry
  <2>7. ShopEntriesCharged'
    <3> SUFFICES ASSUME NEW v \in Wallets, NEW n \in DOMAIN ledger'[v],
                        ledger'[v][n].key.kind \in ChargeKinds
                 PROVE  \E c \in charge' : /\ c.kind = ledger'[v][n].key.kind
                                           /\ c.key = ledger'[v][n].key.id
                                           /\ c.wallet = v /\ c.charged > 0
      BY DEF ShopEntriesCharged, ChargeKinds
    <3>1. (n \in DOMAIN ledger[v] /\ ledger'[v][n] = ledger[v][n]) \/ (v = w /\ ledger'[v][n] = entry)
      <4> HIDE DEF entry
      <4> QED BY <2>4 DEF NewEntry
    <3>2. CASE n \in DOMAIN ledger[v] /\ ledger'[v][n] = ledger[v][n]
      BY <1>0, <3>2 DEF ChargeInv, ShopEntriesCharged
    <3>3. CASE v = w /\ ledger'[v][n] = entry
      <4> HIDE DEF entry, row, key, original
      <4> QED BY <1>0, <1>3, <2>5, <3>3
    <3> QED BY <3>1, <3>2, <3>3
  <2>8. ASSUME NEW c \in charge', c.charged > 0
        PROVE  \E n \in DOMAIN ledger'[c.wallet] :
                 /\ ledger'[c.wallet][n].key = Key(c.kind, c.key)
                 /\ ledger'[c.wallet][n].delta = -c.charged
                 /\ ledger'[c.wallet][n].after >= 0
    <3>1. CASE c \in charge
      <4>1. PICK n \in DOMAIN ledger[c.wallet] :
               /\ ledger[c.wallet][n].key = Key(c.kind, c.key)
               /\ ledger[c.wallet][n].delta = -c.charged
               /\ ledger[c.wallet][n].after >= 0
        BY <2>8, <3>1 DEF ChargeInv, ChargesPaid
      <4>2. c.wallet \in Wallets
        BY <1>0, <3>1 DEF ChargeRow
      <4> QED BY <2>6, <4>1, <4>2
    <3>2. CASE c = row
      <4>1. PICK n \in DOMAIN ledger'[w] : ledger'[w][n] = entry
        <5> HIDE DEF entry
        <5> QED BY <2>4 DEF NewEntry
      <4>2. Key(c.kind, c.key) = key
        BY <2>5, <3>2
      <4> HIDE DEF entry, row, key, original
      <4> QED BY <2>5, <3>2, <4>1, <4>2
    <3> QED BY <1>0, <3>1, <3>2
  <2>9. \A c, d \in charge' :
          c.charged > 0 /\ d.charged > 0 /\ <<c.kind, c.key, c.wallet>> = <<d.kind, d.key, d.wallet>>
            => c = d
    <3>1. \A c, d \in charge :
            c.charged > 0 /\ d.charged > 0 /\ <<c.kind, c.key, c.wallet>> = <<d.kind, d.key, d.wallet>>
              => c = d
      BY DEF ChargeInv, ChargesPaid
    <3> HIDE DEF row, original
    <3> QED BY <1>0, <2>2, <2>5, <3>1
  <2> QED BY <1>1, <2>7, <2>8, <2>9 DEF ChargeInv, ChargesPaid, Key
<1> QED BY <1>0, <1>2, <1>3

(* Only ShopService writes a shop entry.                                    *)
LEMMA CallbackWritesNoCharge ==
  ASSUME TypeInv, NEW ev \in Callbacks, ApplyVerifiedEvent(ev), NEW kind \in ChargeKinds
  PROVE  LedgerKept(kind)
<1>1. kind # "payment-paid" /\ kind # "payment-reversal"
  BY DEF ChargeKinds
<1>2. CASE ApplyPayment(ev)
  BY <1>1, <1>2, PaymentWrites
<1>3. CASE ApplyReversal(ev)
  BY <1>1, <1>3, ReversalWrites
<1>4. CASE MarkEventDuplicate(ev) \/ UnmatchedEvent(ev) \/ ConflictingEvent(ev) \/ EventContentMismatch(ev)
  BY <1>4, UnchangedKeeps
     DEF MarkEventDuplicate, UnmatchedEvent, ConflictingEvent, EventContentMismatch, RequireReconciliation
<1> QED BY <1>2, <1>3, <1>4 DEF ApplyVerifiedEvent

(* Every step keeps ChargeInv.                                              *)
LEMMA ChargeStep ==
  ASSUME TypeInv, ChargeInv, [Next]_vars
  PROVE  ChargeInv'
<1>1. CASE UNCHANGED vars
  BY <1>1, UnchangedKeeps, ChargeFrame DEF vars
<1>2. ASSUME NEW o \in Orders, OrderStep(o) PROVE ChargeInv'
  BY <1>2, UnchangedKeeps, ChargeFrame DEF OrderStep, CreateOrder, MarkOrderPending
<1>3. ASSUME NEW ev \in Callbacks, DeliverCallback(ev) PROVE ChargeInv'
  BY <1>3, CallbackWritesNoCharge, ChargeFrame DEF DeliverCallback
<1>4. ASSUME NEW kind \in ChargeKinds, NEW a \in Accounts, NEW k \in ChargeKeys,
             NEW w \in Wallets, NEW price \in Prices, ChargeShop(kind, a, k, w, price)
      PROVE  ChargeInv'
  BY <1>4, ChargePays
<1>5. ASSUME NEW w \in Wallets, NEW k \in AdjustKeys, NEW delta \in Adjustments,
             AdjustWallet(w, k, delta)
      PROVE  ChargeInv'
  <2>1. charge' = charge /\ \A kind \in ChargeKinds : LedgerKept(kind)
    BY <1>5, AdjustWrites DEF AdjustWallet, ChargeKinds
  <2> QED BY <2>1, ChargeFrame
<1> QED BY <1>1, <1>2, <1>3, <1>4, <1>5 DEF Next

(* Every charged shop was paid for by a ledger entry of its own that the    *)
(* balance covered, and no account and key is charged twice.                *)
THEOREM ChargesPaidHolds == Spec => []ChargesPaid
<1>1. Init => ChargeInv
  <2> SUFFICES ASSUME Init PROVE ChargeInv
    OBVIOUS
  <2>1. charge = {}
    BY DEF Init
  <2>2. ASSUME NEW w \in Wallets PROVE DOMAIN ledger[w] = {}
    <3>1. ledger[w] = <<>> /\ DOMAIN <<>> = {}
      BY DEF Init, WalletInit
    <3> QED BY <3>1
  <2> QED BY <2>1, <2>2 DEF ChargeInv, ChargesPaid, ShopEntriesCharged
<1>2. TypeInv /\ ChargeInv /\ [Next]_vars => ChargeInv'
  BY ChargeStep
<1>3. ChargeInv => ChargesPaid
  BY DEF ChargeInv
<1> QED BY <1>1, <1>2, <1>3, TypeCorrect, PTL DEF Spec

-----------------------------------------------------------------------------
(* The refinement.  balances and books are what AccountBook's variables     *)
(* stand for.                                                               *)
balances == [w \in Wallets |-> wallet[w].balance]
books    == [w \in Wallets |-> Entries(w)]

(* Why the book allows a posting.                                           *)
Covered(w, key, delta) ==
  \/ delta > 0
  \/ key.kind = "payment-reversal"
  \/ key.kind \in ChargeKinds /\ wallet[w].balance + delta >= 0
  \/ key.kind \notin ChargeKinds /\ wallet[w].balance >= 0

(* An entry under a fresh key, covered or taken back by a provider, is a    *)
(* posting of the account book.                                             *)
LEMMA PostingRefines ==
  ASSUME TypeInv, NEW w \in Wallets, NEW key \in BusinessKey, NEW delta \in Int, delta # 0,
         NEW resolve, NEW allow,
         ~Posted(w, key), PostEntry(w, key, delta, resolve, allow), Covered(w, key, delta)
  PROVE  Book!Next
<1> DEFINE posted == [key |-> key, delta |-> delta]
<1>0. wallet \in [Wallets -> WalletRow] /\ ledger \in [Wallets -> Seq(LedgerRow)]
  BY DEF TypeInv, TypeOK
<1>1. NewEntry(w, EntryOf(w, key, delta))
  <2>1. AppendWalletEntry(w, key, delta, resolve, allow)
    BY DEF AppendWalletEntry
  <2> QED BY <2>1, AppendEffect
<1>2. \A v \in Wallets \ {w} : Entries(v)' = Entries(v)
  BY <1>1 DEF NewEntry, Entries
<1>3. Entries(w)' = Entries(w) \cup {posted}
  <2> DEFINE entry == EntryOf(w, key, delta)
  <2>1. entry.key = key /\ entry.delta = delta
    BY DEF EntryOf
  <2> HIDE DEF entry
  <2>2. ASSUME NEW n \in DOMAIN ledger[w]
        PROVE  [key |-> ledger[w][n].key, delta |-> ledger[w][n].delta] \in Entries(w)'
    BY <1>1, <2>2 DEF NewEntry, Entries, entry
  <2>3. posted \in Entries(w)'
    <3>1. PICK n \in DOMAIN ledger'[w] : ledger'[w][n] = entry
      BY <1>1 DEF NewEntry, entry
    <3> QED BY <2>1, <3>1 DEF Entries
  <2>4. ASSUME NEW n \in DOMAIN ledger'[w]
        PROVE  [key |-> ledger'[w][n].key, delta |-> ledger'[w][n].delta] \in Entries(w) \cup {posted}
    <3>1. CASE n \in DOMAIN ledger[w]
      <4>1. ledger'[w][n] = ledger[w][n]
        BY <1>1, <3>1 DEF NewEntry
      <4> QED BY <3>1, <4>1 DEF Entries
    <3>2. CASE ledger'[w][n] = entry
      BY <2>1, <3>2
    <3> QED BY <1>1, <2>4, <3>1, <3>2 DEF NewEntry, entry
  <2>5. Entries(w) \subseteq Entries(w)'
    BY <2>2 DEF Entries
  <2>6. Entries(w)' \subseteq Entries(w) \cup {posted}
    BY <2>4 DEF Entries
  <2> QED BY <2>3, <2>5, <2>6
<1>4. books' = [books EXCEPT ![w] = @ \cup {posted}]
  <2>1. books' = [v \in Wallets |-> Entries(v)']
    BY DEF books
  <2> QED BY <1>2, <1>3, <2>1 DEF books
<1>5. balances' = [balances EXCEPT ![w] = @ + delta]
  <2>1. \A v \in Wallets : wallet'[v].balance = IF v = w THEN wallet[v].balance + delta
                                                          ELSE wallet[v].balance
    BY <1>0 DEF PostEntry
  <2>2. balances' = [v \in Wallets |-> wallet'[v].balance]
    BY DEF balances
  <2> QED BY <2>1, <2>2 DEF balances
<1>6. \A entry \in books[w] : entry.key # posted.key
  BY DEF Posted, books, Entries
<1>7. posted.key = key /\ posted.delta = delta /\ balances[w] = wallet[w].balance
  BY DEF balances
<1>8. /\ key \in PurchaseKeys <=> key.kind \in ChargeKinds
      /\ key \in ReversalKeys <=> key.kind = "payment-reversal"
  BY DEF PurchaseKeys, ReversalKeys
<1>9. Book!Post(w, posted)
  <2> HIDE DEF posted
  <2> QED BY <1>4, <1>5, <1>6, <1>7, <1>8 DEF Book!Post, Book!Allowed, Covered, balances, books
<1>10. posted \in books'[w]
  BY <1>3 DEF books
<1> HIDE DEF posted
<1> QED BY <1>9, <1>10 DEF Book!Next, books

(* A step that moves neither balance nor ledger is a stutter of the book.   *)
LEMMA StutterRefines ==
  ASSUME ledger' = ledger, \A w \in Wallets : wallet'[w].balance = wallet[w].balance
  PROVE  UNCHANGED <<balances, books>>
BY DEF balances, books, Entries

(* Restricting a wallet is a stutter of the book.                           *)
LEMMA RestrictRefines ==
  ASSUME TypeInv, NEW w \in Wallets, RestrictWallet(w), ledger' = ledger
  PROVE  UNCHANGED <<balances, books>>
<1>1. \A v \in Wallets : wallet'[v].balance = wallet[v].balance
  BY DEF RestrictWallet, TypeInv, TypeOK, WalletRow
<1> QED BY <1>1, StutterRefines

(* appendWalletEntry, for a covered amount, is a posting or a stutter.      *)
LEMMA AppendRefines ==
  ASSUME TypeInv, NEW w \in Wallets, NEW key \in BusinessKey, NEW delta \in Int,
         NEW resolve, NEW allow, AppendWalletEntry(w, key, delta, resolve, allow),
         Covered(w, key, delta)
  PROVE  Book!Next \/ UNCHANGED <<balances, books>>
<1>1. CASE Posted(w, key)
  BY <1>1, StutterRefines DEF AppendWalletEntry
<1>2. CASE ~Posted(w, key)
  BY <1>2, PostingRefines DEF AppendWalletEntry
<1> QED BY <1>1, <1>2

(* An active wallet owes nothing.                                           *)
LEMMA ActiveOwesNothing ==
  ASSUME TypeInv, LedgerSound, NEW w \in Wallets, wallet[w].status = "ACTIVE"
  PROVE  wallet[w].balance >= 0
<1>1. wallet[w].balance \in Int
  BY DEF TypeInv, TypeOK, WalletRow
<1> QED BY <1>1 DEF LedgerSound, DebtIffNegative

(* Every step of billing is a step of the account book or leaves it alone.  *)
LEMMA BookStep ==
  ASSUME TypeInv, LedgerSound, [Next]_vars
  PROVE  Book!Next \/ UNCHANGED <<balances, books>>
<1> DEFINE Goal == Book!Next \/ UNCHANGED <<balances, books>>
<1>1. CASE UNCHANGED vars
  BY <1>1, StutterRefines DEF vars
<1>2. ASSUME NEW o \in Orders, OrderStep(o) PROVE Goal
  BY <1>2, StutterRefines DEF OrderStep, CreateOrder, MarkOrderPending
<1>3. ASSUME NEW ev \in Callbacks, ApplyVerifiedEvent(ev) PROVE Goal
  <2> DEFINE w == WalletOf[ev.order]
  <2>0. w \in Wallets /\ ev.order \in Orders /\ order[ev.order].credit \in Nat
    BY Fields
  <2>1. CASE ApplyPayment(ev)
    <3>1. AppendWalletEntry(w, Key("payment-paid", ev.order), order[ev.order].credit, FALSE, FALSE)
      BY <2>1 DEF ApplyPayment
    <3>2. Key("payment-paid", ev.order) \in BusinessKey
      BY Fields, PaymentsAssumption DEF Key, BusinessKey, KeyKinds
    <3>3. order[ev.order].credit > 0
      BY <2>0, <3>1 DEF AppendWalletEntry
    <3>4. Covered(w, Key("payment-paid", ev.order), order[ev.order].credit)
      BY <3>3 DEF Covered
    <3>5. order[ev.order].credit \in Int
      BY <2>0
    <3> HIDE DEF w
    <3> QED BY <2>0, <3>1, <3>2, <3>4, <3>5, AppendRefines
  <2>2. CASE ApplyReversal(ev)
    <3> DEFINE delta == ReversedCredit(ev) - PreviousReversal(ev.order).credit
    <3>1. Key("payment-reversal", ev.id) \in BusinessKey /\ Key("payment-reversal", ev.id).kind = "payment-reversal"
      BY Fields, PaymentsAssumption DEF Key, BusinessKey, KeyKinds
    <3>2. delta \in Int
      BY <2>2, ReversalAmounts DEF ApplyReversal
    <3>3. CASE delta > 0
      <4>1. AppendWalletEntry(w, Key("payment-reversal", ev.id), -delta, FALSE, TRUE)
        BY <2>2, <3>3 DEF ApplyReversal
      <4>2. -delta \in Int /\ Covered(w, Key("payment-reversal", ev.id), -delta)
        BY <3>1, <3>2 DEF Covered
      <4> HIDE DEF delta, w
      <4> QED BY <2>0, <3>1, <4>1, <4>2, AppendRefines
    <3>4. CASE ~(delta > 0)
      BY <2>2, <3>4, StutterRefines DEF ApplyReversal
    <3> QED BY <3>3, <3>4
  <2>3. CASE MarkEventDuplicate(ev) \/ UnmatchedEvent(ev)
    BY <2>3, StutterRefines DEF MarkEventDuplicate, UnmatchedEvent
  <2>4. CASE ConflictingEvent(ev)
    BY <2>0, <2>4, RestrictRefines DEF ConflictingEvent, RequireReconciliation
  <2>5. CASE EventContentMismatch(ev)
    <3>1. CASE inbox[ev.id].order = NoOrder
      BY <2>5, <3>1, StutterRefines DEF EventContentMismatch
    <3>2. CASE inbox[ev.id].order # NoOrder
      <4>1. inbox[ev.id].order \in Orders
        BY <2>5, <3>2 DEF EventContentMismatch, Recorded, TypeInv, TypeOK, InboxRow
      <4>2. WalletOf[inbox[ev.id].order] \in Wallets
        BY <4>1, PaymentsAssumption
      <4> QED BY <2>5, <3>2, <4>2, RestrictRefines DEF EventContentMismatch, RequireReconciliation
    <3> QED BY <3>1, <3>2
  <2> QED BY <1>3, <2>1, <2>2, <2>3, <2>4, <2>5 DEF ApplyVerifiedEvent
<1>4. ASSUME NEW kind \in ChargeKinds, NEW a \in Accounts, NEW k \in ChargeKeys,
             NEW w \in Wallets, NEW price \in Prices, ChargeShop(kind, a, k, w, price)
      PROVE  Goal
  <2> DEFINE original == IF a \in Admins THEN 0 ELSE price
  <2>1. original \in Nat /\ -original \in Int
    BY BillingAssumption
  <2>2. Key(kind, k) \in BusinessKey /\ Key(kind, k).kind = kind
    BY BillingAssumption DEF Key, BusinessKey, KeyKinds, ChargeKinds
  <2>3. CASE original > 0
    <3>1. AppendWalletEntry(w, Key(kind, k), -original, FALSE, FALSE) /\ wallet[w].balance >= original
      BY <1>4, <2>3 DEF ChargeShop
    <3>2. wallet[w].balance \in Int
      BY DEF TypeInv, TypeOK, WalletRow
    <3> HIDE DEF original
    <3>3. wallet[w].balance + (-original) >= 0
      BY <2>1, <3>1, <3>2
    <3>4. Covered(w, Key(kind, k), -original)
      BY <2>2, <3>3 DEF Covered
    <3> QED BY <2>1, <2>2, <3>1, <3>4, AppendRefines
  <2>4. CASE ~(original > 0)
    BY <1>4, <2>4, StutterRefines DEF ChargeShop
  <2> QED BY <2>3, <2>4
<1>5. ASSUME NEW w \in Wallets, NEW k \in AdjustKeys, NEW delta \in Adjustments,
             AdjustWallet(w, k, delta)
      PROVE  Goal
  <2> DEFINE key == Key("admin-adjustment", k)
  <2>1. key \in BusinessKey /\ delta \in Int /\ key.kind \notin ChargeKinds
    BY BillingAssumption DEF Key, BusinessKey, KeyKinds, ChargeKinds
  <2>2. ~Posted(w, key) /\ AppendWalletEntry(w, key, delta, TRUE, FALSE)
    BY <1>5 DEF AdjustWallet, AdjustEnterprise
  <2>3. DebitAllowed(w, delta, FALSE) /\ delta # 0
    BY <2>2 DEF AppendWalletEntry, PostEntry
  <2>4. delta > 0 \/ wallet[w].balance >= 0
    BY <2>1, <2>3, ActiveOwesNothing DEF DebitAllowed
  <2>5. Covered(w, key, delta)
    BY <2>1, <2>4 DEF Covered
  <2> HIDE DEF key
  <2> QED BY <2>1, <2>2, <2>5, AppendRefines
<1> QED BY <1>1, <1>2, <1>3, <1>4, <1>5 DEF Next, DeliverCallback

(* Billing implements the account book: whatever customers, administrators  *)
(* and payment providers do, in whatever order and however often, balances   *)
(* are moved by postings under fresh business keys, and an account is        *)
(* overdrawn by reversals only.                                             *)
THEOREM BillingImplementsAccountBook == Spec => ImplementsAccountBook
<1>1. Init => Book!Init
  <2> SUFFICES ASSUME Init PROVE Book!Init
    OBVIOUS
  <2>1. \A w \in Wallets : wallet[w].balance = 0
    BY DEF Init, WalletInit
  <2>2. ASSUME NEW w \in Wallets PROVE Entries(w) = {}
    <3>1. ledger[w] = <<>> /\ DOMAIN <<>> = {}
      BY DEF Init, WalletInit
    <3> QED BY <3>1 DEF Entries
  <2> QED BY <2>1, <2>2 DEF Book!Init
<1>2. TypeInv /\ LedgerSound /\ [Next]_vars
        => [Book!Next]_<<[w \in Wallets |-> wallet[w].balance], [w \in Wallets |-> Entries(w)]>>
  BY BookStep DEF balances, books
<1> QED BY <1>1, <1>2, TypeCorrect, LedgerCorrect, PTL DEF Spec, ImplementsAccountBook, Book!Spec

=============================================================================
