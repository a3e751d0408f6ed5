------------------------------ MODULE Billing ------------------------------
(***************************************************************************)
(* Everything that moves an enterprise wallet, put together: top-ups and   *)
(* their reversals (Payments), administrator adjustments (Wallet) and the  *)
(* charges of creating and renewing a shop (shops/service.ts).  Of a shop  *)
(* only its shop_charge row matters here.                                  *)
(***************************************************************************)
EXTENDS Payments

CONSTANTS Accounts,      \* accounts that create and renew shops
          Admins,        \* those that do it free of charge
          ChargeKeys,    \* idempotency keys of shop requests
          AdjustKeys,    \* idempotency keys of administrator adjustments
          Prices,        \* annual price times billed years, of one request
          Adjustments    \* amounts an administrator may post

VARIABLE charge          \* shop_charge rows

ChargeKinds == {"shop-create", "shop-renew"}
ChargeRow   == [account : Accounts, key : ChargeKeys, kind : ChargeKinds,
                wallet : Wallets, charged : Nat]

ASSUME BillingAssumption ==
  /\ Admins \subseteq Accounts
  /\ ChargeKeys \cup AdjustKeys \subseteq LedgerIds
  /\ Prices \subseteq Nat
  /\ Adjustments \subseteq Int

vars == <<wallet, ledger, order, inbox, reversal, charge>>

Init ==
  /\ WalletInit
  /\ PaymentsInit
  /\ charge = {}

-----------------------------------------------------------------------------
(* The row a request already answered under this account and key.          *)
Charged(a, k) == \E c \in charge : c.account = a /\ c.key = k

(* shop_charge.wallet_ledger_id is UNIQUE: a second charge cannot claim the *)
(* ledger entry of a first one, which appendWalletEntry hands out when two  *)
(* members of one enterprise use the same idempotency key.                  *)
\* Mutated form: without the UNIQUE constraint.
LedgerEntryShared(kind, k, w) == TRUE
LedgerEntryFree(kind, k, w) ==
  \A c \in charge : c.kind = kind /\ c.key = k /\ c.wallet = w => c.charged = 0

(* ShopService.create and ShopService.renew, as far as the wallet goes: an  *)
(* administrator and a zero price pay nothing, everyone else needs an       *)
(* active wallet that covers the price.                                     *)
ChargeShop(kind, a, k, w, price) ==
  LET original == IF a \in Admins THEN 0 ELSE price
  IN  /\ ~Charged(a, k)
      /\ IF original > 0
         THEN /\ wallet[w].status = "ACTIVE"
              /\ wallet[w].balance >= original
              /\ AppendWalletEntry(w, Key(kind, k), -original, FALSE, FALSE)
              /\ LedgerEntryFree(kind, k, w)
         ELSE UNCHANGED <<wallet, ledger>>
      /\ charge' = charge \cup {[account |-> a, key |-> k, kind |-> kind,
                                 wallet |-> w, charged |-> original]}
      /\ UNCHANGED paymentVars

(* WalletService.adjustEnterprise; a repeated key changes nothing.          *)
AdjustWallet(w, k, delta) ==
  /\ ~Posted(w, Key("admin-adjustment", k))
  /\ AdjustEnterprise(w, k, delta)
  /\ UNCHANGED <<order, inbox, reversal, charge>>

OrderStep(o) ==
  /\ (\E credit \in Credits : CreateOrder(o, credit)) \/ MarkOrderPending(o)
  /\ UNCHANGED charge

DeliverCallback(ev) == ApplyVerifiedEvent(ev) /\ UNCHANGED charge

Next ==
  \/ \E o \in Orders : OrderStep(o)
  \/ \E ev \in Callbacks : DeliverCallback(ev)
  \/ \E kind \in ChargeKinds, a \in Accounts, k \in ChargeKeys, w \in Wallets, price \in Prices :
       ChargeShop(kind, a, k, w, price)
  \/ \E w \in Wallets, k \in AdjustKeys, delta \in Adjustments : AdjustWallet(w, k, delta)

Spec == Init /\ [][Next]_vars

-----------------------------------------------------------------------------
(* Type invariant of the whole of billing.                                  *)
TypeOK ==
  /\ wallet \in [Wallets -> WalletRow]
  /\ ledger \in [Wallets -> Seq(LedgerRow)]
  /\ order \in [Orders -> OrderRow]
  /\ DOMAIN inbox \subseteq EventIds
  /\ \A e \in DOMAIN inbox : inbox[e] \in InboxRow
  /\ reversal \in [Orders -> Seq(ReversalRow)]
  /\ charge \subseteq ChargeRow

(* The balance a ledger leaves after its first n entries.                   *)
BalanceAfter(entries, n) == IF n = 0 THEN 0 ELSE entries[n].after

(* Ledger and wallet tell the same story: every entry's balance_after_cents *)
(* is its predecessor's plus its own delta, the wallet holds the last one,  *)
(* and no business key is posted twice, whatever was retried or replayed.   *)
LedgerConsistent ==
  \A w \in Wallets :
    /\ \A i \in DOMAIN ledger[w] :
         ledger[w][i].after = BalanceAfter(ledger[w], i - 1) + ledger[w][i].delta
    /\ wallet[w].balance = BalanceAfter(ledger[w], Len(ledger[w]))
    /\ \A i, j \in DOMAIN ledger[w] : ledger[w][i].key = ledger[w][j].key => i = j

(* The CHECK of wallet_account never fails: a wallet owes money exactly     *)
(* when it is RESTRICTED_DEBT, whichever operation moved it last.           *)
DebtIffNegative ==
  \A w \in Wallets : wallet[w].balance < 0 <=> wallet[w].status = "RESTRICTED_DEBT"

(* Balance, status and ledger of every wallet agree, whatever callbacks,   *)
(* charges and adjustments meet there.                                     *)
LedgerSound == LedgerConsistent /\ DebtIffNegative

(* An order is credited, once and in full, in its own wallet, exactly when *)
(* it carries a provider transaction, and one transaction pays for one     *)
(* order; only such an order is settled or under reconciliation            *)
(* (applyPayment, requireReconciliation).                                  *)
CreditedOnce ==
  \A o \in Orders :
    /\ order[o].txn # NoTxn <=> order[o].status \in Settled \cup {"RECONCILIATION_REQUIRED"}
    /\ \A w \in Wallets :
         Posted(w, Key("payment-paid", o)) <=> (w = WalletOf[o] /\ order[o].txn # NoTxn)
    /\ \A i \in DOMAIN ledger[WalletOf[o]] :
         ledger[WalletOf[o]][i].key = Key("payment-paid", o)
           => ledger[WalletOf[o]][i].delta = order[o].credit
    /\ order[o].txn # NoTxn => \A p \in Orders \ {o} : order[p].txn # order[o].txn

(* The credit taken back before the n-th reversal of an order.              *)
CreditReversed(rows, n) == IF n = 0 THEN 0 ELSE rows[n].credit
PayableReversed(rows, n) == IF n = 0 THEN 0 ELSE rows[n].payable

(* Reversals of an order only ever grow, each debits exactly what the       *)
(* previous ones left out, together they never take back more than was      *)
(* credited, and everything is taken back once everything was returned.     *)
ReversalsWithinCredit ==
  \A o \in Orders : \A i \in DOMAIN reversal[o] :
    LET row == reversal[o][i]
    IN  /\ PayableReversed(reversal[o], i - 1) < row.payable
        /\ row.delta = CreditReversed(reversal[o], i - 1) - row.credit
        /\ row.delta <= 0
        /\ row.credit <= order[o].credit
        /\ row.payable <= order[o].payable
        /\ row.payable = order[o].payable => row.credit = order[o].credit

(* Reversal rows and the ledger agree: the wallet of the order holds an     *)
(* entry of exactly the row's delta under the row's event, and no reversal  *)
(* entry is without its row.                                                *)
ReversalsDebited ==
  /\ \A o \in Orders : \A i \in DOMAIN reversal[o] :
       \E n \in DOMAIN ledger[WalletOf[o]] :
         /\ ledger[WalletOf[o]][n].key = Key("payment-reversal", reversal[o][i].event)
         /\ ledger[WalletOf[o]][n].delta = reversal[o][i].delta
  /\ \A w \in Wallets : \A n \in DOMAIN ledger[w] :
       ledger[w][n].key.kind = "payment-reversal" =>
         \E o \in Orders : /\ WalletOf[o] = w
                           /\ \E i \in DOMAIN reversal[o] :
                                reversal[o][i].event = ledger[w][n].key.id

(* Refunds and chargebacks, late, repeated and out of order, take back     *)
(* what was returned: in the rows of the order and in the wallet.          *)
ReversalsExact == ReversalsWithinCredit /\ ReversalsDebited

(* Every charged shop was paid for by a ledger entry of its own that was    *)
(* covered by the balance: two members of an enterprise that reuse one      *)
(* idempotency key never get two shops for one debit.                       *)
ChargesPaid ==
  /\ \A c \in charge : c.charged > 0 =>
       \E n \in DOMAIN ledger[c.wallet] :
         /\ ledger[c.wallet][n].key = Key(c.kind, c.key)
         /\ ledger[c.wallet][n].delta = -c.charged
         /\ ledger[c.wallet][n].after >= 0
  /\ \A c, d \in charge :
       c.charged > 0 /\ d.charged > 0 /\ <<c.kind, c.key, c.wallet>> = <<d.kind, d.key, d.wallet>>
         => c = d
  /\ \A c, d \in charge : <<c.account, c.key>> = <<d.account, d.key>> => c = d

(* Billing implements the account book: every transaction of every actor    *)
(* is one posting under a fresh business key, or none.                      *)
Entries(w) == {[key |-> ledger[w][n].key, delta |-> ledger[w][n].delta] : n \in DOMAIN ledger[w]}
PurchaseKeys == {key \in BusinessKey : key.kind \in ChargeKinds}
ReversalKeys == {key \in BusinessKey : key.kind = "payment-reversal"}

Book == INSTANCE AccountBook WITH
          Accounts  <- Wallets,
          Keys      <- BusinessKey,
          Purchases <- PurchaseKeys,
          Reversals <- ReversalKeys,
          balance   <- [w \in Wallets |-> wallet[w].balance],
          book      <- [w \in Wallets |-> Entries(w)]

ImplementsAccountBook == Book!Spec

=============================================================================
