------------------------------- MODULE Wallet -------------------------------
(***************************************************************************)
(* The enterprise wallet (wallet/service.ts) and its append-only ledger.   *)
(* A step is one database transaction: appendWalletEntry holds the wallet  *)
(* row FOR UPDATE from its first read to the commit, so two entries of one *)
(* wallet never interleave.  A thrown AppError rolls the whole transaction *)
(* back: it is an action that is not enabled.                              *)
(* The row's version counter is read by nobody and is left out.            *)
(***************************************************************************)
EXTENDS Integers, Sequences

CONSTANTS Wallets,      \* rows of wallet_account
          LedgerIds     \* what a business key can name: orders, event ids, idempotency keys

VARIABLES wallet,       \* [Wallets -> balance and status]
          ledger        \* [Wallets -> entries in the order they were written]

WalletStatus == {"ACTIVE", "RESTRICTED_DEBT", "RESTRICTED_RECONCILIATION"}

(* wallet_ledger.business_key: a prefix and the thing it is derived from.  *)
KeyKinds == {"payment-paid", "payment-reversal", "admin-adjustment", "shop-create", "shop-renew"}
BusinessKey == [kind : KeyKinds, id : LedgerIds]
Key(kind, id) == [kind |-> kind, id |-> id]

WalletRow == [balance : Int, status : WalletStatus]
LedgerRow == [key : BusinessKey, delta : Int, after : Int]

WalletInit ==
  /\ wallet = [w \in Wallets |-> [balance |-> 0, status |-> "ACTIVE"]]
  /\ ledger = [w \in Wallets |-> <<>>]

Posted(w, key) == \E i \in DOMAIN ledger[w] : ledger[w][i].key = key

\* Mutated form: the reconciliation restriction is looked at first.
StatusReconciliationFirst(current, nextBalance, resolveReconciliation) ==
  IF current = "RESTRICTED_RECONCILIATION" /\ ~resolveReconciliation
  THEN "RESTRICTED_RECONCILIATION"
  ELSE IF nextBalance < 0 THEN "RESTRICTED_DEBT" ELSE "ACTIVE"
NextStatus(current, nextBalance, resolveReconciliation) ==
  IF nextBalance < 0 THEN "RESTRICTED_DEBT"
  ELSE IF current = "RESTRICTED_RECONCILIATION" /\ ~resolveReconciliation
       THEN "RESTRICTED_RECONCILIATION"
       ELSE "ACTIVE"

(* Money leaves an active wallet only, except where a provider takes it     *)
(* back.                                                                    *)
\* Mutated form: restrictions are not looked at.
DebitUnrestricted(w, delta, allowRestrictedDebit) == TRUE
DebitAllowed(w, delta, allowRestrictedDebit) ==
  delta < 0 => wallet[w].status = "ACTIVE" \/ allowRestrictedDebit

(* An entry that is not there yet: the balance moves, the row is written.  *)
PostEntry(w, key, delta, resolveReconciliation, allowRestrictedDebit) ==
  LET nextBalance == wallet[w].balance + delta
  IN  /\ DebitAllowed(w, delta, allowRestrictedDebit)
      /\ wallet' = [wallet EXCEPT ![w] =
                      [balance |-> nextBalance,
                       status  |-> NextStatus(wallet[w].status, nextBalance, resolveReconciliation)]]
      /\ ledger' = [ledger EXCEPT ![w] =
                      Append(@, [key |-> key, delta |-> delta, after |-> nextBalance])]

(* appendWalletEntry: zero is refused, a key already posted changes        *)
(* nothing and reports a duplicate.                                        *)
AppendWalletEntry(w, key, delta, resolveReconciliation, allowRestrictedDebit) ==
  /\ delta # 0
  /\ IF Posted(w, key)
     THEN UNCHANGED <<wallet, ledger>>
     ELSE PostEntry(w, key, delta, resolveReconciliation, allowRestrictedDebit)

(* adjustEnterprise: an administrator's entry, the only caller that lifts a *)
(* reconciliation restriction.  The reason it must carry is text.           *)
AdjustEnterprise(w, idempotencyKey, delta) ==
  AppendWalletEntry(w, Key("admin-adjustment", idempotencyKey), delta, TRUE, FALSE)

(* The wallet half of requireReconciliation (payments/postgres.ts).        *)
RestrictWallet(w) ==
  wallet' = [wallet EXCEPT ![w].status =
               IF wallet[w].balance < 0
               THEN "RESTRICTED_DEBT" ELSE "RESTRICTED_RECONCILIATION"]

=============================================================================
