---------------------------- MODULE AccountBook ----------------------------
(***************************************************************************)
(* What billing promises the owner of a wallet, without orders, events,     *)
(* inboxes or idempotency: a book per wallet in which a business key is     *)
(* posted at most once, a balance that is moved by nothing else, and three  *)
(* reasons for lowering it.                                                 *)
(***************************************************************************)
EXTENDS Integers

CONSTANTS Accounts, Keys, Purchases, Reversals

VARIABLES balance,   \* [Accounts -> Int]
          book       \* [Accounts -> set of posted entries]

Init ==
  /\ balance = [a \in Accounts |-> 0]
  /\ book = [a \in Accounts |-> {}]

(* A purchase is covered by the balance, an administrator's debit is posted *)
(* only to an account that owes nothing, a reversal may always be posted.   *)
Allowed(a, key, delta) ==
  \/ delta > 0
  \/ key \in Reversals
  \/ key \in Purchases /\ balance[a] + delta >= 0
  \/ key \notin Purchases /\ balance[a] >= 0

Post(a, entry) ==
  /\ entry.key \in Keys /\ \A posted \in book[a] : posted.key # entry.key
  /\ entry.delta # 0 /\ Allowed(a, entry.key, entry.delta)
  /\ balance' = [balance EXCEPT ![a] = @ + entry.delta]
  /\ book' = [book EXCEPT ![a] = @ \cup {entry}]

Next == \E a \in Accounts : \E entry \in book'[a] : Post(a, entry)

Spec == Init /\ [][Next]_<<balance, book>>

=============================================================================
