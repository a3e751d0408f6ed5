------------------------------- MODULE Money -------------------------------
(***************************************************************************)
(* The integer arithmetic of wallet/money.ts: amounts are whole cents held *)
(* in bigint, so nothing overflows and nothing is rounded except by        *)
(* roundHalfUp.  parseCnyToCents and formatCents are text conversions at   *)
(* the API boundary and are left out.                                      *)
(***************************************************************************)
EXTENDS Integers

(* Half-up division, symmetric around zero; the code throws when the       *)
(* denominator is not positive, so callers must establish that it is.      *)
RoundHalfUp(numerator, denominator) ==
  LET absolute  == IF numerator < 0 THEN -numerator ELSE numerator
      quotient  == absolute \div denominator
      remainder == absolute % denominator
      magnitude == quotient + (IF remainder * 2 >= denominator THEN 1 ELSE 0)
  IN  IF numerator < 0 THEN -magnitude ELSE magnitude

(* The only quote the service hands out today: what is paid is what is     *)
(* credited.  Older orders with a discount are still in the table.         *)
QuoteTopUp(credit) == [credit |-> credit, payable |-> credit]

(* cumulativeCreditReversal throws outside this range.                     *)
ReversalAmountValid(payable, cumulative) ==
  payable > 0 /\ cumulative > 0 /\ cumulative <= payable

(* The credit that must have been taken back once `cumulative` of what was *)
(* paid has been returned; exact when everything has been returned.        *)
CumulativeCreditReversal(credit, payable, cumulative) ==
  IF cumulative = payable THEN credit ELSE RoundHalfUp(credit * cumulative, payable)

=============================================================================
