----------------------------- MODULE OtpLimits ------------------------------
(***************************************************************************)
(* createOtpChallengeAfterRateCheck (auth/postgres.ts): how often a code   *)
(* may be asked for, per phone, address and device.  A request takes the   *)
(* advisory locks of its device, its address and its phone, in that order  *)
(* (the keys are sorted and the prefixes decide), counts the challenges of *)
(* the last hour and inserts its own.                                      *)
(***************************************************************************)
EXTENDS Naturals, FiniteSets

CONSTANTS Requests,     \* requests clients send, all at the same time if they like
          KeyOf,        \* KeyOf[r][dimension]: the phone, address or device of a request
          Limits        \* Limits[dimension]: challenges allowed in the window

Dimensions == {"device", "ip", "phone"}

ASSUME LimitsAssumption ==
  /\ Limits \in [Dimensions -> Nat \ {0}]
  /\ DOMAIN KeyOf = Requests /\ \A r \in Requests : DOMAIN KeyOf[r] = Dimensions

VARIABLES step,         \* how far the transaction of a request is
          counted,      \* whether the counts it read allow it
          recent        \* requests whose challenge is in the window

limitVars == <<step, counted, recent>>

(* Mutated form: the keys are taken in the order they come in.             *)
LockOrderUnsorted(r) ==
  IF KeyOf[r]["ip"] = KeyOf[CHOOSE x \in Requests : TRUE]["ip"]
  THEN <<"device", "ip", "phone">> ELSE <<"phone", "ip", "device">>

LockOrder(r) == <<"device", "ip", "phone">>

Held(r) == {d \in Dimensions : \E i \in 1 .. 3 : LockOrder(r)[i] = d /\ i < step[r] /\ step[r] <= 5}

Free(r, d) == \A x \in Requests \ {r} : d \in Held(x) => KeyOf[x][d] # KeyOf[r][d]

Locks(r) ==
  /\ step[r] \in 1 .. 3
  /\ Free(r, LockOrder(r)[step[r]])
  /\ step' = [step EXCEPT ![r] = @ + 1]
  /\ UNCHANGED <<counted, recent>>

Sharing(r, d) == {x \in recent : KeyOf[x][d] = KeyOf[r][d]}

Counts(r) ==
  /\ step[r] = 4
  /\ counted' = [counted EXCEPT ![r] = \A d \in Dimensions : Cardinality(Sharing(r, d)) < Limits[d]]
  /\ step' = [step EXCEPT ![r] = 5]
  /\ UNCHANGED recent

(* Inserts or fails with OtpRateLimitError; either way the locks go.       *)
Ends(r) ==
  /\ step[r] = 5
  /\ recent' = IF counted[r] THEN recent \cup {r} ELSE recent
  /\ step' = [step EXCEPT ![r] = 6]
  /\ UNCHANGED counted

(* An hour has passed.                                                     *)
LeavesWindow(r) ==
  /\ r \in recent
  /\ recent' = recent \ {r}
  /\ UNCHANGED <<step, counted>>

LimitsInit(sent) ==
  /\ step = [r \in Requests |-> IF r \in sent THEN 1 ELSE 6]
  /\ counted = [r \in Requests |-> FALSE] /\ recent = {}

LimitStep == \E r \in Requests : Locks(r) \/ Counts(r) \/ Ends(r) \/ LeavesWindow(r)

-----------------------------------------------------------------------------
LimitsTypeOK == step \in [Requests -> 1 .. 6] /\ counted \in [Requests -> BOOLEAN] /\ recent \subseteq Requests

(* No phone, address or device gets more codes in an hour than its limit,  *)
(* however many requests arrive at once: each count is read under the lock *)
(* of what it counts.                                                      *)
LimitsKept == \A r \in Requests, d \in Dimensions : Cardinality(Sharing(r, d)) <= Limits[d]

(* Requests never wait for each other in a circle: while one is under way *)
(* some request can go on, since each takes its three locks in the same    *)
(* order.                                                                  *)
NoWaitingCircle ==
  (\E r \in Requests : step[r] < 6) =>
    \E r \in Requests : step[r] \in {4, 5} \/ (step[r] < 4 /\ Free(r, LockOrder(r)[step[r]]))

(* The limits hold and taking their locks never ends in a deadlock.        *)
LimitsSound == LimitsKept /\ NoWaitingCircle

=============================================================================
