CONSTANTS
  alice = alice
  bob = bob
  Admins = {root}
  Keys = {k1, k2}
  Names = {n1, n2}
  Reasons = {r1}
  Starts <- LeapStart
  Price = 1
  Scenarios <- All

SPECIFICATION FairSpec

INVARIANT YearsPaid
INVARIANT ReplaysAccepted
PROPERTY CreatesEnd

CHECK_DEADLOCK FALSE
