SPECIFICATION Spec

INVARIANT SessionsCurrent
INVARIANT LoginsOnce
INVARIANT PhonesMove
INVARIANT MembersRemain
INVARIANT LimitsSound
CONSTANTS
  p1 = p1
  p2 = p2
  p3 = p3
  e1 = e1
  e2 = e2
  shop = shop
  none = none
  r1 = r1
  r2 = r2
  r3 = r3
  r4 = r4
  Requests = {r1, r2, r3, r4}
  KeyOf <- KeysOfRequests
  Limits <- SmallLimits
  Scenarios <- All

CHECK_DEADLOCK FALSE
