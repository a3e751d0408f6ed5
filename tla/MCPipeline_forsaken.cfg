CONSTANTS
  b1 = b1
  b2 = b2
  k1 = k1
  s1 = s1
  s2 = s2
  Batches = {b1}
  Keys = {k1}
  Slots = {s1}
  SystemKey = SystemKey
  NoRun = NoRun
  MaxRates = 0
  Scenarios <- Attrition

SPECIFICATION Spec
SYMMETRY Interchangeable

INVARIANT NeverStranded

CHECK_DEADLOCK FALSE
