CONSTANTS
  customer = customer
  clerk = clerk
  s1 = s1
  s2 = s2
  Requests = {"q1"}
  Keys = {"k1"}
  Params = {"p1"}
  MaxExports = 1
  Slots = {s1, s2}
  Scenarios <- All

SPECIFICATION FairSpec

INVARIANT LiveExportsEntitled
INVARIANT FilesSound
PROPERTY ExportSettles

CHECK_DEADLOCK FALSE
