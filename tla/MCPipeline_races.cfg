CONSTANTS
  b1 = b1
  b2 = b2
  k1 = k1
  s1 = s1
  s2 = s2
  Batches = {b1, b2}
  Keys = {k1}
  Slots = {s1, s2}
  SystemKey = SystemKey
  NoRun = NoRun
  MaxRates = 1
  Scenarios <- Races

SPECIFICATION FairSpec

INVARIANT ResultsBacked
INVARIANT WorkNeverForgotten
PROPERTY NewWorkNotFailed
PROPERTY CurrentMovesForward
PROPERTY WorkSettles

CHECK_DEADLOCK FALSE
