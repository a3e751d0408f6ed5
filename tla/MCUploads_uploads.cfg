CONSTANTS
  b1 = b1
  b2 = b2
  f1 = f1
  f2 = f2
  f3 = f3
  q1 = q1
  q2 = q2
  s1 = s1
  s2 = s2
  NoFile = NoFile
  Slots = {s1, s2}
  Scenarios <- All

SPECIFICATION Spec

INVARIANT ChunksExact
INVARIANT UsageExact
INVARIANT FilesSound
INVARIANT AnalysisNotForgotten
PROPERTY PreflightSound

CHECK_DEADLOCK FALSE
