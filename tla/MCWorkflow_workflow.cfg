CONSTANTS
  s1 = s1
  s2 = s2
  Visits <- All

SPECIFICATION ShellSpec

INVARIANT StepsTrue
PROPERTY PageCatchesUp

CHECK_DEADLOCK FALSE
