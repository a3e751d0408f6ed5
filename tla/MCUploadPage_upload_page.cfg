CONSTANTS
  Paths = {p1, p2}
  RefreshLimit = 2
  MaxBatches = 2
  MaxTasks = 2
  Viewers <- All

SPECIFICATION FlowSpec

INVARIANT PageGoesOn
INVARIANT ArchivedWereListed
SYMMETRY Symmetry

CHECK_DEADLOCK FALSE
