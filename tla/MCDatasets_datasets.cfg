CONSTANTS
  Objects <- MCObjects
  Kind <- MCKind
  Rows <- MCRows
  Sites = {"US", "CA"}
  Months = {1, 2}
  Scenarios <- All

SPECIFICATION FairSpec

INVARIANT RowsExact
INVARIANT ReplayNeverOverwritesNewer
INVARIANT AcknowledgementsEarned
PROPERTY CommitsEnd

CHECK_DEADLOCK FALSE
