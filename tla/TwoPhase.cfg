SPECIFICATION Spec
CONSTANTS
  b1 = b1
  b2 = b2
  Backends = {b1, b2}
  Gids = {g1}
  NULL = NULL
  max_prepared_xacts = 2
  MaxXid = 2
  MaxCheckpoints = 2
  MaxCrashes = 2
  MaxWork = 4
SYMMETRY Symmetry
CHECK_DEADLOCK FALSE
INVARIANT PreparedIsKept
INVARIANT CommittedStays
