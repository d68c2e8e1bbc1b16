SPECIFICATION FpSpec
CONSTANTS
  p1 = p1
  p2 = p2
  d1 = d1
  l1 = l1
  l2 = l2
  Procs = {p1, p2, d1}
  Locks = {l1, l2}
  NULL = NULL
  allProcs <- Two
  DummyProc <- FirstPrepares
  LockGroupLeader <- Alone
  ListOrders <- OneOrder
  HashPartition <- OnePartition
  FP_LOCK_SLOTS_PER_BACKEND = 1
  Modes = {"AccessShare", "RowExclusive", "Share", "AccessExclusive"}
  Workloads <- TwoTwo
  Wants <- BothWays
  Scans <- SecondScans
  Cancels = {p2}
  Releasers = {p1}
  Catches = {p2}
  Errors = {"memory", "prepare"}
INVARIANT WeakExcludesStrong
INVARIANT InOnePlace
INVARIANT ConflictsAreFound
