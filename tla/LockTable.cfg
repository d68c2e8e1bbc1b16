SPECIFICATION FairSpec
CONSTANTS
  p1 = p1
  p2 = p2
  p3 = p3
  p4 = p4
  Procs = {p1, p2, p3, p4}
  l1 = l1
  l2 = l2
  Locks = {l1, l2}
  NULL = NULL
  LockGroupLeader <- OnePair
  ListOrders <- OneOrder
  Modes = {"Share", "Exclusive"}
  Workloads <- ThreeOrGroup
  Cancels = {p3}
  Releasers = {p3}
CHECK_DEADLOCK FALSE
INVARIANT NoConflict
INVARIANT VerdictIsRight
INVARIANT DeadlockIsNoticed
PROPERTY WaitEnds
