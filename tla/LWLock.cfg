SPECIFICATION Spec
CONSTANTS
  v1 = v1
  v2 = v2
  p1 = p1
  p2 = p2
  p3 = p3
  Procs = {p1, p2, p3}
  NoMode = NoMode
  LW_VAL_EXCLUSIVE = 4
  Calls = {"LWLockAcquire", "LWLockAcquireOrWait", "LWLockConditionalAcquire", "LWLockWaitForVar", "LWLockUpdateVar", "LWLockReleaseClearVar"}
  MaxCalls = 1
  MaxStray = 1
  Values = {v1, v2}
SYMMETRY Symmetry
CHECK_DEADLOCK FALSE
INVARIANT WaiterInOnePlace
INVARIANT NoLostWakeup
INVARIANT PostsGivenBack
PROPERTY ImplementsRWLock
