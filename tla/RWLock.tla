------------------------------- MODULE RWLock -------------------------------
(***************************************************************************)
(* What a lightweight lock promises its callers (lwlock.c, file header):   *)
(* any number of processes hold it in shared mode, or one process holds it *)
(* in exclusive mode.  Who waits for whom, and how, is not part of it.     *)
(***************************************************************************)
CONSTANTS Procs, NoMode

VARIABLE held      \* the mode in which each process holds the lock

Init == held = [p \in Procs |-> NoMode]

AcquireShared(p) ==
  /\ held[p] = NoMode
  /\ \A q \in Procs : held[q] # "EXCLUSIVE"
  /\ held' = [held EXCEPT ![p] = "SHARED"]

AcquireExclusive(p) ==
  /\ \A q \in Procs : held[q] = NoMode
  /\ held' = [held EXCEPT ![p] = "EXCLUSIVE"]

Release(p) ==
  /\ held[p] # NoMode
  /\ held' = [held EXCEPT ![p] = NoMode]

Next == \E p \in Procs : AcquireShared(p) \/ AcquireExclusive(p) \/ Release(p)

Spec == Init /\ [][Next]_held
=============================================================================
