----------------------------- MODULE LockTable -----------------------------
(***************************************************************************)
(* The shared table of heavyweight locks: lock.c and the waiting in        *)
(* proc.c.  A step is what is done under the partition lock of one lock    *)
(* (all partition locks for the deadlock check).  The requested and        *)
(* granted counts and the wait mask follow from who holds and who waits.   *)
(* Fast-path locks, relation extension and page locks are left out.        *)
(***************************************************************************)
EXTENDS DeadLock

CONSTANTS Modes,           \* the lock modes asked for
          Workloads,       \* how many locks each transaction asks for, 0 if there is none
          Cancels,         \* those whose wait may be cancelled
          Releasers,       \* those who may release a lock before they end
          ListOrders       \* in which order PROCLOCKs and members may be listed

VARIABLES
  held,        \* PROCLOCK.holdMask
  queue,       \* LOCK.waitProcs
  want,        \* PGPROC.waitLock and waitLockMode
  waitStatus,  \* PGPROC.waitStatus
  pc,          \* "run", in ProcSleep ("wait"), in LockReleaseAll ("end"), "done"
  timer,       \* DEADLOCK_TIMEOUT is still to come, in this wait
  requests     \* how many locks the transaction has still to ask for

vars == <<held, queue, want, waitStatus, pc, timer, requests>>

ASSUME TableAssumption ==
  /\ Modes \subseteq ToSet(AllModes)
  /\ Workloads \subseteq [Procs -> Nat]
  /\ ListOrders \subseteq SetToSeqs(Procs)
  /\ Cancels \union Releasers \subseteq Procs
  /\ LockGroupLeader \in [Procs -> Procs]
  /\ \A p \in Procs : LockGroupLeader[LockGroupLeader[p]] = LockGroupLeader[p]

Config(order) == [held |-> held, queue |-> queue, want |-> want, order |-> order]

HeldByGroup(h, p) == UNION {h[q] : q \in Group(p)}
HeldByOthers(h, p) == UNION {h[q] : q \in Procs \ Group(p)}
waitMask(l) == {want[p].mode : p \in ToSet(queue[l])}

(* LockCheckConflicts: what the requester's own group holds does not count. *)
LockCheckConflictsMutant(mode, h, p) == Conflict(mode, HeldByOthers(h, p) \ h[p])
LockCheckConflicts(mode, h, p) == Conflict(mode, HeldByOthers(h, p))
-----------------------------------------------------------------------------
(* ProcLockWakeup: one pass over the queue q of a lock held as h.  Grants  *)
(* to whom neither a holder nor a waiter still ahead stands in the way.    *)
ProcLockWakeup(h, q) ==
  FoldLeft(LAMBDA w, p :
             IF ~Conflict(want[p].mode, w.ahead) /\ ~LockCheckConflicts(want[p].mode, w.held, p)
             THEN [w EXCEPT !.held[p] = @ \union {want[p].mode}]
             ELSE [w EXCEPT !.queue = Append(@, p), !.ahead = @ \union {want[p].mode}],
           [held |-> h, queue |-> <<>>, ahead |-> {}], q)

(* ProcWakeup: those no longer in the queue have the lock.                 *)
Woken(before, after) == ToSet(before) \ ToSet(after)

(* The locks ls get holders h[l] and queues q[l], after a wake-up; lost    *)
(* are those taken off the queues without the lock.                        *)
Wake(ls, h, q, lost) ==
  \E w \in {[l \in ls |-> ProcLockWakeup(h[l], q[l])]} :
     LET granted == UNION {Woken(q[l], w[l].queue) : l \in ls}
     IN /\ held' = [l \in Locks |-> IF l \in ls THEN w[l].held ELSE held[l]]
        /\ queue' = [l \in Locks |-> IF l \in ls THEN w[l].queue ELSE queue[l]]
        /\ want' = [p \in Procs |-> IF p \in granted \union lost THEN NULL ELSE want[p]]
        /\ waitStatus' = [p \in Procs |-> IF p \in lost THEN "ERROR"
                                          ELSE IF p \in granted THEN "OK" ELSE waitStatus[p]]

WakeOne(l, h, q, lost) == Wake({l}, l :> h, l :> q, lost)

(* RemoveFromWaitQueue and its CleanUpLock: those behind p may go ahead.   *)
RemoveFromWaitQueue(p) ==
  LET l == want[p].lock
  IN WakeOne(l, held[l], SelectSeq(queue[l], LAMBDA q : q # p), {p})
-----------------------------------------------------------------------------
Grant(p, l, mode) ==
  /\ held' = [held EXCEPT ![l][p] = @ \union {mode}]
  /\ UNCHANGED <<queue, want, waitStatus, pc, timer>>

(* Where ProcSleep finds a waiter that must wait for p: p goes before it.  *)
MustWaitForMe(p, l) ==
  {i \in DOMAIN queue[l] : /\ queue[l][i] \notin Group(p)
                           /\ Conflict(want[queue[l][i]].mode, HeldByGroup(held[l], p))}

(* ProcSleep, up to the release of the partition lock.                     *)
ProcSleepAt(p, l, mode, i) ==
  /\ queue' = [queue EXCEPT ![l] = InsertAt(@, i, p)]
  /\ want' = [want EXCEPT ![p] = [lock |-> l, mode |-> mode]]
  /\ waitStatus' = [waitStatus EXCEPT ![p] = "WAITING"]
  /\ timer' = [timer EXCEPT ![p] = TRUE]
  /\ pc' = [pc EXCEPT ![p] = "wait"]
  /\ UNCHANGED held

EarlyDeadLock(p, l) ==
  /\ WakeOne(l, held[l], queue[l], {p})
  /\ pc' = [pc EXCEPT ![p] = "end"]
  /\ UNCHANGED timer

ProcSleep(p, l, mode) ==
  LET first == Min(MustWaitForMe(p, l))
      ahead == {want[queue[l][i]].mode :
                  i \in {j \in 1..first - 1 : queue[l][j] \notin Group(p)}}
  IN IF MustWaitForMe(p, l) = {} THEN ProcSleepAt(p, l, mode, Len(queue[l]) + 1)
     ELSE IF Conflict(mode, held[l][queue[l][first]]) THEN EarlyDeadLock(p, l)
     ELSE IF ~Conflict(mode, ahead) /\ ~LockCheckConflicts(mode, held[l], p)
     THEN Grant(p, l, mode)
     ELSE ProcSleepAt(p, l, mode, first)

(* LockAcquireExtended, for a lock the process does not hold in this mode. *)
(* (A request that is not to wait changes nothing when it fails.)          *)
LockAcquire(p, l, mode) ==
  /\ pc[p] = "run"
  /\ requests[p] > 0
  /\ mode \notin held[l][p]
  /\ requests' = [requests EXCEPT ![p] = @ - 1]
  /\ IF Conflict(mode, waitMask(l)) \/ LockCheckConflicts(mode, held[l], p)
     THEN ProcSleep(p, l, mode)
     ELSE Grant(p, l, mode)

(* ProcSleep sees that it was woken, with the lock or because it gave up.  *)
ProcSleepReturns(p) ==
  /\ pc[p] = "wait"
  /\ waitStatus[p] # "WAITING"
  /\ pc' = [pc EXCEPT ![p] = IF waitStatus[p] = "OK" THEN "run" ELSE "end"]
  /\ UNCHANGED <<held, queue, want, waitStatus, timer, requests>>

(* CheckDeadLock, when the timeout comes during the wait.                  *)
CheckDeadLock(p) ==
  /\ pc[p] = "wait"
  /\ timer[p]
  /\ timer' = [timer EXCEPT ![p] = FALSE]
  /\ IF want[p] = NULL THEN UNCHANGED <<held, queue, want, waitStatus>>
     ELSE \E d \in {DeadLockCheck(Config(order), p) : order \in ListOrders} :
            IF d.state = "DS_HARD_DEADLOCK" THEN RemoveFromWaitQueue(p)
            ELSE Wake(DOMAIN d.orders, held, d.orders, {})
  /\ UNCHANGED <<pc, requests>>

(* A cancel or a lock timeout ends the wait: LockErrorCleanup.             *)
LockErrorCleanup(p) ==
  /\ p \in Cancels
  /\ pc[p] = "wait"
  /\ IF want[p] = NULL THEN UNCHANGED <<held, queue, want, waitStatus>>
     ELSE RemoveFromWaitQueue(p)
  /\ pc' = [pc EXCEPT ![p] = "end"]
  /\ timer' = [timer EXCEPT ![p] = FALSE]
  /\ UNCHANGED requests

(* UnGrantLock and CleanUpLock: a wake-up only if a waiter may want what   *)
(* was released.                                                           *)
WakeupNeededMutant(l, modes) == modes \intersect waitMask(l) # {}
WakeupNeeded(l, modes) == \E mode \in modes : Conflict(mode, waitMask(l))

Release(p, l, modes) ==
  LET h == [held[l] EXCEPT ![p] = @ \ modes] IN
  /\ IF WakeupNeeded(l, modes) THEN WakeOne(l, h, queue[l], {})
     ELSE /\ held' = [held EXCEPT ![l] = h]
          /\ UNCHANGED <<queue, want, waitStatus>>
  /\ UNCHANGED <<timer, requests>>

(* LockRelease of one mode within the transaction.                         *)
LockRelease(p, l, mode) ==
  /\ p \in Releasers
  /\ pc[p] = "run"
  /\ mode \in held[l][p]
  /\ Release(p, l, {mode})
  /\ UNCHANGED pc

EndTransaction(p) ==
  /\ pc[p] = "run"
  /\ pc' = [pc EXCEPT ![p] = "end"]
  /\ UNCHANGED <<held, queue, want, waitStatus, timer, requests>>

(* LockReleaseAll, one partition at a time.                                *)
LockReleaseAll(p) ==
  /\ pc[p] = "end"
  /\ \E l \in Locks : held[l][p] # {} /\ Release(p, l, held[l][p])
  /\ UNCHANGED pc

Finish(p) ==
  /\ pc[p] = "end"
  /\ \A l \in Locks : held[l][p] = {}
  /\ pc' = [pc EXCEPT ![p] = "done"]
  /\ UNCHANGED <<held, queue, want, waitStatus, timer, requests>>

Init ==
  /\ held = [l \in Locks |-> [p \in Procs |-> {}]]
  /\ queue = [l \in Locks |-> <<>>]
  /\ want = [p \in Procs |-> NULL]
  /\ waitStatus = [p \in Procs |-> "OK"]
  /\ requests \in Workloads
  /\ pc = [p \in Procs |-> IF requests[p] = 0 THEN "done" ELSE "run"]
  /\ timer = [p \in Procs |-> FALSE]

Step(p) ==
  \/ \E l \in Locks, mode \in Modes : LockAcquire(p, l, mode) \/ LockRelease(p, l, mode)
  \/ ProcSleepReturns(p)
  \/ CheckDeadLock(p)
  \/ LockErrorCleanup(p)
  \/ EndTransaction(p)
  \/ LockReleaseAll(p)
  \/ Finish(p)

Done == \A p \in Procs : pc[p] = "done"
Next == (\E p \in Procs : Step(p)) \/ (Done /\ UNCHANGED vars)

Spec == Init /\ [][Next]_vars

(* The timeout comes and is handled, a woken process goes on, and a        *)
(* transaction that does not wait comes to its end.                        *)
HandleTimeout(p) ==
  /\ pc[p] = "wait"
  /\ timer[p]
  /\ timer' = [timer EXCEPT ![p] = FALSE]

Fairness ==
  \A p \in Procs :
    /\ WF_timer(HandleTimeout(p))
    /\ WF_vars(ProcSleepReturns(p) \/ EndTransaction(p) \/ LockReleaseAll(p) \/ Finish(p))

FairSpec == Spec /\ Fairness
-----------------------------------------------------------------------------
(* Whatever the order of requests, wake-ups, cancellations and turned      *)
(* queues, no two processes of different groups hold conflicting modes.    *)
NoConflict ==
  \A l \in Locks, p \in Procs : \A q \in Procs \ Group(p) :
    \A mode \in held[l][p] : ~Conflict(mode, held[l][q])

-----------------------------------------------------------------------------
(* What the detector should find, by definition: the waits-for graph of    *)
(* the groups, with given queues, and whether p's group is on a cycle.     *)
WaitsFor(queues, p) ==
  IF want[p] = NULL THEN {}
  ELSE LET l == want[p].lock
           at == Max({i \in DOMAIN queues[l] : queues[l][i] \in Group(p)})
       IN {q \in Procs \ Group(p) :
             \/ Conflict(want[p].mode, held[l][q])
             \/ \E i \in 1..at - 1 : queues[l][i] = q /\ Conflict(want[p].mode, {want[q].mode})}

GroupWaitsFor(queues, ps) ==
  UNION {WaitsFor(queues, q) : q \in UNION {Group(p) : p \in ps}}

Reach(queues, ps) ==
  LET From[from \in SUBSET Procs] ==
        LET more == from \union GroupWaitsFor(queues, from) IN
        IF more = from THEN from ELSE From[more]
  IN From[ps]

OnCycle(queues, p) == Reach(queues, GroupWaitsFor(queues, {p})) \intersect Group(p) # {}

AllQueues == [Locks -> UNION {SetToSeqs(ToSet(queue[l])) : l \in Locks}]
Rearranged == {qs \in AllQueues : \A l \in Locks : ToSet(qs[l]) = ToSet(queue[l])}

Deadlocked(queues, ps) == {p \in ps : OnCycle(queues, p)}

(* The verdict is right in every configuration the lock table can get      *)
(* into: "no deadlock" only if the process is on no cycle; a change of the *)
(* queues only if it is on one, and then it is on none, and nobody is who  *)
(* was not before; and the process is rolled back only if every order of   *)
(* the queues would leave it, or somebody it waits for, on a cycle.        *)
VerdictIsRight ==
  \A p \in Procs : want[p] # NULL =>
    \A d \in {DeadLockCheck(Config(order), p) : order \in ListOrders} :
    LET new == d.orders @@ queue
    IN CASE d.state = "DS_NO_DEADLOCK"   -> ~OnCycle(queue, p)
         [] d.state = "DS_SOFT_DEADLOCK" ->
              /\ OnCycle(queue, p)
              /\ ~OnCycle(new, p)
              /\ Deadlocked(new, Procs) \subseteq Deadlocked(queue, Procs)
         [] OTHER -> /\ OnCycle(queue, p)
                     /\ \A qs \in Rearranged : Deadlocked(qs, Reach(queue, {p})) # {}

(* No deadlock is missed, though each process looks only once in a wait:   *)
(* of those on a cycle with p, somebody has still to look.                 *)
DeadlockIsNoticed ==
  \A p \in Procs : OnCycle(queue, p) =>
    \E q \in Reach(queue, {p}) :
      /\ Reach(queue, {q}) \intersect Group(p) # {}
      /\ \E r \in Group(q) : want[r] # NULL /\ timer[r]

(* Every wait for a lock ends: by the lock, or because the process is the  *)
(* victim of a deadlock.                                                   *)
WaitEnds == \A p \in Procs : pc[p] = "wait" ~> pc[p] # "wait"
=============================================================================
