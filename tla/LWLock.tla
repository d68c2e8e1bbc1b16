------------------------------- MODULE LWLock -------------------------------
(***************************************************************************)
(* The lightweight lock of storage/lmgr/lwlock.c: one LWLock, the          *)
(* processes that use it and their semaphores.  A step is at most one      *)
(* atomic access to lock->state, together with accesses to data that the   *)
(* wait-list lock protects or that are private to the process.             *)
(*                                                                         *)
(* lock->state is a uint32; its low bits are lockcount and its three flag  *)
(* bits are the set flags.                                                 *)
(***************************************************************************)
EXTENDS Naturals, Sequences, FiniteSets, Functions

CONSTANTS Procs,              \* processes with a PGPROC
          NoMode,             \* the lock is not held by the process
          LW_VAL_EXCLUSIVE,   \* what an exclusive holder adds to lockcount
          Calls,              \* the entry points the callers use
          MaxCalls,           \* bound: calls of one process (and one update)
          MaxStray,           \* bound: unrelated posts, all of one semaphore
          Values              \* values of the variable the lock protects

(* lwlock.c:107: the mask "Must be greater than MAX_BACKENDS".             *)
ASSUME LockAssumption ==
  /\ IsFiniteSet(Procs)
  /\ LW_VAL_EXCLUSIVE \in Nat
  /\ Cardinality(Procs) < LW_VAL_EXCLUSIVE
  /\ NoMode \notin {"SHARED", "EXCLUSIVE"}

VARIABLES lockcount,    \* state & LW_LOCK_MASK
          flags,        \* state & (HAS_WAITERS | RELEASE_OK | LOCKED)
          waiters,      \* lock->waiters
          var,          \* *valptr of LWLockWaitForVar and LWLockUpdateVar
          lwWaiting, lwWaitMode, sem,    \* of each PGPROC
          held,         \* held_lwlocks of each process, for this lock
          pc, call, mode, val, extraWaits, wakeup,   \* locals and arguments of the call
          calls, stray  \* calls made; posts by other users of the semaphore

shared == <<lockcount, flags, waiters, var>>
procs  == <<lwWaiting, lwWaitMode, sem>>
locals == <<call, mode, val, extraWaits, wakeup, calls>>
vars   == <<shared, procs, held, pc, locals, stray>>

Init ==
  /\ lockcount = 0 /\ flags = {"RELEASE_OK"} /\ waiters = <<>>
  /\ var \in Values
  /\ lwWaiting = [p \in Procs |-> FALSE]
  /\ lwWaitMode = [p \in Procs |-> "SHARED"]
  /\ sem = [p \in Procs |-> 0]
  /\ held = [p \in Procs |-> NoMode]
  /\ pc = [p \in Procs |-> "idle"]
  /\ call = [p \in Procs |-> "none"]
  /\ mode = [p \in Procs |-> "SHARED"]
  /\ val = [p \in Procs |-> var]
  /\ extraWaits = [p \in Procs |-> 0]
  /\ wakeup = [p \in Procs |-> <<>>]
  /\ calls = [p \in Procs |-> 0]
  /\ stray = [p \in Procs |-> 0]

Go(p, from, to) == pc[p] = from /\ pc' = [pc EXCEPT ![p] = to]
-----------------------------------------------------------------------------
(* The atomic word.                                                        *)
(* LWLockInitialize sets RELEASE_OK; the exclusive bit is the one above    *)
(* every count of shared holders.                                          *)
ExclusiveBit == lockcount >= LW_VAL_EXCLUSIVE

(* A bug that would let shared lockers in past an exclusive holder.        *)
LockFreeMutant(m) == IF m = "EXCLUSIVE" THEN lockcount = 0 ELSE TRUE

LockFree(m) == IF m = "EXCLUSIVE" THEN lockcount = 0 ELSE ~ExclusiveBit

LockVal(m) == IF m = "EXCLUSIVE" THEN LW_VAL_EXCLUSIVE ELSE 1

(* The compare-and-exchange loop ends with the value it last saw, so the   *)
(* whole of LWLockAttemptLock is one access.                               *)
LWLockAttemptLock(p, from, got, wait) ==
  \/ /\ LockFree(mode[p])
     /\ Go(p, from, got)
     /\ lockcount' = lockcount + LockVal(mode[p])
     /\ held' = [held EXCEPT ![p] = mode[p]]
     /\ UNCHANGED <<flags, waiters, var>>
  \/ /\ ~LockFree(mode[p])
     /\ Go(p, from, wait)
     /\ UNCHANGED <<shared, held>>

LWLockWaitListLock(p, from, to) ==
  /\ Go(p, from, to)
  /\ "LOCKED" \notin flags
  /\ flags' = flags \union {"LOCKED"}
  /\ UNCHANGED <<lockcount, waiters, var, procs, held, locals, stray>>

LWLockWaitListUnlock(p, from, to) ==
  /\ Go(p, from, to)
  /\ flags' = flags \ {"LOCKED"}
  /\ UNCHANGED <<lockcount, waiters, var, procs, held, locals, stray>>

(* A bug that would forget to let the next release wake waiters again.     *)
SetReleaseOkMutant(p, from, to) ==
  /\ Go(p, from, to)
  /\ UNCHANGED <<shared, procs, held, locals, stray>>

SetReleaseOk(p, from, to) ==
  /\ Go(p, from, to)
  /\ flags' = flags \union {"RELEASE_OK"}
  /\ UNCHANGED <<lockcount, waiters, var, procs, held, locals, stray>>
-----------------------------------------------------------------------------
(* The wait queue.                                                         *)

(* LW_WAIT_UNTIL_FREE waiters go to the front of the queue.                *)
WaitMode(p) ==
  IF call[p] = "LWLockAcquire" THEN mode[p] ELSE "WAIT_UNTIL_FREE"

Enqueued(p) ==
  IF WaitMode(p) = "WAIT_UNTIL_FREE" THEN <<p>> \o waiters ELSE Append(waiters, p)

LWLockQueueSelf(p) ==
  \/ LWLockWaitListLock(p, "queueLock", "queueAdd")
  \/ /\ Go(p, "queueAdd", "queueUnlock")
     /\ flags' = flags \union {"HAS_WAITERS"}
     /\ lwWaiting' = [lwWaiting EXCEPT ![p] = TRUE]
     /\ lwWaitMode' = [lwWaitMode EXCEPT ![p] = WaitMode(p)]
     /\ waiters' = Enqueued(p)
     /\ UNCHANGED <<lockcount, var, sem, held, locals, stray>>
  \/ LWLockWaitListUnlock(p, "queueUnlock",
       IF call[p] = "LWLockWaitForVar" THEN "setReleaseOk" ELSE "reattempt")

Without(s, S) == SelectSeq(s, LAMBDA q : q \notin S)

(* A bug that would believe any post of the semaphore.                     *)
PGSemaphoreLockMutant(p, from, to) ==
  /\ Go(p, from, to)
  /\ sem[p] > 0
  /\ sem' = [sem EXCEPT ![p] = @ - 1]
  /\ UNCHANGED <<shared, lwWaiting, lwWaitMode, held, locals, stray>>

(* A process waits on its semaphore until lwWaiting is reset; posts that   *)
(* were meant for another purpose are counted, to be given back later.     *)
PGSemaphoreLock(p, from, to) ==
  /\ pc[p] = from
  /\ sem[p] > 0
  /\ sem' = [sem EXCEPT ![p] = @ - 1]
  /\ \/ /\ ~lwWaiting[p]
        /\ pc' = [pc EXCEPT ![p] = to]
        /\ UNCHANGED extraWaits
     \/ /\ lwWaiting[p]
        /\ extraWaits' = [extraWaits EXCEPT ![p] = @ + 1]
        /\ UNCHANGED pc
  /\ UNCHANGED <<shared, lwWaiting, lwWaitMode, held, call, mode, val, wakeup,
                 calls, stray>>

(* The two counters of absorbed posts, of LWLockDequeueSelf and of its     *)
(* caller, are one here: both are given back before the call returns.      *)
LWLockDequeueSelf(p) ==
  \/ LWLockWaitListLock(p, "dequeueLock", "dequeueSelf")
  \/ /\ Go(p, "dequeueSelf",
           IF p \in Range(waiters) THEN "dequeueFound" ELSE "dequeueMissing")
     /\ waiters' = Without(waiters, {p})
     /\ flags' = IF waiters' = <<>> THEN flags \ {"HAS_WAITERS"} ELSE flags
     /\ UNCHANGED <<lockcount, var, procs, held, locals, stray>>
  \/ /\ Go(p, "dequeueFound", "finish")
     /\ flags' = flags \ {"LOCKED"}
     /\ lwWaiting' = [lwWaiting EXCEPT ![p] = FALSE]
     /\ UNCHANGED <<lockcount, waiters, var, lwWaitMode, sem, held, locals,
                    stray>>
  \/ LWLockWaitListUnlock(p, "dequeueMissing", "dequeueReleaseOk")
  \/ SetReleaseOk(p, "dequeueReleaseOk", "absorb")
  \/ PGSemaphoreLock(p, "absorb", "finish")
-----------------------------------------------------------------------------
(* Waking waiters up.                                                      *)

(* Positions of the waiters that will retry, not just wait for the lock to *)
(* be free.                                                                *)
Retryers == {i \in DOMAIN waiters : lwWaitMode[waiters[i]] # "WAIT_UNTIL_FREE"}

(* The loop of LWLockWakeup: everybody before the first retryer, the first *)
(* retryer, and if that one wants the lock shared, every later waiter that *)
(* does not want it exclusively.                                           *)
Awakened ==
  {waiters[i] : i \in
     {j \in DOMAIN waiters : \A f \in Retryers :
        (\A g \in Retryers : f <= g) =>
          \/ j <= f
          \/ /\ lwWaitMode[waiters[f]] # "EXCLUSIVE"
             /\ lwWaitMode[waiters[j]] # "EXCLUSIVE"}}

(* No more wakeups until a woken retryer has run; HAS_WAITERS stays set    *)
(* unless there was nobody to wake; the wait list is unlocked.             *)
FlagsAfterWakeup ==
  (IF Retryers = {} THEN {"RELEASE_OK"} ELSE {})
    \union (IF waiters = <<>> THEN {} ELSE flags \intersect {"HAS_WAITERS"})

LWLockWakeup(p) ==
  \/ LWLockWaitListLock(p, "wakeLock", "wakeTake")
  \/ /\ Go(p, "wakeTake", IF waiters = <<>> THEN "idle" ELSE "wakeFlag")
     /\ wakeup' = [wakeup EXCEPT ![p] = Without(waiters, Procs \ Awakened)]
     /\ waiters' = Without(waiters, Awakened)
     /\ flags' = FlagsAfterWakeup
     /\ UNCHANGED <<lockcount, var, procs, held, call, mode, val, extraWaits,
                    calls, stray>>

(* The loop over the private list: reset lwWaiting, then post, for each.   *)
AwakenFirst(p) ==
  \/ /\ Go(p, "wakeFlag", "wakePost")
     /\ lwWaiting' = [lwWaiting EXCEPT ![Head(wakeup[p])] = FALSE]
     /\ UNCHANGED <<shared, lwWaitMode, sem, held, locals, stray>>
  \/ /\ Go(p, "wakePost", IF Len(wakeup[p]) = 1 THEN "idle" ELSE "wakeFlag")
     /\ sem' = [sem EXCEPT ![Head(wakeup[p])] = @ + 1]
     /\ wakeup' = [wakeup EXCEPT ![p] = Tail(@)]
     /\ UNCHANGED <<shared, lwWaiting, lwWaitMode, held, call, mode, val,
                    extraWaits, calls, stray>>
-----------------------------------------------------------------------------
(* Entry points that may wait.                                             *)

(* A call begins: the caller does not hold the lock already.               *)
Begin(p, f, m, v, first) ==
  /\ f \in Calls
  /\ held[p] = NoMode
  /\ calls[p] < MaxCalls
  /\ Go(p, "idle", first)
  /\ call' = [call EXCEPT ![p] = f]
  /\ mode' = [mode EXCEPT ![p] = m]
  /\ val' = [val EXCEPT ![p] = v]
  /\ calls' = [calls EXCEPT ![p] = @ + 1]
  /\ UNCHANGED <<shared, procs, held, extraWaits, wakeup, stray>>

(* A bug that would keep the absorbed posts.                               *)
FinishMutant(p) ==
  /\ Go(p, "finish", "idle")
  /\ extraWaits' = [extraWaits EXCEPT ![p] = 0]
  /\ call' = [call EXCEPT ![p] = "none"]
  /\ UNCHANGED <<shared, procs, held, mode, val, wakeup, calls, stray>>

(* The end of every call that may wait: give back the absorbed posts.      *)
Finish(p) ==
  /\ Go(p, "finish", "idle")
  /\ sem' = [sem EXCEPT ![p] = @ + extraWaits[p]]
  /\ extraWaits' = [extraWaits EXCEPT ![p] = 0]
  /\ call' = [call EXCEPT ![p] = "none"]
  /\ UNCHANGED <<shared, lwWaiting, lwWaitMode, held, mode, val, wakeup, calls,
                 stray>>

LWLockAcquire(p) ==
  \/ \E m \in {"SHARED", "EXCLUSIVE"} :
       Begin(p, "LWLockAcquire", m, val[p], "attempt")
  \/ /\ call[p] = "LWLockAcquire"
     /\ \/ /\ \/ LWLockAttemptLock(p, "attempt", "finish", "queueLock")
              \/ LWLockAttemptLock(p, "reattempt", "dequeueLock", "sleep")
           /\ UNCHANGED <<procs, locals, stray>>
        \/ LWLockQueueSelf(p)
        \/ LWLockDequeueSelf(p)
        \/ PGSemaphoreLock(p, "sleep", "retry")
        \/ SetReleaseOk(p, "retry", "attempt")
        \/ Finish(p)

LWLockConditionalAcquire(p) ==
  \/ \E m \in {"SHARED", "EXCLUSIVE"} :
       Begin(p, "LWLockConditionalAcquire", m, val[p], "attempt")
  \/ /\ call[p] = "LWLockConditionalAcquire"
     /\ \/ /\ LWLockAttemptLock(p, "attempt", "finish", "finish")
           /\ UNCHANGED <<procs, locals, stray>>
        \/ Finish(p)

LWLockAcquireOrWait(p) ==
  \/ \E m \in {"SHARED", "EXCLUSIVE"} :
       Begin(p, "LWLockAcquireOrWait", m, val[p], "attempt")
  \/ /\ call[p] = "LWLockAcquireOrWait"
     /\ \/ /\ \/ LWLockAttemptLock(p, "attempt", "finish", "queueLock")
              \/ LWLockAttemptLock(p, "reattempt", "dequeueLock", "sleep")
           /\ UNCHANGED <<procs, locals, stray>>
        \/ LWLockQueueSelf(p)
        \/ LWLockDequeueSelf(p)
        \/ PGSemaphoreLock(p, "sleep", "finish")
        \/ Finish(p)

(* First the exclusive bit, then the variable under the wait-list lock.    *)
LWLockConflictsWithVar(p, from, lock, read, done, wait) ==
  \/ /\ Go(p, from, IF ExclusiveBit THEN lock ELSE done)
     /\ UNCHANGED <<shared, procs, held, locals, stray>>
  \/ LWLockWaitListLock(p, lock, read)
  \/ LWLockWaitListUnlock(p, read, IF var # val[p] THEN done ELSE wait)

LWLockWaitForVar(p) ==
  \/ \E v \in Values : Begin(p, "LWLockWaitForVar", "SHARED", v, "conflict")
  \/ /\ call[p] = "LWLockWaitForVar"
     /\ \/ LWLockConflictsWithVar(p, "conflict", "varLock", "varRead",
                                  "finish", "queueLock")
        \/ LWLockQueueSelf(p)
        \/ SetReleaseOk(p, "setReleaseOk", "reconflict")
        \/ LWLockConflictsWithVar(p, "reconflict", "revarLock", "revarRead",
                                  "dequeueLock", "sleep")
        \/ LWLockDequeueSelf(p)
        \/ PGSemaphoreLock(p, "sleep", "conflict")
        \/ Finish(p)
-----------------------------------------------------------------------------
(* Entry points of the holder.                                             *)

(* LW_WAIT_UNTIL_FREE waiters: the part of the queue before any retryer.   *)
UntilFree ==
  {waiters[i] : i \in {j \in DOMAIN waiters : \A f \in Retryers : j < f}}

LWLockUpdateVar(p) ==
  \/ /\ "LWLockUpdateVar" \in Calls
     /\ held[p] = "EXCLUSIVE"
     /\ calls[p] <= MaxCalls
     /\ Go(p, "idle", "updateLock")
     /\ \E v \in Values : val' = [val EXCEPT ![p] = v]
     /\ calls' = [calls EXCEPT ![p] = @ + 1]
     /\ UNCHANGED <<shared, procs, held, call, mode, extraWaits, wakeup, stray>>
  \/ LWLockWaitListLock(p, "updateLock", "updateVar")
  \/ /\ Go(p, "updateVar", IF UntilFree = {} THEN "idle" ELSE "wakeFlag")
     /\ var' = val[p]
     /\ wakeup' = [wakeup EXCEPT ![p] = Without(waiters, Procs \ UntilFree)]
     /\ waiters' = Without(waiters, UntilFree)
     /\ flags' = flags \ {"LOCKED"}
     /\ UNCHANGED <<lockcount, procs, held, call, mode, val, extraWaits, calls,
                    stray>>

(* The holder goes on to LWLockWakeup if somebody waits, no woken waiter   *)
(* is still on its way, and it was the last holder.                        *)
ReleaseFrom(p, from) ==
  /\ held[p] # NoMode
  /\ lockcount' = lockcount - LockVal(held[p])
  /\ held' = [held EXCEPT ![p] = NoMode]
  /\ Go(p, from, IF {"HAS_WAITERS", "RELEASE_OK"} \subseteq flags
                      /\ lockcount' = 0
                 THEN "wakeLock" ELSE "idle")
  /\ UNCHANGED <<flags, waiters, var, procs, locals, stray>>

LWLockRelease(p) == ReleaseFrom(p, "idle")

LWLockReleaseClearVar(p) ==
  \/ /\ "LWLockReleaseClearVar" \in Calls
     /\ held[p] = "EXCLUSIVE"
     /\ Go(p, "idle", "clearLock")
     /\ \E v \in Values : val' = [val EXCEPT ![p] = v]
     /\ UNCHANGED <<shared, procs, held, call, mode, extraWaits, wakeup, calls,
                    stray>>
  \/ LWLockWaitListLock(p, "clearLock", "clearVar")
  \/ /\ Go(p, "clearVar", "release")
     /\ var' = val[p]
     /\ flags' = flags \ {"LOCKED"}
     /\ UNCHANGED <<lockcount, waiters, procs, held, locals, stray>>
  \/ ReleaseFrom(p, "release")

(* Other users of the semaphore post it too (clearing transaction ids in   *)
(* groups, updating their status in groups).  Bounds: one semaphore, at    *)
(* most MaxStray times, and while its process looks at it (a post that     *)
(* came earlier would lie there until then).                               *)
StrayPost(p) ==
  /\ stray[p] < MaxStray
  /\ \A q \in Procs \ {p} : stray[q] = 0
  /\ pc[p] \in {"sleep", "absorb"}
  /\ stray' = [stray EXCEPT ![p] = @ + 1]
  /\ sem' = [sem EXCEPT ![p] = @ + 1]
  /\ UNCHANGED <<shared, lwWaiting, lwWaitMode, held, pc, locals>>
-----------------------------------------------------------------------------
Step(p) ==
  \/ LWLockAcquire(p) \/ LWLockConditionalAcquire(p)
  \/ LWLockAcquireOrWait(p) \/ LWLockWaitForVar(p)
  \/ LWLockUpdateVar(p) \/ LWLockReleaseClearVar(p)
  \/ LWLockWakeup(p) \/ AwakenFirst(p)

Next == \E p \in Procs : Step(p) \/ LWLockRelease(p) \/ StrayPost(p)

Spec == Init /\ [][Next]_vars

-----------------------------------------------------------------------------
PCs == {"idle", "attempt", "reattempt", "queueLock", "queueAdd", "queueUnlock",
        "setReleaseOk", "sleep", "retry", "dequeueLock", "dequeueSelf",
        "dequeueFound", "dequeueMissing", "dequeueReleaseOk", "absorb",
        "finish", "conflict", "varLock", "varRead", "reconflict", "revarLock",
        "revarRead", "updateLock", "updateVar", "clearLock", "clearVar",
        "release", "wakeLock", "wakeTake", "wakeFlag", "wakePost"}

Modes == {"SHARED", "EXCLUSIVE"}

(* Every variable has its type.                                            *)
TypeOK ==
  /\ lockcount \in Nat
  /\ flags \subseteq {"HAS_WAITERS", "RELEASE_OK", "LOCKED"}
  /\ waiters \in Seq(Procs)
  /\ var \in Values
  /\ lwWaiting \in [Procs -> BOOLEAN]
  /\ lwWaitMode \in [Procs -> Modes \union {"WAIT_UNTIL_FREE"}]
  /\ sem \in [Procs -> Nat]
  /\ held \in [Procs -> Modes \union {NoMode}]
  /\ pc \in [Procs -> PCs]
  /\ call \in [Procs -> Calls \union {"none"}]
  /\ mode \in [Procs -> Modes]
  /\ val \in [Procs -> Values]
  /\ extraWaits \in [Procs -> Nat]
  /\ wakeup \in [Procs -> Seq(Procs)]
  /\ calls \in [Procs -> Nat]
  /\ stray \in [Procs -> Nat]

(* An exclusive holder is the only holder, and when one releases, the      *)
(* assertion "nobody else can have that kind of lock" (lwlock.c:1842) is   *)
(* true: what LWLockAttemptLock and LWLockRelease add to and take from the *)
(* shared word keeps both kinds of holders apart.                          *)
Exclusion ==
  \A p, q \in Procs : p # q /\ held[p] = "EXCLUSIVE" => held[q] = NoMode

(* The places from which a wakeup can still reach p: its position in the   *)
(* queue, or in the private list of a process that took it off the queue.  *)
Places(p) ==
  {<<"queue", i>> : i \in {j \in DOMAIN waiters : waiters[j] = p}}
    \union UNION {{<<q, i>> : i \in {j \in DOMAIN wakeup[q] :
                     /\ wakeup[q][j] = p
                     /\ j = 1 => pc[q] # "wakePost"}} : q \in Procs}

(* A process is marked as waiting exactly while one place, the queue or    *)
(* one waker's list, holds it; LWLockDequeueSelf clears its own mark last. *)
(* A waiter in no place would sleep for ever, one in two would corrupt the *)
(* lists (comment in LWLockWakeup), and one still marked when it queues    *)
(* itself again would panic in LWLockQueueSelf.                            *)
WaiterInOnePlace ==
  \A p \in Procs :
    /\ pc[p] # "dequeueFound" =>
         Cardinality(Places(p)) = IF lwWaiting[p] THEN 1 ELSE 0
    /\ pc[p] \in {"queueLock", "queueAdd"} => ~lwWaiting[p]

(* Posts of a semaphore by its other users are never lost: outside the     *)
(* calls of this module it counts exactly the posts made for others and    *)
(* those a waker still owes it.                                            *)
PostsGivenBack ==
  \A p \in Procs : pc[p] = "idle" =>
    stray[p] = sem[p] + Cardinality({q \in Procs :
                 pc[q] = "wakePost" /\ Head(wakeup[q]) = p})

Quiet ==
  \A q \in Procs : \/ pc[q] = "idle"
                   \/ pc[q] \in {"sleep", "absorb"} /\ sem[q] = 0

(* No lost wakeup: when no process has a step to take in a call, whoever   *)
(* is asleep waits for a lock that is held; and LWLockWaitForVar sleeps    *)
(* only while it is held exclusively and the variable has the old value.   *)
NoLostWakeup ==
  Quiet => \A p \in Procs : pc[p] # "idle" =>
             /\ lockcount # 0
             /\ call[p] = "LWLockWaitForVar" => ExclusiveBit /\ var = val[p]

(* The lock is a readers-writer lock for its callers.                      *)
RW == INSTANCE RWLock
ImplementsRWLock == RW!Spec
=============================================================================
