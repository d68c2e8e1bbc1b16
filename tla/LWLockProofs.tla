---------------------------- MODULE LWLockProofs ----------------------------
(***************************************************************************)
(* What module LWLock promises, for any number of processes below the      *)
(* exclusive value of the lock word and any number of calls: an exclusive  *)
(* holder is alone, and the lock is a readers-writer lock.                 *)
(***************************************************************************)
EXTENDS LWLock, FiniteSetTheorems, TLAPS

(* Where a process has not got the lock in this call.                      *)
Acquiring == {"attempt", "reattempt", "queueLock", "queueAdd", "queueUnlock",
              "setReleaseOk", "sleep", "retry", "conflict", "varLock", "varRead",
              "reconflict", "revarLock", "revarRead"}

SharedHolders == {p \in Procs : held[p] = "SHARED"}

(* The lock word counts the holders: either the exclusive value, for one   *)
(* holder, or one for each shared holder.                                  *)
LockWord ==
  \/ /\ lockcount = LW_VAL_EXCLUSIVE
     /\ \E p \in Procs : /\ held[p] = "EXCLUSIVE"
                         /\ \A q \in Procs : q # p => held[q] = NoMode
  \/ /\ lockcount = Cardinality(SharedHolders)
     /\ \A p \in Procs : held[p] # "EXCLUSIVE"

LockType ==
  /\ held \in [Procs -> Modes \union {NoMode}]
  /\ mode \in [Procs -> Modes]
  /\ pc \in [Procs -> PCs]

NotYetHeld == \A p \in Procs : pc[p] \in Acquiring => held[p] = NoMode

LockInv == LockType /\ NotYetHeld /\ LockWord

-----------------------------------------------------------------------------
(* All that a step does to the lock word and to the holders.               *)

Takes(p) ==
  /\ held[p] = NoMode
  /\ LockFree(mode[p])
  /\ lockcount' = lockcount + LockVal(mode[p])
  /\ held' = [held EXCEPT ![p] = mode[p]]

GivesBack(p) ==
  /\ held[p] # NoMode
  /\ lockcount' = lockcount - LockVal(held[p])
  /\ held' = [held EXCEPT ![p] = NoMode]

Keeps == UNCHANGED <<lockcount, held>>

(* A process goes on without the lock word; it starts to acquire only what *)
(* it does not hold.                                                       *)
Walks(p) ==
  /\ Keeps
  /\ \E l \in PCs : /\ pc' = [pc EXCEPT ![p] = l]
                    /\ l \in Acquiring => held[p] = NoMode

StepOf(p) ==
  /\ mode' \in [Procs -> Modes]
  /\ \/ Walks(p)
     \/ /\ Takes(p) \/ GivesBack(p)
        /\ \E l \in PCs \ Acquiring : pc' = [pc EXCEPT ![p] = l]

(* A step from one place to another that leaves the word alone.            *)
LEMMA GoWalks ==
  ASSUME LockType, NotYetHeld, NEW p \in Procs, NEW from, NEW to \in PCs,
         to \in Acquiring => from \in Acquiring,
         Go(p, from, to), Keeps, UNCHANGED mode
  PROVE  StepOf(p)
BY DEF LockType, NotYetHeld, Go, Keeps, Walks, StepOf

(* LWLockWaitListLock, LWLockWaitListUnlock and the setting of RELEASE_OK  *)
(* only touch flags.                                                       *)
LEMMA FlagSteps ==
  ASSUME LockType, NotYetHeld, NEW p \in Procs, NEW from, NEW to \in PCs,
         to \in Acquiring => from \in Acquiring,
         \/ LWLockWaitListLock(p, from, to)
         \/ LWLockWaitListUnlock(p, from, to)
         \/ SetReleaseOk(p, from, to)
  PROVE  StepOf(p)
<1>1. Go(p, from, to) /\ Keeps /\ UNCHANGED mode
  BY DEF LWLockWaitListLock, LWLockWaitListUnlock, SetReleaseOk, Keeps, procs, locals
<1>2. QED
  BY <1>1, GoWalks

(* Waiting on the semaphore.                                               *)
LEMMA SemaphoreSteps ==
  ASSUME LockType, NotYetHeld, NEW p \in Procs, NEW from \in PCs, NEW to \in PCs,
         to \in Acquiring => from \in Acquiring,
         PGSemaphoreLock(p, from, to)
  PROVE  StepOf(p)
<1>1. Keeps /\ UNCHANGED mode
  BY DEF PGSemaphoreLock, shared, Keeps
<1>2. pc[p] = from /\ (pc' = [pc EXCEPT ![p] = to] \/ pc' = pc)
  BY DEF PGSemaphoreLock
<1>3. CASE pc' = [pc EXCEPT ![p] = to]
  BY <1>1, <1>2, <1>3, GoWalks DEF Go
<1>4. CASE pc' = pc
  <2>1. pc' = [pc EXCEPT ![p] = from]
    BY <1>2, <1>4 DEF LockType
  <2>2. QED
    BY <1>1, <1>2, <2>1, GoWalks DEF Go
<1>5. QED
  BY <1>2, <1>3, <1>4

(* The attempt: the lock is taken, or nothing happens.                     *)
LEMMA AttemptSteps ==
  ASSUME LockType, NotYetHeld, NEW p \in Procs, NEW from \in Acquiring,
         NEW got \in PCs \ Acquiring, NEW wait \in PCs,
         LWLockAttemptLock(p, from, got, wait), UNCHANGED locals
  PROVE  StepOf(p)
<1>1. UNCHANGED mode
  BY DEF locals
<1>2. CASE /\ LockFree(mode[p]) /\ Go(p, from, got)
           /\ lockcount' = lockcount + LockVal(mode[p])
           /\ held' = [held EXCEPT ![p] = mode[p]]
  <2>1. held[p] = NoMode
    BY <1>2 DEF Go, NotYetHeld
  <2>2. Takes(p)
    BY <1>2, <2>1 DEF Takes
  <2>3. QED
    BY <1>1, <1>2, <2>2 DEF Go, StepOf, LockType
<1>3. CASE Go(p, from, wait) /\ UNCHANGED <<shared, held>>
  BY <1>1, <1>3, GoWalks DEF Keeps, shared
<1>4. QED
  BY <1>2, <1>3 DEF LWLockAttemptLock

LEMMA QueueSteps ==
  ASSUME LockType, NotYetHeld, NEW p \in Procs, LWLockQueueSelf(p)
  PROVE  StepOf(p)
<1>1. CASE LWLockWaitListLock(p, "queueLock", "queueAdd")
  BY <1>1, FlagSteps DEF PCs, Acquiring
<1>2. CASE /\ Go(p, "queueAdd", "queueUnlock") /\ Keeps /\ UNCHANGED mode
  BY <1>2, GoWalks DEF PCs, Acquiring
<1>3. CASE \E to \in {"setReleaseOk", "reattempt"} : LWLockWaitListUnlock(p, "queueUnlock", to)
  BY <1>3, FlagSteps DEF PCs, Acquiring
<1>4. QED
  BY <1>1, <1>2, <1>3 DEF LWLockQueueSelf, Keeps, locals

LEMMA DequeueSteps ==
  ASSUME LockType, NotYetHeld, NEW p \in Procs, LWLockDequeueSelf(p)
  PROVE  StepOf(p)
<1>1. CASE LWLockWaitListLock(p, "dequeueLock", "dequeueSelf")
  BY <1>1, FlagSteps DEF PCs, Acquiring
<1>2. CASE \E to \in {"dequeueFound", "dequeueMissing"} :
             Go(p, "dequeueSelf", to) /\ Keeps /\ UNCHANGED mode
  BY <1>2, GoWalks DEF PCs, Acquiring
<1>3. CASE Go(p, "dequeueFound", "finish") /\ Keeps /\ UNCHANGED mode
  BY <1>3, GoWalks DEF PCs, Acquiring
<1>4. CASE LWLockWaitListUnlock(p, "dequeueMissing", "dequeueReleaseOk")
  BY <1>4, FlagSteps DEF PCs, Acquiring
<1>5. CASE SetReleaseOk(p, "dequeueReleaseOk", "absorb")
  BY <1>5, FlagSteps DEF PCs, Acquiring
<1>6. CASE PGSemaphoreLock(p, "absorb", "finish")
  BY <1>6, SemaphoreSteps DEF PCs, Acquiring
<1>7. QED
  BY <1>1, <1>2, <1>3, <1>4, <1>5, <1>6 DEF LWLockDequeueSelf, Keeps, locals

(* A call begins by a process that does not hold the lock, and ends.       *)
LEMMA BeginSteps ==
  ASSUME LockType, NotYetHeld, NEW p \in Procs, NEW f, NEW m \in Modes, NEW v,
         NEW first \in PCs, Begin(p, f, m, v, first)
  PROVE  StepOf(p)
<1>1. held[p] = NoMode /\ Keeps /\ pc' = [pc EXCEPT ![p] = first]
  BY DEF Begin, Keeps, shared, Go
<1>2. mode' \in [Procs -> Modes]
  BY DEF Begin, LockType
<1>3. QED
  BY <1>1, <1>2 DEF StepOf, Walks

LEMMA FinishSteps ==
  ASSUME LockType, NotYetHeld, NEW p \in Procs, Finish(p)
  PROVE  StepOf(p)
<1>1. Go(p, "finish", "idle") /\ Keeps /\ UNCHANGED mode
  BY DEF Finish, Keeps, shared
<1>2. QED
  BY <1>1, GoWalks DEF PCs, Acquiring

(* The entry points.                                                       *)
LEMMA AcquireSteps ==
  ASSUME LockType, NotYetHeld, NEW p \in Procs, LWLockAcquire(p)
  PROVE  StepOf(p)
<1>1. CASE \E m \in {"SHARED", "EXCLUSIVE"} : Begin(p, "LWLockAcquire", m, val[p], "attempt")
  BY <1>1, BeginSteps DEF Modes, PCs
<1>2. CASE LWLockAttemptLock(p, "attempt", "finish", "queueLock") /\ UNCHANGED locals
  BY <1>2, AttemptSteps DEF PCs, Acquiring
<1>3. CASE LWLockAttemptLock(p, "reattempt", "dequeueLock", "sleep") /\ UNCHANGED locals
  BY <1>3, AttemptSteps DEF PCs, Acquiring
<1>4. CASE PGSemaphoreLock(p, "sleep", "retry")
  BY <1>4, SemaphoreSteps DEF PCs, Acquiring
<1>5. CASE SetReleaseOk(p, "retry", "attempt")
  BY <1>5, FlagSteps DEF PCs, Acquiring
<1>6. QED
  BY <1>1, <1>2, <1>3, <1>4, <1>5, QueueSteps, DequeueSteps, FinishSteps DEF LWLockAcquire

LEMMA ConditionalAcquireSteps ==
  ASSUME LockType, NotYetHeld, NEW p \in Procs, LWLockConditionalAcquire(p)
  PROVE  StepOf(p)
<1>1. CASE \E m \in {"SHARED", "EXCLUSIVE"} :
             Begin(p, "LWLockConditionalAcquire", m, val[p], "attempt")
  BY <1>1, BeginSteps DEF Modes, PCs
<1>2. CASE LWLockAttemptLock(p, "attempt", "finish", "finish") /\ UNCHANGED locals
  BY <1>2, AttemptSteps DEF PCs, Acquiring
<1>3. QED
  BY <1>1, <1>2, FinishSteps DEF LWLockConditionalAcquire

LEMMA AcquireOrWaitSteps ==
  ASSUME LockType, NotYetHeld, NEW p \in Procs, LWLockAcquireOrWait(p)
  PROVE  StepOf(p)
<1>1. CASE \E m \in {"SHARED", "EXCLUSIVE"} :
             Begin(p, "LWLockAcquireOrWait", m, val[p], "attempt")
  BY <1>1, BeginSteps DEF Modes, PCs
<1>2. CASE LWLockAttemptLock(p, "attempt", "finish", "queueLock") /\ UNCHANGED locals
  BY <1>2, AttemptSteps DEF PCs, Acquiring
<1>3. CASE LWLockAttemptLock(p, "reattempt", "dequeueLock", "sleep") /\ UNCHANGED locals
  BY <1>3, AttemptSteps DEF PCs, Acquiring
<1>4. CASE PGSemaphoreLock(p, "sleep", "finish")
  BY <1>4, SemaphoreSteps DEF PCs, Acquiring
<1>5. QED
  BY <1>1, <1>2, <1>3, <1>4, QueueSteps, DequeueSteps, FinishSteps DEF LWLockAcquireOrWait

(* The look at the exclusive bit and at the variable.                      *)
LEMMA ConflictSteps ==
  ASSUME LockType, NotYetHeld, NEW p \in Procs, NEW from \in Acquiring,
         NEW lock \in PCs, NEW read \in Acquiring, NEW done \in PCs, NEW wait \in PCs,
         lock \in Acquiring, read \in PCs,
         LWLockConflictsWithVar(p, from, lock, read, done, wait)
  PROVE  StepOf(p)
<1>1. CASE \E to \in {lock, done} : Go(p, from, to) /\ Keeps /\ UNCHANGED mode
  BY <1>1, GoWalks
<1>2. CASE LWLockWaitListLock(p, lock, read)
  BY <1>2, FlagSteps
<1>3. CASE \E to \in {done, wait} : LWLockWaitListUnlock(p, read, to)
  BY <1>3, FlagSteps
<1>4. QED
  BY <1>1, <1>2, <1>3 DEF LWLockConflictsWithVar, Keeps, shared, locals

LEMMA WaitForVarSteps ==
  ASSUME LockType, NotYetHeld, NEW p \in Procs, LWLockWaitForVar(p)
  PROVE  StepOf(p)
<1>1. CASE \E v \in Values : Begin(p, "LWLockWaitForVar", "SHARED", v, "conflict")
  BY <1>1, BeginSteps DEF Modes, PCs
<1>2. CASE LWLockConflictsWithVar(p, "conflict", "varLock", "varRead", "finish", "queueLock")
  <2>1. {"conflict", "varLock", "varRead"} \subseteq Acquiring \intersect PCs /\ {"finish", "queueLock"} \subseteq PCs
    BY DEF PCs, Acquiring
  <2>2. QED
    BY <1>2, <2>1, ConflictSteps, Zenon
<1>3. CASE SetReleaseOk(p, "setReleaseOk", "reconflict")
  BY <1>3, FlagSteps DEF PCs, Acquiring
<1>4. CASE LWLockConflictsWithVar(p, "reconflict", "revarLock", "revarRead",
                                  "dequeueLock", "sleep")
  <2>1. {"reconflict", "revarLock", "revarRead"} \subseteq Acquiring \intersect PCs /\ {"dequeueLock", "sleep"} \subseteq PCs
    BY DEF PCs, Acquiring
  <2>2. QED
    BY <1>4, <2>1, ConflictSteps, Zenon
<1>5. CASE PGSemaphoreLock(p, "sleep", "conflict")
  BY <1>5, SemaphoreSteps DEF PCs, Acquiring
<1>6. QED
  BY <1>1, <1>2, <1>3, <1>4, <1>5, QueueSteps, DequeueSteps, FinishSteps DEF LWLockWaitForVar

LEMMA UpdateVarSteps ==
  ASSUME LockType, NotYetHeld, NEW p \in Procs, LWLockUpdateVar(p)
  PROVE  StepOf(p)
<1>1. CASE Go(p, "idle", "updateLock") /\ Keeps /\ UNCHANGED mode
  BY <1>1, GoWalks DEF PCs, Acquiring
<1>2. CASE LWLockWaitListLock(p, "updateLock", "updateVar")
  BY <1>2, FlagSteps DEF PCs, Acquiring
<1>3. CASE \E to \in {"idle", "wakeFlag"} : Go(p, "updateVar", to) /\ Keeps /\ UNCHANGED mode
  BY <1>3, GoWalks DEF PCs, Acquiring
<1>4. QED
  BY <1>1, <1>2, <1>3 DEF LWLockUpdateVar, Keeps, shared

(* The release: the holder's share of the lock word is given back.         *)
LEMMA ReleaseSteps ==
  ASSUME LockType, NotYetHeld, NEW p \in Procs, NEW from, ReleaseFrom(p, from)
  PROVE  StepOf(p)
<1>1. GivesBack(p)
  BY DEF ReleaseFrom, GivesBack
<1>2. \E l \in {"wakeLock", "idle"} : pc' = [pc EXCEPT ![p] = l]
  BY DEF ReleaseFrom, Go
<1>3. UNCHANGED mode
  BY DEF ReleaseFrom, locals
<1>4. QED
  BY <1>1, <1>2, <1>3 DEF StepOf, LockType, PCs, Acquiring

LEMMA ReleaseClearVarSteps ==
  ASSUME LockType, NotYetHeld, NEW p \in Procs, LWLockReleaseClearVar(p)
  PROVE  StepOf(p)
<1>1. CASE Go(p, "idle", "clearLock") /\ Keeps /\ UNCHANGED mode
  BY <1>1, GoWalks DEF PCs, Acquiring
<1>2. CASE LWLockWaitListLock(p, "clearLock", "clearVar")
  BY <1>2, FlagSteps DEF PCs, Acquiring
<1>3. CASE Go(p, "clearVar", "release") /\ Keeps /\ UNCHANGED mode
  BY <1>3, GoWalks DEF PCs, Acquiring
<1>4. CASE ReleaseFrom(p, "release")
  BY <1>4, ReleaseSteps
<1>5. QED
  BY <1>1, <1>2, <1>3, <1>4 DEF LWLockReleaseClearVar, Keeps, shared, locals

LEMMA WakeupSteps ==
  ASSUME LockType, NotYetHeld, NEW p \in Procs, LWLockWakeup(p) \/ AwakenFirst(p)
  PROVE  StepOf(p)
<1>1. CASE LWLockWaitListLock(p, "wakeLock", "wakeTake")
  BY <1>1, FlagSteps DEF PCs, Acquiring
<1>2. CASE \E to \in {"idle", "wakeFlag"} : Go(p, "wakeTake", to) /\ Keeps /\ UNCHANGED mode
  BY <1>2, GoWalks DEF PCs, Acquiring
<1>3. CASE Go(p, "wakeFlag", "wakePost") /\ Keeps /\ UNCHANGED mode
  BY <1>3, GoWalks DEF PCs, Acquiring
<1>4. CASE \E to \in {"idle", "wakeFlag"} : Go(p, "wakePost", to) /\ Keeps /\ UNCHANGED mode
  BY <1>4, GoWalks DEF PCs, Acquiring
<1>5. QED
  BY <1>1, <1>2, <1>3, <1>4 DEF LWLockWakeup, AwakenFirst, Keeps, shared, locals

(* Posts by other users of the semaphore.                                  *)
LEMMA StraySteps ==
  ASSUME LockType, NotYetHeld, NEW p \in Procs, StrayPost(p)
  PROVE  StepOf(p)
<1>1. Keeps /\ UNCHANGED <<mode, pc>>
  BY DEF StrayPost, Keeps, shared, locals
<1>2. pc' = [pc EXCEPT ![p] = pc[p]] /\ pc[p] \in PCs
  BY <1>1 DEF LockType
<1>3. QED
  BY <1>1, <1>2 DEF StepOf, Walks, LockType, NotYetHeld

(* Every step of the specification is one of them.                         *)
LEMMA NextSteps ==
  ASSUME LockType, NotYetHeld, Next
  PROVE  \E p \in Procs : StepOf(p)
BY AcquireSteps, ConditionalAcquireSteps, AcquireOrWaitSteps, WaitForVarSteps,
   UpdateVarSteps, ReleaseClearVarSteps, WakeupSteps, ReleaseSteps, StraySteps
   DEF Next, Step, LWLockRelease
-----------------------------------------------------------------------------
(* The invariant is inductive.                                             *)

(* LWLockInitialize: nobody holds the lock.                                *)
LEMMA InitLockInv == Init => LockInv
<1> SUFFICES ASSUME Init PROVE LockInv
  OBVIOUS
<1>1. LockType
  BY DEF Init, LockType, Modes, PCs
<1>2. NotYetHeld
  BY DEF Init, NotYetHeld, Acquiring
<1>3. SharedHolders = {}
  BY LockAssumption DEF Init, SharedHolders
<1>4. LockWord
  BY <1>3, FS_EmptySet, LockAssumption DEF Init, LockWord
<1>5. QED
  BY <1>1, <1>2, <1>4 DEF LockInv

(* Facts about the number of shared holders.                               *)
LEMMA SharedCount ==
  /\ IsFiniteSet(SharedHolders)
  /\ Cardinality(SharedHolders) \in Nat
  /\ Cardinality(SharedHolders) < LW_VAL_EXCLUSIVE
<1>1. SharedHolders \in SUBSET Procs
  BY DEF SharedHolders
<1>2. IsFiniteSet(SharedHolders) /\ Cardinality(SharedHolders) <= Cardinality(Procs)
  BY <1>1, FS_Subset, LockAssumption
<1>3. Cardinality(SharedHolders) \in Nat /\ Cardinality(Procs) \in Nat
  BY <1>2, FS_CardinalityType, LockAssumption
<1>4. QED
  BY <1>2, <1>3, LockAssumption

(* A successful attempt is a step of the readers-writer lock, and the word *)
(* goes on counting the holders: below the exclusive value no count of     *)
(* shared holders can be taken for an exclusive one.                       *)
LEMMA TakeIsAcquire ==
  ASSUME LockInv, NEW p \in Procs, Takes(p)
  PROVE  LockWord' /\ (RW!AcquireShared(p) \/ RW!AcquireExclusive(p))
<1> USE DEF LockInv, LockType
<1>1. mode[p] \in {"SHARED", "EXCLUSIVE"}
  BY DEF Modes
<1>2. lockcount < LW_VAL_EXCLUSIVE
  <2>1. LW_VAL_EXCLUSIVE > 0 /\ Cardinality(SharedHolders) < LW_VAL_EXCLUSIVE
    BY SharedCount, LockAssumption
  <2>2. lockcount \in Nat
    BY SharedCount, LockAssumption DEF LockWord
  <2>3. QED
    BY <1>1, <2>1, <2>2, LockAssumption DEF Takes, LockFree, ExclusiveBit
<1>3. lockcount = Cardinality(SharedHolders) /\ \A q \in Procs : held[q] # "EXCLUSIVE"
  BY <1>2, LockAssumption DEF LockWord
<1>4. CASE mode[p] = "EXCLUSIVE"
  <2>1. lockcount = 0
    BY <1>4 DEF Takes, LockFree
  <2>2. SharedHolders = {}
    BY <1>3, <2>1, SharedCount, FS_EmptySet
  <2>3. \A q \in Procs : held[q] = NoMode
    BY <1>3, <2>2 DEF SharedHolders, Modes
  <2>4. lockcount' = LW_VAL_EXCLUSIVE
    BY <1>4, <2>1, LockAssumption DEF Takes, LockVal
  <2>5. held' = [held EXCEPT ![p] = "EXCLUSIVE"]
    BY <1>4 DEF Takes
  <2>6. LockWord'
    BY <2>3, <2>4, <2>5 DEF LockWord
  <2>7. QED
    BY <2>3, <2>5, <2>6 DEF RW!AcquireExclusive
<1>5. CASE mode[p] = "SHARED"
  <2>1. held[p] = NoMode /\ held' = [held EXCEPT ![p] = "SHARED"]
    BY <1>5 DEF Takes
  <2>2. p \notin SharedHolders
    BY <2>1, LockAssumption DEF SharedHolders
  <2>3. SharedHolders' = SharedHolders \union {p}
    BY <2>1 DEF SharedHolders
  <2>4. Cardinality(SharedHolders') = Cardinality(SharedHolders) + 1
    BY <2>2, <2>3, SharedCount, FS_AddElement
  <2>5. lockcount' = lockcount + 1
    BY <1>5 DEF Takes, LockVal
  <2>6. \A q \in Procs : held'[q] # "EXCLUSIVE"
    BY <1>3, <2>1
  <2>7. LockWord'
    BY <1>3, <2>4, <2>5, <2>6 DEF LockWord
  <2>8. QED
    BY <1>3, <2>1, <2>7 DEF RW!AcquireShared
<1>6. QED
  BY <1>1, <1>4, <1>5

(* So is a release.                                                        *)
LEMMA GiveBackIsRelease ==
  ASSUME LockInv, NEW p \in Procs, GivesBack(p)
  PROVE  LockWord' /\ RW!Release(p)
<1> USE DEF LockInv, LockType
<1>1. held[p] # NoMode /\ held' = [held EXCEPT ![p] = NoMode]
  BY DEF GivesBack
<1>2. held[p] \in {"SHARED", "EXCLUSIVE"}
  BY <1>1 DEF Modes
<1>3. \A q \in Procs : held'[q] = IF q = p THEN NoMode ELSE held[q]
  BY <1>1
<1>4. CASE held[p] = "EXCLUSIVE"
  <2>1. lockcount = LW_VAL_EXCLUSIVE /\ \A q \in Procs : q # p => held[q] = NoMode
    BY <1>4, LockAssumption DEF LockWord
  <2>2. lockcount' = 0
    BY <1>4, <2>1, LockAssumption DEF GivesBack, LockVal
  <2>3. \A q \in Procs : held'[q] = NoMode
    BY <1>3, <2>1
  <2>4. SharedHolders' = {}
    BY <2>3, LockAssumption DEF SharedHolders
  <2>5. Cardinality(SharedHolders') = 0
    BY <2>4, FS_EmptySet
  <2>6. QED
    BY <1>1, <2>2, <2>3, <2>5, LockAssumption DEF LockWord, RW!Release
<1>5. CASE held[p] = "SHARED"
  <2>1. lockcount = Cardinality(SharedHolders) /\ \A q \in Procs : held[q] # "EXCLUSIVE"
    BY <1>5, LockAssumption DEF LockWord
  <2>2. p \in SharedHolders
    BY <1>5 DEF SharedHolders
  <2>3. SharedHolders' = SharedHolders \ {p}
    BY <1>3, LockAssumption DEF SharedHolders
  <2>4. Cardinality(SharedHolders') = Cardinality(SharedHolders) - 1
    BY <2>2, <2>3, SharedCount, FS_RemoveElement
  <2>5. lockcount' = lockcount - 1
    BY <1>5 DEF GivesBack, LockVal
  <2>6. \A q \in Procs : held'[q] # "EXCLUSIVE"
    BY <1>3, <2>1, LockAssumption
  <2>7. QED
    BY <1>1, <2>1, <2>4, <2>5, <2>6 DEF LockWord, RW!Release
<1>6. QED
  BY <1>2, <1>4, <1>5

(* What one step of one process does to the invariant and to the           *)
(* readers-writer lock.                                                    *)
LEMMA StepKeepsLockInv ==
  ASSUME LockInv, NEW p \in Procs, StepOf(p)
  PROVE  LockInv' /\ (RW!Next \/ UNCHANGED held)
<1> USE DEF LockInv
<1>1. mode' \in [Procs -> Modes]
  BY DEF StepOf
<1>2. CASE Walks(p)
  <2>1. LockType'
    BY <1>1, <1>2 DEF Walks, Keeps, LockType
  <2>2. NotYetHeld'
    BY <1>2 DEF Walks, Keeps, LockType, NotYetHeld
  <2>3. LockWord'
    BY <1>2 DEF Walks, Keeps, LockWord, SharedHolders
  <2>4. QED
    BY <1>2, <2>1, <2>2, <2>3 DEF Walks, Keeps
<1>3. CASE /\ Takes(p) \/ GivesBack(p)
           /\ \E l \in PCs \ Acquiring : pc' = [pc EXCEPT ![p] = l]
  <2>1. held' \in [Procs -> Modes \union {NoMode}]
    BY <1>3 DEF Takes, GivesBack, LockType
  <2>2. \A q \in Procs : q # p => held'[q] = held[q] /\ pc'[q] = pc[q]
    BY <1>3 DEF Takes, GivesBack, LockType
  <2>3. pc' \in [Procs -> PCs] /\ pc'[p] \notin Acquiring
    BY <1>3 DEF LockType
  <2>4. LockType' /\ NotYetHeld'
    BY <1>1, <2>1, <2>2, <2>3 DEF LockType, NotYetHeld
  <2>5. LockWord' /\ RW!Next
    BY <1>3, TakeIsAcquire, GiveBackIsRelease DEF RW!Next
  <2>6. QED
    BY <2>4, <2>5
<1>4. QED
  BY <1>2, <1>3 DEF StepOf

LEMMA NextKeepsLockInv == LockInv /\ [Next]_vars => LockInv' /\ [RW!Next]_held
<1> SUFFICES ASSUME LockInv, [Next]_vars PROVE LockInv' /\ (RW!Next \/ UNCHANGED held)
  OBVIOUS
<1>1. CASE Next
  BY <1>1, NextSteps, StepKeepsLockInv DEF LockInv
<1>2. CASE UNCHANGED vars
  BY <1>2 DEF vars, shared, locals, LockInv, LockType, NotYetHeld, LockWord, SharedHolders
<1>3. QED
  BY <1>1, <1>2

(* The lock word and the holders agree in every reachable state.           *)
LEMMA LockInvAlways == Spec => []LockInv
BY InitLockInv, NextKeepsLockInv, PTL DEF Spec
-----------------------------------------------------------------------------
(* An exclusive holder is the only holder, for any number of processes     *)
(* below LW_VAL_EXCLUSIVE and whatever they call (LWLockAttemptLock,       *)
(* LWLockReleaseInternal).                                                 *)
THEOREM ExclusionHolds == Spec => []Exclusion
<1>1. LockInv => Exclusion
  BY LockAssumption DEF LockInv, LockType, LockWord, Exclusion
<1>2. QED
  BY <1>1, LockInvAlways, PTL

(* The lock with its queue, its flags and its semaphores implements a      *)
(* readers-writer lock: it grants and takes back nothing else.             *)
THEOREM LockRefines == Spec => ImplementsRWLock
<1>1. Init => RW!Init
  BY DEF Init, RW!Init
<1>2. QED
  BY <1>1, InitLockInv, NextKeepsLockInv, PTL DEF Spec, ImplementsRWLock, RW!Spec
=============================================================================
