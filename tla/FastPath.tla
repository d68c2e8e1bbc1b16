----------------------------- MODULE FastPath ------------------------------
(***************************************************************************)
(* Fast-path relation locks, lock.c, above the lock table: each process    *)
(* keeps weak locks in slots of its own PGPROC, and whoever wants a strong *)
(* lock first bumps a counter that keeps others from using their slots,    *)
(* then moves what it finds there to the lock table.  A step is what is    *)
(* done under one fpInfoLock, one partition lock or the spinlock of the    *)
(* counters; a weak locker's test of the counter and what follows from it  *)
(* are two.  Session locks, lock groups and other databases are left out.  *)
(***************************************************************************)
EXTENDS LockTable

CONSTANTS allProcs,      \* the processes, in the order of ProcGlobal->allProcs
          DummyProc,     \* for who may prepare: the PGPROC of the prepared transaction
          FP_LOCK_SLOTS_PER_BACKEND,
          HashPartition, \* FastPathStrongLockHashPartition of each lock
          Wants,         \* the locks and modes a process may ask for
          Scans,         \* those it may call GetLockConflicts for
          Catches,       \* who goes on after an error, in a subtransaction's parent
          Errors         \* which of "memory", "prepare" happen

VARIABLES
  fpSlots,       \* PGPROC.fpRelId and fpLockBits
  FastPathLocalUseCount,
  strongCount,   \* FastPathStrongRelationLocks->count
  fpInfoLock,    \* who holds the LWLock of a PGPROC from one step to the next
  locallock,     \* LOCALLOCK: nLocks, whether lock/proclock are set, holdsStrongLockCount
  call,          \* where a process is in a call of the lock manager, or NULL
  marked,        \* PROCLOCK.releaseMask
  twoPhase,      \* the lock records of a prepared transaction, not yet processed
  steady         \* history: who holds a conflicting lock since GetLockConflicts began

fpVars == <<fpSlots, FastPathLocalUseCount, strongCount, fpInfoLock, locallock, call,
            marked, twoPhase, steady>>
allVars == <<vars, fpVars>>
tableVars == <<held, queue, want, waitStatus>>
slotVars == <<fpSlots, FastPathLocalUseCount, fpInfoLock>>

Backends == ToSet(allProcs)
Slots == 1..FP_LOCK_SLOTS_PER_BACKEND
Entries == Locks \X Modes
NoEntry == [n |-> 0, ptr |-> FALSE, strong |-> FALSE]
EmptySlot == [rel |-> NULL, modes |-> {}]

ASSUME FastPathAssumption ==
  /\ FP_LOCK_SLOTS_PER_BACKEND \in Nat
  /\ Procs = Backends \union {DummyProc[p] : p \in DOMAIN DummyProc}
  /\ DOMAIN DummyProc \subseteq Backends
  /\ Wants \in [Backends -> SUBSET Entries] /\ Scans \in [Backends -> SUBSET Entries]
  /\ Errors \subseteq {"memory", "prepare"}

(* The first three modes may take the fast path; those after the fourth    *)
(* conflict with some of them.                                             *)
EligibleForRelationFastPath(mode) == mode \in ToSet(SubSeq(AllModes, 1, 3))
ConflictsWithRelationFastPathMutant(mode) == mode \in ToSet(SubSeq(AllModes, 6, 8))
ConflictsWithRelationFastPath(mode) == mode \in ToSet(SubSeq(AllModes, 5, 8))

At(p, step) == call[p] # NULL /\ call[p].at = step
GoTo(p, step) == call' = [call EXCEPT ![p].at = step]
Return(p) == call' = [call EXCEPT ![p] = NULL]
Idle(p) == pc[p] = "run" /\ call[p] = NULL
Local(p, e, entry) == locallock' = [locallock EXCEPT ![p][e] = entry]

FpModes(p, l) == UNION {fpSlots[p][f].modes : f \in {g \in Slots : fpSlots[p][g].rel = l}}
SetSlot(s, rel, modes) ==
  [s EXCEPT !.rel = IF modes = {} THEN NULL ELSE rel, !.modes = modes]

Bump(l, by) == strongCount' = [strongCount EXCEPT ![HashPartition[l]] = @ + by]

(* RemoveLocalLock, whose entry may own one of the strong lock count.      *)
RemoveLocalLock(p, e) ==
  /\ Local(p, e, NoEntry)
  /\ IF locallock[p][e].strong THEN Bump(e[1], -1) ELSE UNCHANGED strongCount
-----------------------------------------------------------------------------
(* LockAcquireExtended, up to the first shared structure it looks at.      *)
FirstStep(p, mode) ==
  IF EligibleForRelationFastPath(mode) /\ FastPathLocalUseCount[p] < FP_LOCK_SLOTS_PER_BACKEND
  THEN "test"
  ELSE IF ConflictsWithRelationFastPath(mode) THEN "begin" ELSE "table"

LockAcquireExtended(p, e) ==
  /\ Idle(p)
  /\ e \in Wants[p] /\ requests[p] > 0
  /\ requests' = [requests EXCEPT ![p] = @ - 1]
  /\ IF locallock[p][e].n > 0
     THEN locallock' = [locallock EXCEPT ![p][e].n = @ + 1] /\ UNCHANGED call
     ELSE /\ call' = [call EXCEPT ![p] = [at |-> FirstStep(p, e[2]), e |-> e, i |-> 1, found |-> {}]]
          /\ UNCHANGED locallock
  /\ UNCHANGED <<tableVars, pc, timer, slotVars, strongCount, marked, twoPhase, steady>>

(* A weak locker looks at the counter, under its fpInfoLock.               *)
TestStrongLocks(p) ==
  /\ At(p, "test")
  /\ fpInfoLock[p] = NULL
  /\ IF strongCount[HashPartition[call[p].e[1]]] # 0
     THEN GoTo(p, "table") /\ UNCHANGED fpInfoLock
     ELSE GoTo(p, "grant") /\ fpInfoLock' = [fpInfoLock EXCEPT ![p] = p]
  /\ UNCHANGED <<vars, fpSlots, FastPathLocalUseCount, strongCount, locallock, marked,
                 twoPhase, steady>>

(* The slot that has the relation, or else the last free one.              *)
SlotFor(p, l) ==
  LET has == {f \in Slots : fpSlots[p][f].rel = l}
      free == {f \in Slots : fpSlots[p][f] = EmptySlot}
  IN IF has # {} THEN Min(has) ELSE IF free # {} THEN Max(free) ELSE 0

FastEntry(p, e) == [n |-> 1, ptr |-> FALSE, strong |-> FALSE]

FastPathGrantRelationLock(p) ==
  LET e == call[p].e
      f == SlotFor(p, e[1])
  IN /\ At(p, "grant")
     /\ fpInfoLock' = [fpInfoLock EXCEPT ![p] = NULL]
     /\ IF f = 0
        THEN GoTo(p, "table") /\ UNCHANGED <<fpSlots, FastPathLocalUseCount, locallock>>
        ELSE /\ fpSlots' = [fpSlots EXCEPT ![p][f] =
                              SetSlot(@, e[1], @.modes \union {e[2]})]
             /\ FastPathLocalUseCount' = [FastPathLocalUseCount EXCEPT ![p] =
                                            IF fpSlots[p][f] = EmptySlot THEN @ + 1 ELSE @]
             /\ Local(p, e, FastEntry(p, e))
             /\ Return(p)
     /\ UNCHANGED <<vars, strongCount, marked, twoPhase, steady>>

(* BeginStrongLockAcquire: from here on, no new fast-path lock.            *)
BeginStrongLockAcquire(p) ==
  /\ At(p, "begin")
  /\ Bump(call[p].e[1], 1)
  /\ locallock' = [locallock EXCEPT ![p][call[p].e].strong = TRUE]
  /\ GoTo(p, "transfer")
  /\ UNCHANGED <<vars, slotVars, marked, twoPhase, steady>>

(* The slots of q lose the modes of l, which go to the lock table; if the  *)
(* table fills up, only the first of them.                                 *)
MoveToTableMutant(q, l, modes) ==
  /\ held' = [held EXCEPT ![l][q] = @ \union modes]
  /\ UNCHANGED fpSlots
MoveToTable(q, l, modes) ==
  /\ held' = [held EXCEPT ![l][q] = @ \union modes]
  /\ fpSlots' = [fpSlots EXCEPT ![q] = [f \in Slots |->
                   IF @[f].rel = l THEN SetSlot(@[f], l, @[f].modes \ modes) ELSE @[f]]]

FirstOnes(modes) == {modes \intersect ToSet(SubSeq(AllModes, 1, k)) : k \in 0..8} \ {modes}

(* FastPathTransferRelationLocks, for one process.                         *)
FastPathTransferRelationLocks(p) ==
  LET q == allProcs[call[p].i]
      l == call[p].e[1]
  IN /\ At(p, "transfer")
     /\ fpInfoLock[q] = NULL
     /\ \/ /\ MoveToTable(q, l, FpModes(q, l))
           /\ call' = [call EXCEPT ![p] = IF @.i = Len(allProcs) THEN [@ EXCEPT !.at = "table"]
                                          ELSE [@ EXCEPT !.i = @ + 1]]
        \/ /\ "memory" \in Errors
           /\ \E modes \in FirstOnes(FpModes(q, l)) : MoveToTable(q, l, modes)
           /\ GoTo(p, "error")
     /\ UNCHANGED <<queue, want, waitStatus, pc, timer, requests, FastPathLocalUseCount,
                    strongCount, fpInfoLock, locallock, marked, twoPhase, steady>>

(* The request at the lock table: granted, or put to sleep, or given up.   *)
Outcome(p) ==
  LET e == call[p].e IN
  IF pc'[p] = "run"
  THEN Local(p, e, [locallock[p][e] EXCEPT !.n = 1, !.ptr = TRUE]) /\ Return(p)
  ELSE /\ Local(p, e, [locallock[p][e] EXCEPT !.ptr = TRUE])
       /\ GoTo(p, IF pc'[p] = "wait" THEN "wait" ELSE "error")

RequestLock(p) ==
  LET l == call[p].e[1]
      mode == call[p].e[2]
  IN /\ At(p, "table")
     /\ IF Conflict(mode, waitMask(l)) \/ LockCheckConflicts(mode, held[l], p)
        THEN ProcSleep(p, l, mode)
        ELSE Grant(p, l, mode)
     /\ Outcome(p)
     /\ UNCHANGED <<requests, slotVars, strongCount, marked, twoPhase, steady>>

(* SetupLockInTable finds no room.                                         *)
TableFull(p) ==
  /\ "memory" \in Errors
  /\ At(p, "table")
  /\ GoTo(p, "error")
  /\ UNCHANGED <<vars, slotVars, strongCount, locallock, marked, twoPhase, steady>>

WaitReturns(p) ==
  /\ At(p, "wait")
  /\ ProcSleepReturns(p)
  /\ Outcome(p)
  /\ UNCHANGED <<slotVars, strongCount, marked, twoPhase, steady>>

CheckDeadLockInWait(p) == At(p, "wait") /\ CheckDeadLock(p) /\ UNCHANGED fpVars

CancelWait(p) ==
  /\ p \in Cancels
  /\ At(p, "wait")
  /\ GoTo(p, "error")
  /\ UNCHANGED <<vars, slotVars, strongCount, locallock, marked, twoPhase, steady>>
-----------------------------------------------------------------------------
(* An error ends the call: LockErrorCleanup, in two steps.                 *)
AbortStrongLockAcquire(p) ==
  LET e == call[p].e IN
  IF e # NULL /\ locallock[p][e].strong /\ locallock[p][e].n = 0
  THEN Bump(e[1], -1) /\ locallock' = [locallock EXCEPT ![p][e].strong = FALSE]
  ELSE UNCHANGED <<strongCount, locallock>>

ErrorRaised(p) ==
  /\ At(p, "error")
  /\ AbortStrongLockAcquire(p)
  /\ GoTo(p, IF pc[p] = "wait" THEN "unwait" ELSE "caught")
  /\ UNCHANGED <<vars, slotVars, marked, twoPhase, steady>>

(* Off the queue, unless the lock was granted in the meantime.             *)
LeaveQueue(p) ==
  /\ At(p, "unwait")
  /\ IF want[p] # NULL
     THEN RemoveFromWaitQueue(p) /\ UNCHANGED locallock
     ELSE /\ UNCHANGED tableVars
          /\ IF waitStatus[p] = "OK" THEN locallock' = [locallock EXCEPT ![p][call[p].e].n = 1]
             ELSE UNCHANGED locallock
  /\ pc' = [pc EXCEPT ![p] = "end"]
  /\ timer' = [timer EXCEPT ![p] = FALSE]
  /\ GoTo(p, "caught")
  /\ UNCHANGED <<requests, slotVars, strongCount, marked, twoPhase, steady>>

Ending(kind) == [at |-> kind, e |-> NULL, i |-> 1, found |-> {}]

(* The transaction is aborted, or a subtransaction that catches the error, *)
(* with the lock it may have got.                                          *)
AfterError(p) ==
  /\ At(p, "caught")
  /\ IF p \in Catches /\ call[p].e # NULL
     THEN /\ pc' = [pc EXCEPT ![p] = "run"]
          /\ IF locallock[p][call[p].e].n = 0 THEN Return(p) /\ UNCHANGED locallock
             ELSE GoTo(p, "untable") /\ locallock' = [locallock EXCEPT ![p][call[p].e].n = 0]
     ELSE /\ pc' = [pc EXCEPT ![p] = "end"]
          /\ call' = [call EXCEPT ![p] = Ending("abort")]
          /\ UNCHANGED locallock
  /\ UNCHANGED <<tableVars, timer, requests, slotVars, strongCount, marked, twoPhase, steady>>
-----------------------------------------------------------------------------
(* LockRelease.                                                            *)
LockReleaseBegins(p, e) ==
  /\ Idle(p)
  /\ p \in Releasers
  /\ locallock[p][e].n > 0
  /\ locallock' = [locallock EXCEPT ![p][e].n = @ - 1]
  /\ IF locallock[p][e].n > 1 THEN UNCHANGED <<call, steady>>
     ELSE /\ call' = [call EXCEPT ![p] =
               [at |-> IF EligibleForRelationFastPath(e[2]) /\ FastPathLocalUseCount[p] > 0
                       THEN "unfast" ELSE "untable", e |-> e, i |-> 1, found |-> {}]]
          /\ steady' = [q \in Backends |-> steady[q] \ {p}]
  /\ UNCHANGED <<vars, slotVars, strongCount, marked, twoPhase>>

(* FastPathUnGrantRelationLock: the slots without the lock, and how many   *)
(* of them are in use.                                                     *)
FastPathUnGrantRelationLock(p, e) ==
  LET slots == [f \in Slots |-> IF fpSlots[p][f].rel = e[1]
                                THEN SetSlot(fpSlots[p][f], e[1], fpSlots[p][f].modes \ {e[2]})
                                ELSE fpSlots[p][f]]
  IN /\ fpSlots' = [fpSlots EXCEPT ![p] = slots]
     /\ FastPathLocalUseCount' = [FastPathLocalUseCount EXCEPT ![p] =
                                    Cardinality({f \in Slots : slots[f] # EmptySlot})]

ReleaseFast(p) ==
  LET e == call[p].e IN
  /\ At(p, "unfast")
  /\ fpInfoLock[p] = NULL
  /\ FastPathUnGrantRelationLock(p, e)
  /\ IF e[2] \in FpModes(p, e[1]) THEN RemoveLocalLock(p, e) /\ Return(p)
     ELSE GoTo(p, "untable") /\ UNCHANGED <<locallock, strongCount>>
  /\ UNCHANGED <<vars, fpInfoLock, marked, twoPhase, steady>>

(* The lock is in the table, perhaps because somebody moved it there.      *)
ReleaseInTable(p) ==
  LET e == call[p].e IN
  /\ At(p, "untable")
  /\ Release(p, e[1], {e[2]})
  /\ GoTo(p, "forget")
  /\ UNCHANGED <<pc, slotVars, strongCount, locallock, marked, twoPhase, steady>>

Forget(p) ==
  /\ At(p, "forget")
  /\ RemoveLocalLock(p, call[p].e)
  /\ Return(p)
  /\ UNCHANGED <<vars, slotVars, marked, twoPhase, steady>>
-----------------------------------------------------------------------------
(* The end of the transaction: LockReleaseAll.                             *)
Commit(p) ==
  /\ Idle(p)
  /\ pc' = [pc EXCEPT ![p] = "end"]
  /\ call' = [call EXCEPT ![p] = Ending("commit")]
  /\ UNCHANGED <<tableVars, timer, requests, slotVars, strongCount, locallock, marked, twoPhase,
                 steady>>

InReleaseAll(p) == At(p, "commit") \/ At(p, "abort")
Present(p) == {e \in Entries : locallock[p][e] # NoEntry}

(* One entry of the local table that is unused or points to its PROCLOCK.  *)
MarkEntry(p, e) ==
  /\ InReleaseAll(p)
  /\ e \in Present(p) /\ call[p].e = NULL
  /\ locallock[p][e].n = 0 \/ locallock[p][e].ptr
  /\ marked' = [marked EXCEPT ![p] = IF locallock[p][e].n > 0 THEN @ \union {e} ELSE @]
  /\ RemoveLocalLock(p, e)
  /\ UNCHANGED <<vars, slotVars, call, twoPhase, steady>>

(* One that was taken by the fast path: it is still there, or was moved.   *)
FastEntryEnds(p, e) ==
  /\ InReleaseAll(p)
  /\ e \in Present(p) /\ call[p].e = NULL
  /\ locallock[p][e].n > 0 /\ ~locallock[p][e].ptr
  /\ fpInfoLock[p] \in {NULL, p}
  /\ FastPathUnGrantRelationLock(p, e)
  /\ IF e[2] \in FpModes(p, e[1])
     THEN /\ RemoveLocalLock(p, e)
          /\ fpInfoLock' = [fpInfoLock EXCEPT ![p] = p]
          /\ UNCHANGED call
     ELSE /\ fpInfoLock' = [fpInfoLock EXCEPT ![p] = NULL]
          /\ call' = [call EXCEPT ![p].e = e]
          /\ UNCHANGED <<locallock, strongCount>>
  /\ UNCHANGED <<vars, marked, twoPhase, steady>>

(* LockRefindAndRelease for it.                                            *)
RefindAndRelease(p) ==
  LET e == call[p].e IN
  /\ InReleaseAll(p) /\ e # NULL
  /\ Release(p, e[1], {e[2]})
  /\ RemoveLocalLock(p, e)
  /\ call' = [call EXCEPT ![p].e = NULL]
  /\ UNCHANGED <<pc, slotVars, marked, twoPhase, steady>>

(* One partition: at an abort, whatever is held there.                     *)
ToRelease(p, l) == IF At(p, "abort") THEN held[l][p]
                   ELSE {mode \in Modes : <<l, mode>> \in marked[p]}

ReleasePartition(p, l) ==
  /\ InReleaseAll(p) /\ Present(p) = {}
  /\ ToRelease(p, l) # {}
  /\ Release(p, l, ToRelease(p, l))
  /\ marked' = [marked EXCEPT ![p] = {e \in @ : e[1] # l}]
  /\ fpInfoLock' = [fpInfoLock EXCEPT ![p] = NULL]
  /\ UNCHANGED <<pc, fpSlots, FastPathLocalUseCount, strongCount, locallock, call, twoPhase,
                 steady>>

TransactionEnds(p) ==
  /\ InReleaseAll(p) /\ Present(p) = {}
  /\ \A l \in Locks : ToRelease(p, l) = {}
  /\ pc' = [pc EXCEPT ![p] = "done"]
  /\ fpInfoLock' = [fpInfoLock EXCEPT ![p] = NULL]
  /\ marked' = [marked EXCEPT ![p] = {}]
  /\ Return(p)
  /\ UNCHANGED <<tableVars, timer, requests, fpSlots, FastPathLocalUseCount, strongCount,
                 locallock, twoPhase, steady>>
-----------------------------------------------------------------------------
(* PREPARE TRANSACTION.  AtPrepare_Locks makes a record of every lock,     *)
(* moves it to the table if it is not there, and keeps its strong count.   *)
Prepare(p) ==
  /\ Idle(p)
  /\ p \in DOMAIN DummyProc
  /\ call' = [call EXCEPT ![p] = Ending("prepare")]
  /\ UNCHANGED <<vars, slotVars, strongCount, locallock, marked, twoPhase, steady>>

Unrecorded(p) == {e \in Entries : locallock[p][e].n > 0} \ twoPhase[DummyProc[p]]

(* FastPathGetRelationLockEntry.                                           *)
FastPathGetRelationLockEntry(p, e) ==
  /\ fpInfoLock[p] = NULL
  /\ MoveToTable(p, e[1], FpModes(p, e[1]) \intersect {e[2]})

KeepStrongCount(p, e) == Local(p, e, [locallock[p][e] EXCEPT !.ptr = TRUE, !.strong = FALSE])

AtPrepareLock(p, e) ==
  /\ At(p, "prepare") /\ e \in Unrecorded(p)
  /\ IF locallock[p][e].ptr THEN UNCHANGED <<held, fpSlots>>
     ELSE FastPathGetRelationLockEntry(p, e)
  /\ KeepStrongCount(p, e)
  /\ twoPhase' = [twoPhase EXCEPT ![DummyProc[p]] = @ \union {e}]
  /\ UNCHANGED <<queue, want, waitStatus, pc, timer, requests, FastPathLocalUseCount, strongCount,
                 fpInfoLock, call, marked, steady>>

(* A later step of PrepareTransaction fails.                               *)
PrepareFails(p) ==
  /\ "prepare" \in Errors
  /\ At(p, "prepare")
  /\ twoPhase' = [twoPhase EXCEPT ![DummyProc[p]] = {}]
  /\ call' = [call EXCEPT ![p] = Ending("error")]
  /\ UNCHANGED <<vars, slotVars, strongCount, locallock, marked, steady>>

(* PostPrepare_Locks: the local table, then partition by partition.        *)
PostPrepare(p) ==
  /\ At(p, "prepare") /\ Unrecorded(p) = {}
  /\ locallock' = [locallock EXCEPT ![p] = [e \in Entries |-> NoEntry]]
  /\ marked' = [marked EXCEPT ![p] = twoPhase[DummyProc[p]]]
  /\ strongCount' = [h \in DOMAIN strongCount |-> strongCount[h] -
       Cardinality({e \in Entries : locallock[p][e].strong /\ HashPartition[e[1]] = h})]
  /\ GoTo(p, "post")
  /\ UNCHANGED <<vars, slotVars, twoPhase, steady>>

HandOver(p, l) ==
  /\ At(p, "post")
  /\ held[l][p] # {}
  /\ held' = [held EXCEPT ![l][p] = {}, ![l][DummyProc[p]] = held[l][p]]
  /\ marked' = [marked EXCEPT ![p] = {e \in @ : e[1] # l}]
  /\ UNCHANGED <<queue, want, waitStatus, pc, timer, requests, slotVars, strongCount, locallock,
                 call, twoPhase, steady>>

Prepared(p) ==
  /\ At(p, "post") /\ marked[p] = {}
  /\ pc' = [pc EXCEPT ![p] = "done", ![DummyProc[p]] = "end"]
  /\ Return(p)
  /\ UNCHANGED <<tableVars, timer, requests, slotVars, strongCount, locallock, marked, twoPhase,
                 steady>>

(* COMMIT PREPARED or ROLLBACK PREPARED: lock_twophase_postcommit.         *)
PostCommit(d, e) ==
  /\ pc[d] = "end" /\ e \in twoPhase[d]
  /\ IF e[2] \in held[e[1]][d]
     THEN Release(d, e[1], {e[2]}) /\ UNCHANGED <<strongCount, twoPhase>>
     ELSE /\ IF ConflictsWithRelationFastPath(e[2]) THEN Bump(e[1], -1) ELSE UNCHANGED strongCount
          /\ twoPhase' = [twoPhase EXCEPT ![d] = @ \ {e}]
          /\ UNCHANGED <<tableVars, timer, requests>>
  /\ UNCHANGED <<pc, slotVars, locallock, call, marked, steady>>
-----------------------------------------------------------------------------
(* GetLockConflicts: who holds a lock that conflicts?  First the fast-path *)
(* slots of each process, then the table.  A prepared transaction has the  *)
(* virtual transaction id it had before.                                   *)
Vxid(q) == IF q \in Backends THEN q ELSE CHOOSE p \in DOMAIN DummyProc : DummyProc[p] = q
VxidIsValid(q) == q \notin Backends \/ pc[q] \in {"run", "wait"}
Holding(q, e) == /\ VxidIsValid(q)
                 /\ Conflict(e[2], held[e[1]][q] \union
                                     IF q \in Backends THEN FpModes(q, e[1]) ELSE {})

Releasing(q) == q \in Backends /\ (At(q, "unfast") \/ At(q, "untable") \/ At(q, "caught"))

ScanStepMutant(mode) == "look"
ScanStep(mode) == IF ConflictsWithRelationFastPath(mode) THEN "scan" ELSE "look"

GetLockConflicts(p, e) ==
  /\ Idle(p)
  /\ e \in Scans[p] /\ requests[p] > 0
  /\ requests' = [requests EXCEPT ![p] = @ - 1]
  /\ call' = [call EXCEPT ![p] = [at |-> ScanStep(e[2]), e |-> e, i |-> 1, found |-> {}]]
  /\ steady' = [steady EXCEPT ![p] =
       {Vxid(q) : q \in {r \in Procs \ {p} : Holding(r, e) /\ ~Releasing(r)}}]
  /\ UNCHANGED <<tableVars, pc, timer, slotVars, strongCount, locallock, marked, twoPhase>>

ScanSlots(p) ==
  LET q == allProcs[call[p].i]
      e == call[p].e
      hit == q # p /\ VxidIsValid(q) /\ Conflict(e[2], FpModes(q, e[1]))
  IN /\ At(p, "scan")
     /\ fpInfoLock[q] = NULL \/ q = p
     /\ call' = [call EXCEPT ![p] =
          [@ EXCEPT !.found = IF hit THEN @ \union {q} ELSE @,
                    !.at = IF call[p].i = Len(allProcs) THEN "look" ELSE "scan",
                    !.i = IF @ = Len(allProcs) THEN @ ELSE @ + 1]]
     /\ UNCHANGED <<vars, slotVars, strongCount, locallock, marked, twoPhase, steady>>

LookInTable(p) ==
  LET e == call[p].e IN
  /\ At(p, "look")
  /\ call' = [call EXCEPT ![p].at = "found", ![p].found = @ \union
       {Vxid(q) : q \in {r \in Procs \ {p} : VxidIsValid(r) /\ Conflict(e[2], held[e[1]][r])}}]
  /\ UNCHANGED <<vars, slotVars, strongCount, locallock, marked, twoPhase, steady>>

ConflictsReturned(p) ==
  /\ At(p, "found")
  /\ Return(p)
  /\ steady' = [steady EXCEPT ![p] = {}]
  /\ UNCHANGED <<vars, slotVars, strongCount, locallock, marked, twoPhase>>
-----------------------------------------------------------------------------
FpInit ==
  /\ Init
  /\ fpSlots = [p \in Backends |-> [f \in Slots |-> EmptySlot]]
  /\ FastPathLocalUseCount = [p \in Backends |-> 0]
  /\ strongCount = [h \in {HashPartition[l] : l \in Locks} |-> 0]
  /\ fpInfoLock = [p \in Backends |-> NULL]
  /\ locallock = [p \in Backends |-> [e \in Entries |-> NoEntry]]
  /\ call = [p \in Backends |-> NULL]
  /\ marked = [p \in Backends |-> {}]
  /\ twoPhase = [d \in Procs \ Backends |-> {}]
  /\ steady = [p \in Backends |-> {}]

(* What a process does on its own account, and inside a call.              *)
NewCall(p) ==
  \/ \E e \in Entries : LockAcquireExtended(p, e) \/ LockReleaseBegins(p, e)
                          \/ GetLockConflicts(p, e)
  \/ Prepare(p)
  \/ CancelWait(p)

Works(p) ==
  \/ TestStrongLocks(p) \/ FastPathGrantRelationLock(p) \/ BeginStrongLockAcquire(p)
  \/ FastPathTransferRelationLocks(p) \/ RequestLock(p) \/ TableFull(p)
  \/ WaitReturns(p)
  \/ ErrorRaised(p) \/ LeaveQueue(p) \/ AfterError(p)
  \/ ReleaseFast(p) \/ ReleaseInTable(p) \/ Forget(p)
  \/ Commit(p) \/ RefindAndRelease(p) \/ TransactionEnds(p)
  \/ \E e \in Entries : MarkEntry(p, e) \/ FastEntryEnds(p, e) \/ AtPrepareLock(p, e)
  \/ \E l \in Locks : ReleasePartition(p, l) \/ HandOver(p, l)
  \/ PrepareFails(p) \/ PostPrepare(p) \/ Prepared(p)
  \/ ScanSlots(p) \/ LookInTable(p) \/ ConflictsReturned(p)

Resolve(d) == \E e \in Entries : PostCommit(d, e)

FpDone == /\ \A p \in Backends : pc[p] = "done"
          /\ \A d \in DOMAIN twoPhase : twoPhase[d] = {}

FpNext ==
  \/ \E p \in Backends : NewCall(p) \/ Works(p) \/ CheckDeadLockInWait(p)
  \/ \E d \in Procs \ Backends : Resolve(d)
  \/ FpDone /\ UNCHANGED allVars

FpSpec == FpInit /\ [][FpNext]_allVars

-----------------------------------------------------------------------------
(* The modes that p's transaction may rely on: not while it fails or ends. *)
Owned(p, l) ==
  IF p \notin Backends \/ At(p, "post") THEN held[l][p]
  ELSE IF pc[p] = "end" \/ At(p, "error") \/ At(p, "unwait") THEN {}
  ELSE {mode \in Modes : locallock[p][<<l, mode>>].n > 0}

(* Whether it was granted in the slots of a process or in the table, no    *)
(* two transactions own conflicting locks: a weak locker that saw the      *)
(* counter at zero is found by the strong locker's transfer.               *)
WeakExcludesStrong ==
  \A l \in Locks, p \in Procs : \A q \in Procs \ {p} :
    \A mode \in Owned(p, l) : ~Conflict(mode, Owned(q, l))

InSlots(p, e) == e[2] \in FpModes(p, e[1])
InTable(p, e) == e[2] \in held[e[1]][p]

(* A lock that the local table counts, or whose release is under way, is   *)
(* in the slots or in the table, never in both and never in neither: the   *)
(* errors "failed to re-find shared lock object" (lock.c:2125, 3154) are   *)
(* not reached, though others move locks at any time.                      *)
InOnePlace ==
  \A p \in Backends, e \in Entries :
    \/ locallock[p][e].n > 0
    \/ call[p] # NULL /\ call[p].e = e /\ call[p].at \in {"unfast", "untable", "commit", "abort"}
    => InSlots(p, e) # InTable(p, e)

(* GetLockConflicts reports everybody who held a conflicting lock all the  *)
(* time, also if the lock was moved to the table, or handed to a prepared  *)
(* transaction, while it looked.                                           *)
ConflictsAreFound ==
  \A p \in Backends : At(p, "found") =>
    \A v \in steady[p] :
      (\E q \in Procs \ {p} : Vxid(q) = v /\ Holding(q, call[p].e)) => v \in call[p].found

=============================================================================
