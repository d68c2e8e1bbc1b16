------------------------------ MODULE TwoPhase ------------------------------
(***************************************************************************)
(* Prepared transactions, access/transam/twophase.c, with the callers that *)
(* decide whether they survive a crash: PrepareTransaction (xact.c), the   *)
(* checkpoint and the recovery from the last one (xlog.c).                 *)
(*                                                                         *)
(* A step of a backend or of the checkpointer is one critical section of   *)
(* TwoPhaseStateLock, one WAL insertion or flush, or one access to a field *)
(* without the lock.  LSNs are positions in `wal'.  State data are         *)
(* reduced to the xid and the GID; subtransactions, locks and files to     *)
(* drop are not followed.                                                  *)
(***************************************************************************)
EXTENDS Naturals, Sequences, FiniteSets, SequencesExt

CONSTANTS Backends, Gids, NULL,
          max_prepared_xacts,
          MaxXid,            \* bound: transactions
          MaxCheckpoints,    \* bound: checkpoints that are requested
          MaxCrashes,        \* bound: crashes
          MaxWork            \* bound: xids in use, checkpoints and crashes together

Xids == 1 .. MaxXid
Slots == 1 .. max_prepared_xacts

ASSUME TwoPhaseAssumption ==
  /\ {max_prepared_xacts, MaxXid, MaxCheckpoints, MaxCrashes, MaxWork} \subseteq Nat
  /\ NULL \notin Backends \union Gids

VARIABLES
  \* in shared memory
  gxact, prepXacts, freeGXacts, dummyProcs, nextXid, pg_xact,
  \* on disk
  wal, flushed, pg_xactOnDisk, pg_twophase, synced, control, gidOf,
  \* of a backend
  pc, xid, mine, isCommit, delayChkpt,
  \* of the checkpointer and of the startup process
  ck, checkPoint, delaying, state, at,
  \* history and bounds
  told,          \* what a client was told of a transaction last
  anomalies,     \* of recovery: <<"doubled" | "revived" | "reused", xid>>
  checkpoints, crashes

table   == <<gxact, prepXacts, freeGXacts>>
shared  == <<dummyProcs, nextXid, pg_xact>>
log     == <<wal, flushed>>
files   == <<pg_twophase, synced>>
disk    == <<pg_xactOnDisk, control, gidOf>>
backend == <<pc, xid, mine, isCommit, delayChkpt>>
checkpointer == <<ck, checkPoint, delaying, checkpoints>>
startup == <<state, at>>
history == <<told, anomalies, crashes>>
vars == <<table, shared, log, files, disk, backend, checkpointer, startup, history>>

Entry == [xid |-> 0, gid |-> NULL, valid |-> FALSE, ondisk |-> FALSE,
          inredo |-> FALSE, locking |-> NULL, start |-> 0, end |-> 0]

(* TwoPhaseShmemInit, and backends that have just started.                 *)
NoEntries == [s \in Slots |-> Entry]
AllFree == SetToSeq(Slots)
Each(v) == [b \in Backends |-> v]

Init ==
  /\ gxact = NoEntries /\ prepXacts = <<>> /\ freeGXacts = AllFree
  /\ dummyProcs = {}
  /\ pc = Each("idle") /\ xid = Each(0) /\ mine = Each(0)
  /\ isCommit = Each(FALSE) /\ delayChkpt = Each(FALSE)
  /\ ck = "idle" /\ delaying = {}
  /\ nextXid = 1
  /\ pg_xact = [x \in Xids |-> "none"] /\ pg_xactOnDisk = pg_xact
  /\ wal = <<>> /\ flushed = 0
  /\ pg_twophase = {} /\ synced = {}
  /\ control = [redo |-> 0, nextXid |-> 1] /\ checkPoint = control
  /\ gidOf = [x \in Xids |-> NULL]
  /\ state = "up" /\ at = 0
  /\ told = [x \in Xids |-> "none"]
  /\ anomalies = {}
  /\ checkpoints = 0 /\ crashes = 0

(* A bound: the xids in use, the checkpoints asked for and the crashes.    *)
MoreWork == nextXid + checkpoints + crashes <= MaxWork

Goto(b, step) == pc' = [pc EXCEPT ![b] = step]
At(b, step) == state = "up" /\ pc[b] = step

XLogInsert(type, x) == wal' = Append(wal, <<type, x>>)
XLogFlush == flushed' = Len(wal)
Done(x) == pg_xact[x] # "none"

(* Where the entries in slots S are in prepXacts, and the slots of an xid.  *)
Where(S) == {i \in DOMAIN prepXacts : prepXacts[i] \in S}
OfXid(x) == {s \in Slots : gxact[s].xid = x}
First(S) == CHOOSE i \in S : \A j \in S : i <= j

(* The last entry of the array takes the place of the one that goes.       *)
RemoveGXact(i) ==
  LET last == Len(prepXacts) IN
  /\ prepXacts' = SubSeq([prepXacts EXCEPT ![i] = prepXacts[last]], 1, last - 1)
  /\ freeGXacts' = <<prepXacts[i]>> \o freeGXacts

ProcArrayAdd(s) == dummyProcs' = dummyProcs \union {s}

PositionOf(s) == CHOOSE i \in DOMAIN prepXacts : prepXacts[i] = s
-----------------------------------------------------------------------------
(* A transaction gets an xid, perhaps one that a crash has made free again *)
(* after pg_xact had a status of it on disk.                               *)
Begin(b) ==
  /\ At(b, "idle") /\ nextXid <= MaxXid /\ MoreWork
  /\ xid' = [xid EXCEPT ![b] = nextXid]
  /\ nextXid' = nextXid + 1
  /\ Goto(b, "inxact")
  /\ anomalies' = anomalies \union
       IF pg_xactOnDisk[nextXid] = "none" THEN {} ELSE {<<"reused", nextXid>>}
  /\ UNCHANGED <<table, dummyProcs, pg_xact, log, files, disk, mine, isCommit,
                 delayChkpt, checkpointer, startup, told, crashes>>

(* The transaction fails before it is prepared: RecordTransactionAbort.    *)
(* Its record is not flushed.                                              *)
Abort(b) ==
  /\ XLogInsert("fail", xid[b])
  /\ pg_xact' = [pg_xact EXCEPT ![xid[b]] = "aborted"]
  /\ xid' = [xid EXCEPT ![b] = 0]
  /\ Goto(b, "idle")

GidInUse(g) == Where({s \in Slots : gxact[s].gid = g}) # {}

MarkAsPreparing(b, g) ==
  /\ At(b, "inxact")
  /\ \/ /\ GidInUse(g) \/ freeGXacts = <<>>
        /\ Abort(b)
        /\ UNCHANGED <<table, disk, mine>>
     \/ /\ ~GidInUse(g) /\ freeGXacts # <<>>
        /\ LET s == Head(freeGXacts) IN
           /\ gxact' = [gxact EXCEPT ![s] =
                [@ EXCEPT !.xid = xid[b], !.gid = g, !.valid = FALSE,
                          !.ondisk = FALSE, !.inredo = FALSE, !.locking = b]]
           /\ mine' = [mine EXCEPT ![b] = s]
           /\ prepXacts' = Append(prepXacts, s)
        /\ freeGXacts' = Tail(freeGXacts)
        /\ gidOf' = [gidOf EXCEPT ![xid[b]] = g]
        /\ Goto(b, "preparing")
        /\ UNCHANGED <<pg_xact, xid, wal, pg_xactOnDisk, control>>
  /\ UNCHANGED <<dummyProcs, nextXid, flushed, files, isCommit, delayChkpt,
                 checkpointer, startup, history>>

AtAbort_Twophase(b) ==
  IF gxact[mine[b]].valid
  THEN gxact' = [gxact EXCEPT ![mine[b]].locking = NULL]
       /\ UNCHANGED <<prepXacts, freeGXacts>>
  ELSE RemoveGXact(PositionOf(mine[b])) /\ UNCHANGED gxact

(* An error before EndPrepare; while COMMIT PREPARED has nothing done yet; *)
(* or while it drops files after everything is decided.                    *)
Error(b) ==
  /\ \E step \in {"preparing", "readFile", "readWal", "remove"} : At(b, step)
  /\ AtAbort_Twophase(b)
  /\ IF pc[b] = "preparing" THEN Abort(b)
     ELSE Goto(b, "idle") /\ UNCHANGED <<pg_xact, xid, wal>>
  /\ mine' = [mine EXCEPT ![b] = 0]
  /\ UNCHANGED <<dummyProcs, nextXid, flushed, files, disk, isCommit, delayChkpt,
                 checkpointer, startup, history>>

(* EndPrepare: delayChkpt, then the record, which other backends may also  *)
(* flush; the flush; the entry becomes valid and its PGPROC appears; a     *)
(* checkpoint may go on.                                                   *)
InsertPrepare(b) ==
  /\ At(b, "preparing")
  /\ delayChkpt' = [delayChkpt EXCEPT ![b] = TRUE]
  /\ XLogInsert("prepare", xid[b])
  /\ gxact' = [gxact EXCEPT ![mine[b]].end = Len(wal')]
  /\ Goto(b, "flushPrepare")
  /\ UNCHANGED <<prepXacts, freeGXacts, shared, flushed, files, disk, xid, mine,
                 isCommit, checkpointer, startup, history>>

FlushPrepare(b) ==
  /\ At(b, "flushPrepare")
  /\ XLogFlush
  /\ gxact' = [gxact EXCEPT ![mine[b]].start = gxact[mine[b]].end]
  /\ Goto(b, "mark")
  /\ UNCHANGED <<prepXacts, freeGXacts, shared, wal, files, disk, xid, mine,
                 isCommit, delayChkpt, checkpointer, startup, history>>

MarkAsPrepared(b) ==
  /\ At(b, "mark")
  /\ gxact' = [gxact EXCEPT ![mine[b]].valid = TRUE]
  /\ ProcArrayAdd(mine[b])
  /\ delayChkpt' = [delayChkpt EXCEPT ![b] = FALSE]
  /\ delaying' = delaying \ {b}
  /\ Goto(b, "clear")
  /\ UNCHANGED <<prepXacts, freeGXacts, nextXid, pg_xact, log, files, disk, xid,
                 mine, isCommit, ck, checkPoint, checkpoints, startup, history>>

(* PostPrepare_Locks is not followed; ProcArrayClearTransaction.           *)
ProcArrayClearTransaction(b) ==
  /\ At(b, "clear")
  /\ xid' = [xid EXCEPT ![b] = 0]
  /\ Goto(b, "post")
  /\ UNCHANGED <<table, shared, log, files, disk, mine, isCommit, delayChkpt,
                 checkpointer, startup, history>>

PostPrepare_Twophase(b) ==
  /\ At(b, "post")
  /\ gxact' = [gxact EXCEPT ![mine[b]].locking = NULL]
  /\ told' = [told EXCEPT ![gxact[mine[b]].xid] = "prepared"]
  /\ mine' = [mine EXCEPT ![b] = 0]
  /\ Goto(b, "idle")
  /\ UNCHANGED <<prepXacts, freeGXacts, shared, log, files, disk, xid, isCommit,
                 delayChkpt, checkpointer, startup, anomalies, crashes>>
-----------------------------------------------------------------------------
(* FinishPreparedTransaction.  The first valid entry with the GID counts;  *)
(* an error if there is none or if it is busy changes nothing.             *)
LockGXact(b, g) ==
  LET found == Where({k \in Slots : gxact[k].valid /\ gxact[k].gid = g})
      s     == prepXacts[First(found)]
  IN /\ At(b, "idle")
     /\ found # {} /\ gxact[s].locking = NULL
     /\ gxact' = [gxact EXCEPT ![s].locking = b]
     /\ mine' = [mine EXCEPT ![b] = s]
     /\ \E c \in BOOLEAN : isCommit' = [isCommit EXCEPT ![b] = c]
     /\ Goto(b, "readDisk")
     /\ UNCHANGED <<prepXacts, freeGXacts, shared, log, files, disk, xid,
                    delayChkpt, checkpointer, startup, history>>

(* Is the state on disk?  Looked up without the lock.                      *)
ReadState(b) ==
  /\ At(b, "readDisk")
  /\ Goto(b, IF gxact[mine[b]].ondisk THEN "readFile" ELSE "readWal")
  /\ UNCHANGED <<table, shared, log, files, disk, xid, mine, isCommit, delayChkpt,
                 checkpointer, startup, history>>

ReadTwoPhaseFile(b) ==
  /\ At(b, "readFile")
  /\ gxact[mine[b]].xid \in pg_twophase
  /\ Goto(b, "record")
  /\ UNCHANGED <<table, shared, log, files, disk, xid, mine, isCommit, delayChkpt,
                 checkpointer, startup, history>>

(* If not, where is its record?  Again without the lock; if there is no    *)
(* record to read that is an error.                                        *)
XlogReadTwoPhaseData(b) ==
  /\ At(b, "readWal")
  /\ gxact[mine[b]].start # 0
  /\ Goto(b, "record")
  /\ UNCHANGED <<table, shared, log, files, disk, xid, mine, isCommit, delayChkpt,
                 checkpointer, startup, history>>

Outcome(b) == IF isCommit[b] THEN "commit" ELSE "abort"
Status(b) == IF isCommit[b] THEN "committed" ELSE "aborted"

(* A bug that would delay them for nobody.                                 *)
DelaysMutant(b) == FALSE

(* Only a commit delays checkpoints.                                       *)
Delays(b) == isCommit[b]

(* RecordTransactionCommitPrepared and RecordTransactionAbortPrepared: the *)
(* record, the flush, pg_xact.                                             *)
InsertOutcome(b) ==
  /\ At(b, "record")
  /\ isCommit[b] \/ pg_xact[gxact[mine[b]].xid] # "committed"   \* else PANIC
  /\ delayChkpt' = [delayChkpt EXCEPT ![b] = Delays(b)]
  /\ XLogInsert(Outcome(b), gxact[mine[b]].xid)
  /\ Goto(b, "flushOutcome")
  /\ UNCHANGED <<table, shared, flushed, files, disk, xid, mine, isCommit,
                 checkpointer, startup, history>>

FlushOutcome(b) ==
  /\ At(b, "flushOutcome")
  /\ XLogFlush
  /\ Goto(b, "setStatus")
  /\ UNCHANGED <<table, shared, wal, files, disk, xid, mine, isCommit, delayChkpt,
                 checkpointer, startup, history>>

SetStatus(b) ==
  /\ At(b, "setStatus")
  /\ pg_xact' = [pg_xact EXCEPT ![gxact[mine[b]].xid] = Status(b)]
  /\ delayChkpt' = [delayChkpt EXCEPT ![b] = FALSE]
  /\ delaying' = delaying \ {b}
  /\ Goto(b, "procArray")
  /\ UNCHANGED <<table, dummyProcs, nextXid, log, files, disk, xid, mine,
                 isCommit, ck, checkPoint, checkpoints, startup, history>>

(* The PGPROC goes, and the entry becomes invalid, without the lock.       *)
ProcArrayRemove(b) ==
  /\ At(b, "procArray")
  /\ dummyProcs' = dummyProcs \ {mine[b]}
  /\ gxact' = [gxact EXCEPT ![mine[b]].valid = FALSE]
  /\ Goto(b, "remove")
  /\ UNCHANGED <<prepXacts, freeGXacts, nextXid, pg_xact, log, files, disk, xid,
                 mine, isCommit, delayChkpt, checkpointer, startup, history>>

(* The callbacks, and the entry is free again.  The xid is remembered.     *)
FreeEntry(b) ==
  /\ At(b, "remove")
  /\ RemoveGXact(PositionOf(mine[b]))
  /\ xid' = [xid EXCEPT ![b] = gxact[mine[b]].xid]
  /\ Goto(b, "removeFile")
  /\ UNCHANGED <<gxact, shared, log, files, disk, mine, isCommit, delayChkpt,
                 checkpointer, startup, history>>

(* ondisk is looked up again, although the entry may be another's by now.  *)
RemoveTwoPhaseFile(b) ==
  /\ At(b, "removeFile")
  /\ pg_twophase' = IF gxact[mine[b]].ondisk THEN pg_twophase \ {xid[b]}
                    ELSE pg_twophase
  /\ told' = [told EXCEPT ![xid[b]] = Status(b)]
  /\ mine' = [mine EXCEPT ![b] = 0]
  /\ xid' = [xid EXCEPT ![b] = 0]
  /\ Goto(b, "idle")
  /\ UNCHANGED <<table, shared, log, synced, disk, isCommit, delayChkpt,
                 checkpointer, startup, anomalies, crashes>>
-----------------------------------------------------------------------------
CkGoto(step) == ck' = step

(* CreateCheckPoint: the redo point; the next xid; the backends to wait    *)
(* for; pg_xact; the state files; their directory; the record; pg_control. *)
CkRedo ==
  /\ ck = "idle"
  /\ \/ state = "up" /\ checkpoints < MaxCheckpoints /\ MoreWork
        /\ checkpoints' = checkpoints + 1
     \/ state = "endCheckpoint" /\ UNCHANGED checkpoints
  /\ checkPoint' = [checkPoint EXCEPT !.redo = Len(wal)]
  /\ CkGoto("nextXid")
  /\ UNCHANGED <<table, shared, log, files, disk, backend, delaying, startup,
                 history>>

(* A bug that would not wait for those in their critical sections.         *)
DelayingMutant == {}

Delaying == {b \in Backends : delayChkpt[b]}

CkNextXid ==
  /\ ck = "nextXid"
  /\ checkPoint' = [checkPoint EXCEPT !.nextXid = nextXid]
  /\ delaying' = Delaying
  /\ CkGoto("wait")
  /\ UNCHANGED <<table, shared, log, files, disk, backend, checkpoints, startup,
                 history>>

CheckPointCLOG ==
  /\ ck = "wait" /\ delaying = {}
  /\ pg_xactOnDisk' = pg_xact
  /\ CkGoto("twoPhase")
  /\ UNCHANGED <<table, shared, log, files, control, gidOf, backend, checkPoint,
                 delaying, checkpoints, startup, history>>

ToSerialize(e) == /\ e.valid \/ e.inredo
                  /\ ~e.ondisk
                  /\ e.end <= checkPoint.redo

CheckPointTwoPhase ==
  LET done == {prepXacts[i] : i \in Where({s \in Slots : ToSerialize(gxact[s])})} IN
  /\ ck = "twoPhase"
  /\ gxact' = [s \in Slots |->
       IF s \in done
       THEN [gxact[s] EXCEPT !.ondisk = TRUE, !.start = 0, !.end = 0]
       ELSE gxact[s]]
  /\ pg_twophase' = pg_twophase \union {gxact[s].xid : s \in done}
  /\ CkGoto("sync")
  /\ UNCHANGED <<prepXacts, freeGXacts, shared, log, synced, disk, backend,
                 checkPoint, delaying, checkpoints, startup, history>>

(* fsync_fname of the directory: what was made or removed is durable.      *)
CkSync ==
  /\ ck = "sync"
  /\ synced' = pg_twophase
  /\ CkGoto("record")
  /\ UNCHANGED <<table, shared, log, pg_twophase, disk, backend, checkPoint,
                 delaying, checkpoints, startup, history>>

CkRecord ==
  /\ ck = "record"
  /\ XLogInsert("checkpoint", checkPoint.nextXid)
  /\ flushed' = Len(wal')
  /\ CkGoto("control")
  /\ UNCHANGED <<table, shared, files, disk, backend, checkPoint, delaying,
                 checkpoints, startup, history>>

(* WAL before the redo point may be removed from now on.                   *)
UpdateControlFile ==
  /\ ck = "control"
  /\ control' = checkPoint
  /\ CkGoto("idle")
  /\ IF state = "endCheckpoint" THEN state' = "trim" ELSE UNCHANGED state
  /\ UNCHANGED <<table, shared, at, log, files, pg_xactOnDisk, gidOf, backend,
                 checkPoint, delaying, checkpoints, history>>

Checkpointing ==
  \/ CkRedo \/ CkNextXid \/ CheckPointCLOG \/ CheckPointTwoPhase \/ CkSync
  \/ CkRecord \/ UpdateControlFile
-----------------------------------------------------------------------------
(* Memory is lost, and of the disk what was not made durable may be.       *)
Crash ==
  /\ crashes < MaxCrashes /\ MoreWork
  /\ crashes' = crashes + 1
  /\ \E n \in flushed .. Len(wal) : wal' = SubSeq(wal, 1, n) /\ flushed' = n
  /\ \E kept \in SUBSET ((pg_twophase \union synced) \ (pg_twophase \intersect synced)) :
       pg_twophase' = (pg_twophase \intersect synced) \union kept
  /\ synced' = pg_twophase'
  /\ gxact' = NoEntries /\ prepXacts' = <<>> /\ freeGXacts' = AllFree
  /\ dummyProcs' = {}
  /\ pc' = Each("idle") /\ xid' = Each(0) /\ mine' = Each(0)
  /\ isCommit' = Each(FALSE) /\ delayChkpt' = Each(FALSE)
  /\ ck' = "idle" /\ delaying' = {}
  /\ pg_xact' = pg_xactOnDisk
  /\ nextXid' = control.nextXid
  /\ checkPoint' = control
  /\ state' = "restore" /\ at' = 0
  /\ UNCHANGED <<disk, checkpoints, told, anomalies>>

(* What ProcessTwoPhaseBuffer drops: finished, or later than the horizon.  *)
Stale(x) == Done(x) \/ x >= nextXid

(* For the history: was the outcome of x written before the redo point?    *)
Finished(x) == \E i \in 1 .. Len(wal) : wal[i] \in {<<"commit", x>>, <<"abort", x>>}
Lost(x) == \E i \in 1 .. control.redo : wal[i] \in {<<"commit", x>>, <<"abort", x>>}

FromDisk(x) == [Entry EXCEPT !.xid = x, !.gid = gidOf[x], !.ondisk = TRUE,
                             !.inredo = TRUE]

restoreTwoPhaseData ==
  LET good == {x \in pg_twophase : ~Stale(x)}
      xids == SetToSortSeq(good, <)
      n    == Len(xids)
  IN /\ state = "restore"
     /\ pg_twophase' = good
     /\ IF n > Len(freeGXacts)
        THEN state' = "failed" /\ UNCHANGED <<table, at>>
        ELSE /\ prepXacts' = SubSeq(freeGXacts, 1, n)
             /\ freeGXacts' = SubSeq(freeGXacts, n + 1, Len(freeGXacts))
             /\ gxact' = [s \in Slots |->
                  IF \E i \in 1 .. n : freeGXacts[i] = s
                  THEN FromDisk(xids[CHOOSE i \in 1 .. n : freeGXacts[i] = s])
                  ELSE gxact[s]]
             /\ state' = "redo" /\ at' = control.redo + 1
     /\ anomalies' = anomalies \union
          {<<"revived", x>> : x \in {y \in good : Lost(y)}}
     /\ UNCHANGED <<shared, log, synced, disk, backend, checkpointer, told, crashes>>

(* The redo of a PREPARE makes an entry, without a look whether there is   *)
(* one from disk.                                                          *)
PrepareRedoAdd(x) ==
  IF freeGXacts = <<>>
  THEN state' = "failed" /\ UNCHANGED <<table, at, anomalies>>
  ELSE /\ gxact' = [gxact EXCEPT ![Head(freeGXacts)] =
            [Entry EXCEPT !.xid = x, !.gid = gidOf[x], !.inredo = TRUE,
                          !.start = at, !.end = at]]
       /\ prepXacts' = Append(prepXacts, Head(freeGXacts))
       /\ freeGXacts' = Tail(freeGXacts)
       /\ anomalies' = anomalies \union
            IF Where(OfXid(x)) = {} THEN {} ELSE {<<"doubled", x>>}
       /\ at' = at + 1 /\ UNCHANGED state

(* The first entry of the xid goes, and its file.                          *)
PrepareRedoRemove(x) ==
  LET found == Where(OfXid(x)) IN
  IF found = {} THEN UNCHANGED <<prepXacts, freeGXacts, pg_twophase>>
  ELSE /\ RemoveGXact(First(found))
       /\ pg_twophase' = IF gxact[prepXacts[First(found)]].ondisk
                         THEN pg_twophase \ {x} ELSE pg_twophase

Later(x) == IF x >= nextXid THEN x + 1 ELSE nextXid

(* xact_redo and xlog_redo, a record a step.                               *)
Redo ==
  LET type == wal[at][1]
      x    == wal[at][2]
  IN /\ state = "redo" /\ at <= Len(wal)
     /\ \/ /\ type = "prepare"
           /\ PrepareRedoAdd(x)
           /\ nextXid' = Later(x)
           /\ UNCHANGED <<pg_xact, pg_twophase>>
        \/ /\ type \in {"commit", "abort"}
           /\ pg_xact' = [pg_xact EXCEPT
                            ![x] = IF type = "commit" THEN "committed" ELSE "aborted"]
           /\ PrepareRedoRemove(x)
           /\ nextXid' = Later(x)
           /\ at' = at + 1
           /\ UNCHANGED <<gxact, state, anomalies>>
        \/ /\ type = "fail"
           /\ pg_xact' = [pg_xact EXCEPT ![x] = "aborted"]
           /\ nextXid' = Later(x)
           /\ at' = at + 1
           /\ UNCHANGED <<table, pg_twophase, state, anomalies>>
        \/ /\ type = "checkpoint"
           /\ nextXid' = IF x > nextXid THEN x ELSE nextXid
           /\ at' = at + 1
           /\ UNCHANGED <<table, pg_xact, pg_twophase, state, anomalies>>
     /\ UNCHANGED <<dummyProcs, log, synced, disk, backend, checkpointer, told,
                    crashes>>

RedoDone ==
  /\ state = "redo" /\ at = Len(wal) + 1
  /\ state' = "prescan" /\ at' = 1
  /\ UNCHANGED <<table, shared, log, files, disk, backend, checkpointer, history>>

(* ProcessTwoPhaseBuffer, for an entry: a stale one goes from memory or    *)
(* from disk, one that cannot be read is an error.                         *)
Readable(e) == IF e.ondisk THEN e.xid \in pg_twophase ELSE e.start # 0

DropStale(e) ==
  /\ IF e.ondisk
     THEN /\ pg_twophase' = pg_twophase \ {e.xid}
          /\ UNCHANGED <<prepXacts, freeGXacts>>
     ELSE PrepareRedoRemove(e.xid)
  /\ UNCHANGED gxact

(* PrescanPreparedTransactions, then RecoverPreparedTransactions after the *)
(* checkpoint at the end of recovery.                                      *)
Scan ==
  LET e == gxact[prepXacts[at]] IN
  /\ state \in {"prescan", "recover"}
  /\ \/ /\ at > Len(prepXacts)
        /\ state' = IF state = "prescan" THEN "endCheckpoint" ELSE "up"
        /\ UNCHANGED <<table, dummyProcs, pg_twophase, at>>
     \/ /\ at <= Len(prepXacts) /\ Stale(e.xid)
        /\ DropStale(e)
        /\ at' = at + 1
        /\ UNCHANGED <<dummyProcs, state>>
     \/ /\ at <= Len(prepXacts) /\ ~Stale(e.xid) /\ Readable(e)
        /\ IF state = "prescan" THEN UNCHANGED <<gxact, dummyProcs>>
           ELSE /\ gxact' = [gxact EXCEPT ![prepXacts[at]] =
                     [@ EXCEPT !.valid = TRUE, !.inredo = FALSE, !.locking = NULL]]
                /\ ProcArrayAdd(prepXacts[at])
        /\ at' = at + 1
        /\ UNCHANGED <<prepXacts, freeGXacts, pg_twophase, state>>
     \/ /\ at <= Len(prepXacts) /\ ~Stale(e.xid) /\ ~Readable(e)
        /\ state' = "failed"
        /\ UNCHANGED <<table, dummyProcs, pg_twophase, at>>
  /\ UNCHANGED <<nextXid, pg_xact, log, synced, disk, backend, checkpointer, history>>

Trimmed == [x \in Xids |-> IF x >= nextXid THEN "none" ELSE pg_xact[x]]

(* After the checkpoint at the end of recovery, in memory only.            *)
TrimCLOG ==
  /\ state = "trim"
  /\ pg_xact' = Trimmed
  /\ state' = "recover" /\ at' = 1
  /\ UNCHANGED <<table, dummyProcs, nextXid, log, files, disk, backend,
                 checkpointer, history>>

Recovering == restoreTwoPhaseData \/ Redo \/ RedoDone \/ Scan \/ TrimCLOG
-----------------------------------------------------------------------------
Prepare(b) ==
  \/ Begin(b) \/ \E g \in Gids : MarkAsPreparing(b, g)
  \/ InsertPrepare(b) \/ FlushPrepare(b) \/ MarkAsPrepared(b)
  \/ ProcArrayClearTransaction(b) \/ PostPrepare_Twophase(b)

FinishPreparedTransaction(b) ==
  \/ \E g \in Gids : LockGXact(b, g)
  \/ ReadState(b) \/ ReadTwoPhaseFile(b) \/ XlogReadTwoPhaseData(b)
  \/ InsertOutcome(b) \/ FlushOutcome(b) \/ SetStatus(b)
  \/ ProcArrayRemove(b) \/ FreeEntry(b) \/ RemoveTwoPhaseFile(b)

Next ==
  \/ \E b \in Backends : Prepare(b) \/ FinishPreparedTransaction(b) \/ Error(b)
  \/ Checkpointing \/ Crash \/ Recovering

Spec == Init /\ [][Next]_vars
-----------------------------------------------------------------------------
Met(kind, x) == <<kind, x>> \in anomalies
Entries(x) == Cardinality(Where({s \in OfXid(x) : gxact[s].valid}))

(* What a client was told to be prepared is there, valid and once, until   *)
(* somebody finishes it, and is gone when they were told so: also after    *)
(* crashes, checkpoints and failed calls.  The code keeps this promise but *)
(* for three things that recovery may meet, each of them for the xid it    *)
(* meets and no other:                                                     *)
(* - "doubled": the file of a checkpoint that did not complete, and the    *)
(*   record it was made from, give an entry each (PrepareRedoAdd does not  *)
(*   look for the other), so there may be one too many, never none;        *)
(* - "revived": a checkpoint that began after the record of a ROLLBACK     *)
(*   PREPARED and took pg_xact before its status was there (only commits   *)
(*   set delayChkpt) leaves a file whose removal a crash may undo;         *)
(* - "reused": a failed transaction whose status was on disk before its    *)
(*   record, so that its xid is given out again.  TrimCLOG clears the      *)
(*   status in memory only, and a second crash finds it and drops the      *)
(*   transaction that has the xid now.                                     *)
PreparedIsKept ==
  state = "up" =>
    \A x \in Xids :
      /\ told[x] = "prepared" /\ ~Finished(x) /\ ~Met("reused", x) =>
           /\ Entries(x) > 0
           /\ ~Met("doubled", x) => Entries(x) = 1
      /\ told[x] \in {"committed", "aborted"} =>
           \/ Entries(x) = 0
           \/ Met("doubled", x)
           \/ told[x] = "aborted" /\ Met("revived", x)

(* A COMMIT PREPARED that a client was told of is never lost.              *)
CommittedStays ==
  state = "up" =>
    \A x \in Xids : told[x] = "committed" => pg_xact[x] = "committed"

=============================================================================
