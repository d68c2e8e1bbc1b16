----------------------------- MODULE WalInsert ------------------------------
(***************************************************************************)
(* Insertion into the write-ahead log and its way to disk, xlog.c: space   *)
(* is reserved under a spinlock, records are copied in parallel under one  *)
(* of a few insertion locks, buffers are reused in a ring, and whoever     *)
(* wants the log on disk waits for the insertions, takes WALWriteLock and  *)
(* writes for all.  A step is one spinlock section, one access to an       *)
(* insertion lock, one memcpy or one write.  What a page holds is the set  *)
(* of positions with their right contents; -s stands for the note in the   *)
(* header of the page at s that a record goes on there.                    *)
(***************************************************************************)
EXTENDS WalPos, FiniteSetsExt

CONSTANTS Backends, NULL,
          WalWriters,             \* the WAL writer, or nobody before it is started
          NUM_XLOGINSERT_LOCKS,
          XLogBuffers,            \* wal_buffers, in pages
          SizeOfXLogRecord,       \* size of a log switch record
          FirstLock,              \* the insertion lock a backend tries first
          Records,                \* what a backend inserts: kind and size
          MaxRecords,             \* how many of them
          CommitDelay,            \* whether commit_delay is set
          EndOfLog,               \* where the log ended at startup, in usable bytes
          LOOPS_UNTIL_HIBERNATE

VARIABLES
  CurrBytePos, insertLock, insertingAt,           \* XLogCtl->Insert
  xlblocks, pages, InitializedUpTo,               \* the buffers
  LogwrtRqst, LogwrtResult, asyncXactLSN,         \* LogwrtRqst.Write; Write and Flush
  WALBufMappingLock, WALWriteLock,
  orWait,         \* who sleeps in LWLockAcquireOrWait
  file, disk,     \* what is in the files, and what of it survives a crash
  WalWriterSleeping, latch, left_till_hibernate,
  pc, reg,        \* where a process is, and the locals of what it does
  my,             \* the statics of a process: lockToTry, cachedPage, LogwrtResult
  made,           \* how many records a backend has inserted
  reserved,       \* history: the records, from where to where
  pending         \* history: async commits, and how often the WAL writer came by

shared == <<CurrBytePos, reserved>>
lockVars == <<insertLock, insertingAt>>
bufVars == <<xlblocks, pages, InitializedUpTo, WALBufMappingLock>>
resultVars == <<LogwrtRqst, LogwrtResult>>
fileVars == <<file, disk>>
writerVars == <<WalWriterSleeping, latch, left_till_hibernate>>
asyncVars == <<asyncXactLSN, pending>>
vars == <<shared, lockVars, bufVars, resultVars, asyncVars, WALWriteLock, orWait, fileVars,
          writerVars, pc, reg, my, made>>

Procs == Backends \union WalWriters
LockNos == 0..NUM_XLOGINSERT_LOCKS - 1
LastLock == NUM_XLOGINSERT_LOCKS - 1
PG_UINT64_MAX == 10000
MaxCycles == 4    \* the history counts cycles up to this
StartPtr == XLogBytePosToEndRecPtr(EndOfLog)
NoReg == [kind |-> NULL, size |-> 0, lockno |-> 0, start |-> 0, dataend |-> 0, end |-> 0,
          cur |-> 0, goal |-> 0, upto |-> 0, i |-> 0, seen |-> 0, fin |-> 0,
          write |-> 0, flush |-> 0, flexible |-> FALSE, now |-> FALSE, ret |-> NULL]

ASSUME WalInsertAssumption ==
  /\ NUM_XLOGINSERT_LOCKS \in Nat \ {0} /\ XLogBuffers \in Nat \ {0}
  /\ SizeOfXLogRecord \in Nat \ {0} /\ EndOfLog \in Nat \ {0}
  /\ FirstLock \in [Backends -> LockNos]
  /\ WalWriters \intersect Backends = {}
  /\ XLogBytePosToEndRecPtr(EndOfLog) >= wal_segment_size

BufIdx(ptr) == PageOf(ptr) % XLogBuffers
PageEnd(ptr) == PageStart(ptr) + XLOG_BLCKSZ
GoTo(p, at) == pc' = [pc EXCEPT ![p] = at]
Set(p, r) == reg' = [reg EXCEPT ![p] = r]
Done(p) == GoTo(p, IF p \in WalWriters THEN "adv" ELSE "idle") /\ Set(p, NoReg)
ReadResult(p) == my' = [my EXCEPT ![p].Write = LogwrtResult.Write,
                                  ![p].Flush = LogwrtResult.Flush]
-----------------------------------------------------------------------------
InsertBegins(p) ==
  /\ pc[p] = "idle"
  /\ made[p] < MaxRecords[p]
  /\ made' = [made EXCEPT ![p] = @ + 1]
  /\ \E r \in Records[p] :
       /\ Set(p, [NoReg EXCEPT !.kind = r[1], !.size = r[2]])
       /\ GoTo(p, IF r[1] = "switch" THEN "lockall" ELSE "lock")
  /\ UNCHANGED <<shared, lockVars, bufVars, resultVars, asyncVars, WALWriteLock, orWait,
                 fileVars, writerVars, my>>

Take(p, i) == insertLock[i] = NULL /\ insertLock' = [insertLock EXCEPT ![i] = p]

(* WALInsertLockAcquire: if the lock is not free at once, another one is   *)
(* tried the next time.                                                    *)
WALInsertLockAcquire(p) ==
  LET i == my[p].lock IN
  /\ \/ pc[p] = "lock" /\ Take(p, i) /\ UNCHANGED my /\ GoTo(p, "reserve")
     \/ /\ pc[p] = "lock" /\ insertLock[i] # NULL
        /\ GoTo(p, "queued") /\ UNCHANGED <<insertLock, my>>
     \/ /\ pc[p] = "queued" /\ Take(p, i) /\ GoTo(p, "reserve")
        /\ my' = [my EXCEPT ![p].lock = (i + 1) % NUM_XLOGINSERT_LOCKS]
  /\ Set(p, [reg[p] EXCEPT !.lockno = i])
  /\ UNCHANGED <<shared, insertingAt, bufVars, resultVars, asyncVars, WALWriteLock, orWait,
                 fileVars, writerVars, made>>

(* WALInsertLockAcquireExclusive: all of them, one after the other, each   *)
(* but the last with a position nobody waits for.                          *)
MarkedLocks == LockNos \ {LastLock}

WALInsertLockAcquireExclusive(p) ==
  LET i == reg[p].i IN
  /\ \/ /\ pc[p] = "lockall" /\ Take(p, i) /\ UNCHANGED insertingAt
        /\ IF i \in MarkedLocks THEN GoTo(p, "mark") /\ UNCHANGED reg
           ELSE GoTo(p, "reserve") /\ Set(p, [reg[p] EXCEPT !.i = 0, !.lockno = i])
     \/ /\ pc[p] = "mark" /\ UNCHANGED insertLock
        /\ insertingAt' = [insertingAt EXCEPT ![i] = PG_UINT64_MAX]
        /\ IF i < LastLock THEN GoTo(p, "lockall") /\ Set(p, [reg[p] EXCEPT !.i = i + 1])
           ELSE GoTo(p, "reserve") /\ Set(p, [reg[p] EXCEPT !.i = 0, !.lockno = i])
  /\ UNCHANGED <<shared, bufVars, resultVars, asyncVars, WALWriteLock, orWait, fileVars,
                 writerVars, my, made>>

ReserveXLogInsertLocation(p) ==
  LET e == CurrBytePos + reg[p].size IN
  /\ CurrBytePos' = e
  /\ Set(p, [reg[p] EXCEPT !.start = XLogBytePosToRecPtr(CurrBytePos),
                           !.cur = XLogBytePosToRecPtr(CurrBytePos),
                           !.dataend = XLogBytePosToEndRecPtr(e),
                           !.end = XLogBytePosToEndRecPtr(e)])
  /\ GoTo(p, "buffer")

(* ReserveXLogSwitch: the rest of the segment, unless it is empty.         *)
RestOfSegment(ptr) == IF ptr % wal_segment_size = 0 THEN 0
                      ELSE wal_segment_size - (ptr % wal_segment_size)

ReserveXLogSwitch(p) ==
  LET ptr == XLogBytePosToEndRecPtr(CurrBytePos)
      e == XLogBytePosToEndRecPtr(CurrBytePos + SizeOfXLogRecord)
      end == e + RestOfSegment(e)
  IN IF ptr % wal_segment_size = 0
     THEN /\ Set(p, [reg[p] EXCEPT !.start = ptr, !.end = ptr])
          /\ GoTo(p, "release")
          /\ UNCHANGED CurrBytePos
     ELSE /\ CurrBytePos' = XLogRecPtrToBytePos(end)
          /\ Set(p, [reg[p] EXCEPT !.start = XLogBytePosToRecPtr(CurrBytePos),
                                   !.cur = XLogBytePosToRecPtr(CurrBytePos),
                                   !.dataend = e, !.end = end])
          /\ GoTo(p, "buffer")

Reserve(p) ==
  /\ pc[p] = "reserve"
  /\ IF reg[p].kind = "switch" THEN ReserveXLogSwitch(p) ELSE ReserveXLogInsertLocation(p)
  /\ reserved' = IF CurrBytePos' = CurrBytePos THEN reserved
                 ELSE reserved \union {[from |-> reg'[p].start, to |-> reg'[p].dataend]}
  /\ UNCHANGED <<lockVars, bufVars, resultVars, asyncVars, WALWriteLock, orWait, fileVars,
                 writerVars, my, made>>
-----------------------------------------------------------------------------
(* GetXLogBuffer: the page of the position, which may have to be set up.   *)
HasPage(ptr) == xlblocks[BufIdx(ptr)] = PageEnd(ptr)

KnowsPage(p, ptr) == my[p].cached = PageOf(ptr) \/ HasPage(ptr)

GetXLogBuffer(p) ==
  LET ptr == reg[p].cur IN
  /\ pc[p] = "buffer"
  /\ IF KnowsPage(p, ptr)
     THEN GoTo(p, "copy") /\ my' = [my EXCEPT ![p].cached = PageOf(ptr)]
     ELSE GoTo(p, "advertise") /\ UNCHANGED my
  /\ UNCHANGED <<shared, lockVars, bufVars, resultVars, asyncVars, WALWriteLock, orWait,
                 fileVars, writerVars, reg, made>>

(* How far the inserter is done: it answers for the page header, too.      *)
initializedUpto(ptr) ==
  IF ptr % XLOG_BLCKSZ = SizeOfXLogShortPHD /\ ptr % wal_segment_size > XLOG_BLCKSZ
  THEN ptr - SizeOfXLogShortPHD
  ELSE IF ptr % XLOG_BLCKSZ = SizeOfXLogLongPHD /\ ptr % wal_segment_size < XLOG_BLCKSZ
  THEN ptr - SizeOfXLogLongPHD
  ELSE ptr

WALInsertLockUpdateInsertingAt(p) ==
  /\ pc[p] = "advertise"
  /\ insertingAt' = [insertingAt EXCEPT ![reg[p].lockno] = initializedUpto(reg[p].cur)]
  /\ GoTo(p, "map")
  /\ UNCHANGED <<shared, insertLock, bufVars, resultVars, asyncVars, WALWriteLock, orWait,
                 fileVars, writerVars, reg, my, made>>

LockMapping(p) ==
  /\ pc[p] \in {"map", "adv"}
  /\ WALBufMappingLock = NULL
  /\ WALBufMappingLock' = p
  /\ GoTo(p, "mapped")
  /\ UNCHANGED <<shared, lockVars, xlblocks, pages, InitializedUpTo, resultVars, asyncVars,
                 WALWriteLock, orWait, fileVars, writerVars, reg, my, made>>

(* AdvanceXLInsertBuffer, one turn of its loop.  The WAL writer sets up    *)
(* pages as long as it need not write any.                                 *)
Advanced(p) == p \notin WalWriters /\ reg[p].cur < InitializedUpTo
OldPage == xlblocks[BufIdx(InitializedUpTo)]
HeaderAt(ptr) == ptr..ptr + PageHeader(ptr) - 1

IsWritten(p) == my[p].Write >= OldPage

NewPage(p) ==
  /\ pc[p] = "mapped" /\ ~Advanced(p)
  /\ IsWritten(p)
  /\ xlblocks' = [xlblocks EXCEPT ![BufIdx(InitializedUpTo)] = PageEnd(InitializedUpTo)]
  /\ pages' = [pages EXCEPT ![BufIdx(InitializedUpTo)] = HeaderAt(InitializedUpTo)]
  /\ InitializedUpTo' = InitializedUpTo + XLOG_BLCKSZ
  /\ UNCHANGED <<shared, lockVars, WALBufMappingLock, resultVars, asyncVars, WALWriteLock,
                 orWait, fileVars, writerVars, pc, reg, my, made>>

(* The old page is not known to be written: look again, then write it.     *)
EvictPage(p) ==
  /\ pc[p] = "mapped" /\ ~Advanced(p)
  /\ p \notin WalWriters /\ ~IsWritten(p)
  /\ LogwrtRqst' = Max({LogwrtRqst, OldPage})
  /\ ReadResult(p)
  /\ IF LogwrtResult.Write >= OldPage THEN UNCHANGED <<WALBufMappingLock, pc, reg>>
     ELSE /\ WALBufMappingLock' = NULL
          /\ Set(p, [reg[p] EXCEPT !.write = OldPage, !.upto = OldPage, !.ret = "evict"])
          /\ GoTo(p, "wait")
  /\ UNCHANGED <<shared, lockVars, xlblocks, pages, InitializedUpTo, LogwrtResult, asyncVars,
                 WALWriteLock, orWait, fileVars, writerVars, made>>

AdvanceEnds(p) ==
  /\ pc[p] = "mapped"
  /\ Advanced(p) \/ (p \in WalWriters /\ ~IsWritten(p))
  /\ WALBufMappingLock' = NULL
  /\ GoTo(p, IF p \in WalWriters THEN "worked" ELSE "remap")
  /\ UNCHANGED <<shared, lockVars, xlblocks, pages, InitializedUpTo, resultVars, asyncVars,
                 WALWriteLock, orWait, fileVars, writerVars, reg, my, made>>

GotXLogBuffer(p) ==
  /\ pc[p] = "remap"
  /\ IF HasPage(reg[p].cur)
     THEN GoTo(p, "copy") /\ my' = [my EXCEPT ![p].cached = PageOf(reg[p].cur)]
     ELSE GoTo(p, "panic") /\ UNCHANGED my
  /\ UNCHANGED <<shared, lockVars, bufVars, resultVars, asyncVars, WALWriteLock, orWait,
                 fileVars, writerVars, reg, made>>
-----------------------------------------------------------------------------
(* CopyXLogRecordToWAL, one page: what of the record goes there, with the  *)
(* note that it goes on; behind a switch record, the page is zeroed.       *)
PagePart(r) ==
  LET last == Min({r.dataend, PageEnd(r.cur)}) - 1
  IN {q \in r.cur..last : ~InHeader(q)}
       \union IF r.cur = PageStart(r.cur) THEN {-r.cur} ELSE {}

CopyXLogRecordToWAL(p) ==
  LET r == reg[p]
      padding == r.cur >= r.dataend
      more == r.dataend > PageEnd(r.cur)
      pads == r.kind = "switch" /\ r.dataend % wal_segment_size # 0
      next == IF more \/ pads THEN PageEnd(r.cur) ELSE r.dataend
  IN /\ pc[p] = "copy"
     /\ pages' = [pages EXCEPT ![BufIdx(r.cur)] = IF padding THEN {} ELSE @ \union PagePart(r)]
     /\ Set(p, [r EXCEPT !.cur = next])
     /\ GoTo(p, IF more \/ (pads /\ next < r.end) THEN "buffer"
                ELSE IF next = r.end THEN "release" ELSE "panic")
     /\ UNCHANGED <<shared, lockVars, xlblocks, InitializedUpTo, WALBufMappingLock, resultVars,
                    asyncVars, WALWriteLock, orWait, fileVars, writerVars, my, made>>

(* WALInsertLockRelease; who holds all the locks releases one by one.      *)
WALInsertLockRelease(p) ==
  LET all == reg[p].kind = "switch"
      i == IF all THEN reg[p].i ELSE reg[p].lockno
  IN /\ pc[p] = "release"
     /\ insertLock' = [insertLock EXCEPT ![i] = NULL]
     /\ insertingAt' = [insertingAt EXCEPT ![i] = 0]
     /\ IF all /\ i < LastLock THEN Set(p, [reg[p] EXCEPT !.i = i + 1]) /\ UNCHANGED pc
        ELSE GoTo(p, "request") /\ UNCHANGED reg
     /\ UNCHANGED <<shared, bufVars, resultVars, asyncVars, WALWriteLock, orWait, fileVars,
                    writerVars, my, made>>

(* The end of XLogInsertRecord, and what the caller does with the record.  *)
XLogInsertRecordEnds(p) ==
  LET r == reg[p] IN
  /\ pc[p] = "request"
  /\ IF PageOf(r.start) # PageOf(r.end)
     THEN LogwrtRqst' = Max({LogwrtRqst, r.end}) /\ ReadResult(p)
     ELSE UNCHANGED <<LogwrtRqst, my>>
  /\ IF r.kind = "none" THEN Done(p)
     ELSE /\ Set(p, [NoReg EXCEPT !.kind = r.kind, !.start = r.start, !.dataend = r.dataend,
                                  !.goal = r.end])
          /\ GoTo(p, IF r.kind = "async" THEN "async" ELSE "flush")
  /\ UNCHANGED <<shared, lockVars, bufVars, LogwrtResult, asyncVars, WALWriteLock, orWait,
                 fileVars, writerVars, made>>
-----------------------------------------------------------------------------
(* WaitXLogInsertionsToFinish(upto), which leaves its result in fin.       *)
ReadInsertPos(p) ==
  LET reservedUpto == XLogBytePosToEndRecPtr(CurrBytePos) IN
  /\ pc[p] = "wait"
  /\ Set(p, [reg[p] EXCEPT !.upto = Min({@, reservedUpto}), !.fin = reservedUpto])
  /\ GoTo(p, "waiting")
  /\ UNCHANGED <<shared, lockVars, bufVars, resultVars, asyncVars, WALWriteLock, orWait,
                 fileVars, writerVars, my, made>>

BackOutMutant(fin, insertingat) == fin
BackOut(fin, insertingat) == Min({fin, insertingat})

StillInserting(at, upto) == at < upto

NextLock(p, fin) ==
  IF reg[p].i = LastLock
  THEN /\ Set(p, [reg[p] EXCEPT !.i = 0, !.seen = 0, !.fin = fin, !.ret = NULL])
       /\ GoTo(p, reg[p].ret)
  ELSE Set(p, [reg[p] EXCEPT !.i = @ + 1, !.seen = 0, !.fin = fin]) /\ UNCHANGED pc

(* LWLockWaitForVar returns when the lock is free or the position new.     *)
WaitForInsertion(p) ==
  LET r == reg[p]
      at == insertingAt[r.i]
  IN /\ pc[p] = "waiting"
     /\ \/ insertLock[r.i] = NULL /\ NextLock(p, r.fin)
        \/ /\ insertLock[r.i] # NULL /\ at # r.seen
           /\ IF StillInserting(at, r.upto) THEN Set(p, [r EXCEPT !.seen = at]) /\ UNCHANGED pc
              ELSE NextLock(p, BackOut(r.fin, at))
     /\ UNCHANGED <<shared, lockVars, bufVars, resultVars, asyncVars, WALWriteLock, orWait,
                    fileVars, writerVars, my, made>>
-----------------------------------------------------------------------------
(* WALWriteLock: its release wakes all who wait in LWLockAcquireOrWait.    *)
ReleaseWrite == WALWriteLock' = NULL /\ orWait' = {}
HoldWrite(p) == WALWriteLock' = p /\ UNCHANGED orWait

(* AdvanceXLInsertBuffer takes the lock, and writes if nobody has.         *)
EvictWrite(p) ==
  /\ pc[p] = "evict" /\ WALWriteLock = NULL
  /\ ReadResult(p)
  /\ IF LogwrtResult.Write >= reg[p].write
     THEN /\ ReleaseWrite /\ GoTo(p, "map")
          /\ Set(p, [reg[p] EXCEPT !.write = 0, !.upto = 0, !.fin = 0])
     ELSE /\ HoldWrite(p) /\ GoTo(p, "write")
          /\ Set(p, [reg[p] EXCEPT !.ret = "map", !.upto = 0, !.fin = 0])
  /\ UNCHANGED <<shared, lockVars, bufVars, resultVars, asyncVars, fileVars, writerVars, made>>

(* XLogWrite, one group of pages: up to the last one wanted, the end of    *)
(* the ring of buffers or the end of the segment, whose file is synced.    *)
(* A page is written where its buffer says it ends.                        *)
EndPtr(n) == xlblocks[n % XLogBuffers]

EndsGroup(n, rqst) ==
  \/ EndPtr(n) >= rqst
  \/ n % XLogBuffers = XLogBuffers - 1
  \/ EndPtr(n) % wal_segment_size = 0
LastOfGroup(from, rqst) == Min({n \in from..from + XLogBuffers : EndsGroup(n, rqst)})
PositionsOf(n) == LET s == n * XLOG_BLCKSZ IN (s..s + XLOG_BLCKSZ - 1) \union {-s}
SegmentOf(ptr) ==
  LET n == (ptr - 1) \div wal_segment_size
      pagesPer == wal_segment_size \div XLOG_BLCKSZ
  IN UNION {PositionsOf(k) : k \in n * pagesPer..(n + 1) * pagesPer - 1}
FinishingSeg(end, rqst) == end <= rqst /\ end % wal_segment_size = 0

WrittenUpto(end, rqst) == Min({end, rqst})

WriteGroup(p) ==
  LET r == reg[p]
      first == PageOf(my[p].Write)
      last == LastOfGroup(first, r.write)
      end == EndPtr(last)
      before(n) == IF n = first THEN my[p].Write ELSE EndPtr(n - 1)
      held == UNION {pages[n % XLogBuffers] : n \in first..last}
      gone == UNION {PositionsOf(PageOf(EndPtr(n) - 1)) : n \in first..last} \ held
      finishing == FinishingSeg(end, r.write)
  IN /\ pc[p] = "write" /\ my[p].Write < r.write
     /\ IF \E n \in first..last : before(n) >= EndPtr(n)
        THEN GoTo(p, "panic") /\ UNCHANGED <<fileVars, my>>
        ELSE /\ file' = (file \ gone) \union held
             /\ disk' = IF finishing THEN (disk \ SegmentOf(end)) \union (file' \intersect SegmentOf(end))
                        ELSE disk \ gone
             /\ my' = [my EXCEPT ![p].Write = WrittenUpto(end, r.write),
                                 ![p].Flush = IF finishing THEN end ELSE @]
             /\ IF r.flexible \/ end >= r.write THEN GoTo(p, "sync") ELSE UNCHANGED pc
     /\ UNCHANGED <<shared, lockVars, bufVars, resultVars, asyncVars, WALWriteLock, orWait,
                    writerVars, reg, made>>

NothingToWrite(p) ==
  /\ pc[p] = "write" /\ my[p].Write >= reg[p].write
  /\ GoTo(p, "sync")
  /\ UNCHANGED <<shared, lockVars, bufVars, resultVars, asyncVars, WALWriteLock, orWait,
                 fileVars, writerVars, reg, my, made>>

(* The file of the last page written is synced if that was asked for.      *)
MustSync(p) == my[p].Flush < reg[p].flush /\ my[p].Flush < my[p].Write

SyncFile(p) ==
  LET seg == SegmentOf(my[p].Write) IN
  /\ pc[p] = "sync"
  /\ IF MustSync(p)
     THEN /\ disk' = (disk \ seg) \union (file \intersect seg)
          /\ my' = [my EXCEPT ![p].Flush = my[p].Write]
     ELSE UNCHANGED <<disk, my>>
  /\ GoTo(p, "publish")
  /\ UNCHANGED <<shared, lockVars, bufVars, resultVars, asyncVars, WALWriteLock, orWait,
                 file, writerVars, reg, made>>

Unflushed(flush) == {e \in pending : e.lsn > flush}

XLogWriteEnds(p) ==
  /\ pc[p] = "publish"
  /\ LogwrtResult' = [Write |-> my[p].Write, Flush |-> my[p].Flush]
  /\ LogwrtRqst' = Max({LogwrtRqst, my[p].Write})
  /\ pending' = Unflushed(my[p].Flush)
  /\ ReleaseWrite
  /\ GoTo(p, reg[p].ret)
  /\ Set(p, [reg[p] EXCEPT !.write = 0, !.flush = 0, !.flexible = FALSE, !.upto = 0,
                           !.fin = 0, !.ret = NULL])
  /\ UNCHANGED <<shared, lockVars, bufVars, asyncXactLSN, fileVars, writerVars, my, made>>
-----------------------------------------------------------------------------
(* After its flush a log switch returns the end of its record, which its   *)
(* transaction, having no id, asks the WAL writer to flush.                *)
SwitchEnd(r) ==
  LET end == r.start + SizeOfXLogRecord IN
  IF r.dataend = 0 THEN r.goal
  ELSE IF PageOf(r.start) = PageOf(end) THEN end
  ELSE IF end % wal_segment_size = end % XLOG_BLCKSZ THEN end + SizeOfXLogLongPHD
  ELSE end + SizeOfXLogShortPHD

FlushDone(p) ==
  IF reg[p].kind = "switch"
  THEN Set(p, [NoReg EXCEPT !.kind = "async", !.goal = SwitchEnd(reg[p])]) /\ GoTo(p, "async")
  ELSE Done(p)

(* XLogFlush(goal).                                                        *)
XLogFlush(p) ==
  LET goal == reg[p].goal IN
  /\ \/ pc[p] = "flush" /\ goal <= my[p].Flush /\ FlushDone(p) /\ UNCHANGED my
     \/ pc[p] = "flush" /\ goal > my[p].Flush /\ GoTo(p, "fread") /\ UNCHANGED <<reg, my>>
     \/ /\ pc[p] = "fread" /\ ReadResult(p)
        /\ IF goal <= LogwrtResult.Flush THEN FlushDone(p)
           ELSE /\ Set(p, [reg[p] EXCEPT !.upto = Max({goal, LogwrtRqst}), !.ret = "fwrite"])
                /\ GoTo(p, "wait")
     \/ pc[p] = "orwait" /\ p \notin orWait /\ GoTo(p, "fread") /\ UNCHANGED <<reg, my>>
     \/ /\ pc[p] = "flushed" /\ UNCHANGED my
        /\ IF my[p].Flush < goal THEN GoTo(p, "error") /\ UNCHANGED reg ELSE FlushDone(p)
  /\ UNCHANGED <<shared, lockVars, bufVars, resultVars, asyncVars, WALWriteLock, orWait,
                 fileVars, writerVars, made>>

(* LWLockAcquireOrWait, and the check once the lock is held.               *)
FlushWrite(p) ==
  /\ pc[p] = "fwrite"
  /\ IF WALWriteLock # NULL
     THEN /\ orWait' = orWait \union {p}
          /\ Set(p, [reg[p] EXCEPT !.upto = 0, !.fin = 0])
          /\ GoTo(p, "orwait") /\ UNCHANGED <<WALWriteLock, my>>
     ELSE /\ ReadResult(p)
          /\ IF reg[p].goal <= LogwrtResult.Flush THEN ReleaseWrite /\ FlushDone(p)
             ELSE /\ HoldWrite(p)
                  /\ IF CommitDelay
                     THEN /\ Set(p, [reg[p] EXCEPT !.upto = reg[p].fin, !.ret = "delayed"])
                          /\ GoTo(p, "wait")
                     ELSE GoTo(p, "delayed") /\ UNCHANGED reg
  /\ UNCHANGED <<shared, lockVars, bufVars, resultVars, asyncVars, fileVars, writerVars, made>>

FlushRequest(r) ==
  [r EXCEPT !.write = r.fin, !.flush = r.fin, !.upto = 0, !.fin = 0, !.ret = "flushed"]

FlushWrites(p) ==
  /\ pc[p] = "delayed"
  /\ Set(p, FlushRequest(reg[p]))
  /\ GoTo(p, "write")
  /\ UNCHANGED <<shared, lockVars, bufVars, resultVars, asyncVars, WALWriteLock, orWait,
                 fileVars, writerVars, my, made>>

NudgeMutant(ptr) == PageStart(ptr) > LogwrtResult.Flush

(* XLogSetAsyncXactLSN(goal): the WAL writer is woken when it may be about *)
(* to hibernate, or when there are complete pages to flush.                *)
Nudge(ptr) == WalWriterSleeping \/ PageStart(ptr) > LogwrtResult.Flush

XLogSetAsyncXactLSN(p) ==
  LET lsn == reg[p].goal IN
  /\ pc[p] = "async"
  /\ ReadResult(p)
  /\ asyncXactLSN' = Max({asyncXactLSN, lsn})
  /\ pending' = pending \union (IF lsn > LogwrtResult.Flush THEN {[lsn |-> lsn, n |-> 0]} ELSE {})
  /\ IF Nudge(lsn) THEN GoTo(p, "nudge") /\ UNCHANGED reg ELSE Done(p)
  /\ UNCHANGED <<shared, lockVars, bufVars, resultVars, WALWriteLock, orWait, fileVars,
                 writerVars, made>>

SetLatch(p) ==
  /\ pc[p] = "nudge"
  /\ latch' = TRUE
  /\ Done(p)
  /\ UNCHANGED <<shared, lockVars, bufVars, resultVars, asyncVars, WALWriteLock, orWait,
                 fileVars, WalWriterSleeping, left_till_hibernate, my, made>>
-----------------------------------------------------------------------------
(* WalWriterMain: say whether this may be the last cycle before a long     *)
(* sleep, clear the latch, flush, sleep.                                   *)
AdvertiseSleep(w) ==
  /\ pc[w] = "idle"
  /\ WalWriterSleeping' = (left_till_hibernate <= 1)
  /\ GoTo(w, "reset")
  /\ UNCHANGED <<shared, lockVars, bufVars, resultVars, asyncVars, WALWriteLock, orWait,
                 fileVars, latch, left_till_hibernate, reg, my, made>>

ResetLatch(w) ==
  /\ pc[w] = "reset"
  /\ latch' = FALSE
  /\ GoTo(w, "bgread")
  /\ UNCHANGED <<shared, lockVars, bufVars, resultVars, asyncVars, WALWriteLock, orWait,
                 fileVars, WalWriterSleeping, left_till_hibernate, reg, my, made>>

(* XLogBackgroundFlush: complete pages first, async commits if there are   *)
(* none.  Whether it flushes depends on the time since it last did.        *)
BackgroundRead(w, now) ==
  LET rqst == PageStart(LogwrtRqst) IN
  /\ pc[w] = "bgread"
  /\ ReadResult(w)
  /\ pending' = IF now THEN {[e EXCEPT !.n = Min({@ + 1, MaxCycles})] : e \in pending} ELSE pending
  /\ IF rqst <= LogwrtResult.Flush
     THEN Set(w, [NoReg EXCEPT !.now = now]) /\ GoTo(w, "bgasync")
     ELSE /\ Set(w, [NoReg EXCEPT !.write = rqst, !.flush = IF now THEN rqst ELSE 0,
                                  !.flexible = TRUE, !.upto = rqst, !.ret = "bgwrite"])
          /\ GoTo(w, "wait")
  /\ UNCHANGED <<shared, lockVars, bufVars, resultVars, asyncXactLSN, WALWriteLock, orWait,
                 fileVars, writerVars, made>>

AsyncRequest == asyncXactLSN

BackgroundAsync(w) ==
  LET rqst == AsyncRequest IN
  /\ pc[w] = "bgasync"
  /\ IF rqst <= my[w].Flush THEN Set(w, NoReg) /\ GoTo(w, "idled")
     ELSE /\ Set(w, [NoReg EXCEPT !.write = rqst, !.flush = IF reg[w].now THEN rqst ELSE 0,
                                  !.upto = rqst, !.ret = "bgwrite"])
          /\ GoTo(w, "wait")
  /\ UNCHANGED <<shared, lockVars, bufVars, resultVars, asyncVars, WALWriteLock, orWait,
                 fileVars, writerVars, my, made>>

BackgroundWrite(w) ==
  /\ pc[w] = "bgwrite" /\ WALWriteLock = NULL
  /\ ReadResult(w)
  /\ IF reg[w].write > LogwrtResult.Write \/ reg[w].flush > LogwrtResult.Flush
     THEN HoldWrite(w) /\ GoTo(w, "write") /\ Set(w, [reg[w] EXCEPT !.ret = "adv"])
     ELSE ReleaseWrite /\ Done(w)
  /\ UNCHANGED <<shared, lockVars, bufVars, resultVars, asyncVars, fileVars, writerVars, made>>

CountCycle(w) ==
  /\ pc[w] \in {"worked", "idled"}
  /\ left_till_hibernate' = IF pc[w] = "worked" THEN LOOPS_UNTIL_HIBERNATE
                            ELSE Max({left_till_hibernate - 1, 0})
  /\ Set(w, NoReg) /\ GoTo(w, "sleep")
  /\ UNCHANGED <<shared, lockVars, bufVars, resultVars, asyncVars, WALWriteLock, orWait,
                 fileVars, WalWriterSleeping, latch, my, made>>

(* WaitLatch: the latch is set, or the time is up.                         *)
WakeUp(w) ==
  /\ pc[w] = "sleep"
  /\ GoTo(w, "idle")
  /\ UNCHANGED <<shared, lockVars, bufVars, resultVars, asyncVars, WALWriteLock, orWait,
                 fileVars, writerVars, reg, my, made>>
-----------------------------------------------------------------------------
(* StartupXLOG: the last page of the old log, if it is not full, is put    *)
(* into its buffer; all of the old log is on disk.                         *)
FirstPage == IF StartPtr % XLOG_BLCKSZ = 0 THEN {} ELSE PageStart(StartPtr)..StartPtr - 1

Init ==
  /\ CurrBytePos = XLogRecPtrToBytePos(StartPtr)
  /\ insertLock = [i \in LockNos |-> NULL]
  /\ insertingAt = [i \in LockNos |-> 0]
  /\ xlblocks = [b \in 0..XLogBuffers - 1 |->
                   IF FirstPage # {} /\ b = BufIdx(StartPtr) THEN PageEnd(StartPtr) ELSE 0]
  /\ pages = [b \in 0..XLogBuffers - 1 |-> IF b = BufIdx(StartPtr) THEN FirstPage ELSE {}]
  /\ InitializedUpTo = IF FirstPage = {} THEN StartPtr ELSE PageEnd(StartPtr)
  /\ LogwrtRqst = StartPtr
  /\ LogwrtResult = [Write |-> StartPtr, Flush |-> StartPtr]
  /\ asyncXactLSN = 0
  /\ WALBufMappingLock = NULL /\ WALWriteLock = NULL /\ orWait = {}
  /\ file = FirstPage /\ disk = FirstPage
  /\ WalWriterSleeping = FALSE /\ latch = FALSE
  /\ left_till_hibernate = LOOPS_UNTIL_HIBERNATE
  /\ pc = [p \in Procs |-> "idle"]
  /\ reg = [p \in Procs |-> NoReg]
  /\ my = [p \in Procs |-> [lock |-> IF p \in Backends THEN FirstLock[p] ELSE 0,
                            cached |-> 0, Write |-> 0, Flush |-> 0]]
  /\ made = [p \in Backends |-> 0]
  /\ reserved = {} /\ pending = {}

Waits(p) == ReadInsertPos(p) \/ WaitForInsertion(p)
Advances(p) == LockMapping(p) \/ NewPage(p) \/ EvictPage(p) \/ AdvanceEnds(p)
Writes(p) == WriteGroup(p) \/ NothingToWrite(p) \/ SyncFile(p) \/ XLogWriteEnds(p)
Inserts(p) ==
  \/ WALInsertLockAcquire(p) \/ WALInsertLockAcquireExclusive(p) \/ Reserve(p)
  \/ GetXLogBuffer(p) \/ WALInsertLockUpdateInsertingAt(p) \/ GotXLogBuffer(p)
  \/ CopyXLogRecordToWAL(p) \/ WALInsertLockRelease(p) \/ XLogInsertRecordEnds(p)
Flushes(p) == XLogFlush(p) \/ FlushWrite(p) \/ FlushWrites(p)

BackendStep(p) ==
  \/ Waits(p) \/ Advances(p) \/ EvictWrite(p) \/ Writes(p) \/ Inserts(p) \/ Flushes(p)
  \/ XLogSetAsyncXactLSN(p) \/ SetLatch(p)

WalWriterStep(w) ==
  \/ Waits(w) \/ Advances(w) \/ Writes(w)
  \/ AdvertiseSleep(w) \/ ResetLatch(w)
  \/ \E now \in BOOLEAN : BackgroundRead(w, now)
  \/ BackgroundAsync(w) \/ BackgroundWrite(w) \/ CountCycle(w) \/ WakeUp(w)

Next ==
  \/ \E p \in Backends : InsertBegins(p) \/ BackendStep(p)
  \/ \E w \in WalWriters : WalWriterStep(w)

Spec == Init /\ [][Next]_vars

-----------------------------------------------------------------------------
(* What a reader of a record needs: its bytes, the headers of its pages    *)
(* and the notes that it goes on there.                                    *)
Content(r) ==
  {q \in PageStart(r.from)..r.to - 1 : q >= r.from \/ InHeader(q)}
    \union {-s : s \in {q \in r.from + 1..r.to - 1 : q = PageStart(q)}}
Address(q) == IF q < 0 THEN -q ELSE q

(* Write-ahead logging rests on this: whatever XLogCtl->LogwrtResult says  *)
(* is flushed would be found complete after a crash, and what it says is   *)
(* written is in the files.  Nobody PANICs on the way there: an inserter   *)
(* finds the page it set up, a writer the pages it was asked to write, and *)
(* XLogFlush has flushed what it was called for.                           *)
FlushedIsOnDisk ==
  /\ \A r \in reserved : \A q \in Content(r) :
       /\ Address(q) < LogwrtResult.Flush => q \in disk
       /\ Address(q) < LogwrtResult.Write => q \in file
  /\ \A p \in Procs : pc[p] \notin {"panic", "error"}

(* XLogBackgroundFlush: "We can guarantee that async commits reach disk    *)
(* after at most three wal_writer_delay cycles."  So the WAL writer does   *)
(* not hibernate, which takes many such delays, while one is pending,      *)
(* unless somebody has set its latch or is about to.                       *)
AsyncInThreeCycles ==
  \A w \in WalWriters : pc[w] = "sleep" =>
    /\ \A e \in pending : e.n < 3
    /\ left_till_hibernate = 0 /\ pending # {} =>
         latch \/ \E p \in Backends : pc[p] = "nudge"

=============================================================================
