------------------------------- MODULE BufMgr -------------------------------
(***************************************************************************)
(* The shared buffer manager (storage/buffer/bufmgr.c): looking a page up, *)
(* pinning it, choosing and writing a victim, retagging it, reading the    *)
(* page in, marking it dirty, hint bits, cleanup locks, dropping the       *)
(* buffers of a relation, and the checkpoint's BufferSync.                 *)
(*                                                                         *)
(* A header spinlock is held for straight-line code only, so what happens  *)
(* under it is one step.  A look-up under the shared mapping lock is one   *)
(* step as well: nobody can change the mapping while it is held.  Sleeping *)
(* on the I/O condition variable is the guard "no I/O in progress" (the    *)
(* condition variable itself is module ConditionVariable), XLogInsert and  *)
(* XLogFlush are single steps (module WalInsert), smgrwrite is durable,    *)
(* and the victim is any unpinned buffer.                                  *)
(*                                                                         *)
(* A page is the LSN of its last logged change, the number of changes made *)
(* without WAL, and whether a hint bit was set since the last change.      *)
(* Recovery, in which backends read and only the startup process changes   *)
(* pages, is left out; a relation that skips WAL (one created in the       *)
(* transaction, with wal_level = minimal) is not, and both backends may    *)
(* use it, as a leader and its parallel worker do.                         *)
(***************************************************************************)
EXTENDS Integers, FiniteSets, FiniteSetsExt, TLC

CONSTANTS
    Buffers,        \* the buffer descriptors
    Tags,           \* the pages
    Partition,      \* the mapping partition of each page
    Cached,         \* the page each buffer holds at first, read in earlier, or NULL
    Backends,       \* processes that read and change pages
    Cleaners,       \* backends that also take cleanup locks (VACUUM)
    Checkpointers,  \* at most one process running BufferSync
    Droppers,       \* processes that drop the relation of DropTag
    DropTag,        \* the page of the relation being dropped, or NULL
    Writers,        \* backends that change pages
    Hints,          \* backends that set hint bits
    HintsLogged,    \* XLogHintBitIsNeeded(): checksums or wal_log_hints
    SkippingWAL,    \* pages of relations for which RelFileNodeSkippingWAL()
    Errors,         \* processes whose I/O may fail, and whose wait may be cancelled
    Nested,         \* backends that read a page while they have one locked
    MaxLsn,         \* bound: WAL records written
    MaxUnlogged,    \* bound: changes of one page without WAL
    MaxBegun,       \* bound: reads, cleanups, checkpoints and drops begun
    NULL

Processes == Backends \union Checkpointers \union Droppers
Partitions == {Partition[t] : t \in Tags}

ASSUME BufMgrAssumption ==
    /\ NULL \notin Buffers \union Tags \union Processes
    /\ Partition \in [Tags -> Nat]
    /\ Cached \in [Buffers -> Tags \union {NULL}]
    /\ \A b, c \in Buffers : Cached[b] = Cached[c] => b = c \/ Cached[b] = NULL
    /\ Cleaners \subseteq Backends
    /\ DropTag \in Tags \union {NULL}
    /\ Writers \union Hints \union Nested \subseteq Backends /\ Errors \subseteq Processes
    /\ HintsLogged \in BOOLEAN /\ SkippingWAL \subseteq Tags
    /\ {MaxLsn, MaxUnlogged, MaxBegun} \subseteq Nat

VARIABLES
    hdr,        \* BufferDesc: tag, state flags, refcount, wait_backend_pid
    page,       \* the block in each buffer
    table,      \* the mapping: buffer of each page, or NULL
    part,       \* exclusive holder of each mapping partition lock, or NULL
    content,    \* content lock of each buffer
    disk,       \* the page in the relation's file
    wal,        \* end of inserted and of flushed WAL, RedoRecPtr, and the
                \* redo pointer of the last complete checkpoint
    pc, loc,    \* where each process is, and its local variables
    pins,       \* PrivateRefCount: the buffers each process has pinned
    latch,      \* has the process been signalled?
    delay,      \* PGPROC.delayChkpt
    drop,       \* progress of the DROP: "no", "running", "done"
    begun,      \* how many reads and checkpoints have begun
    latest,     \* history: the last change of each page, and whether an image
                \* for a hint bit was logged after it
    atRedo,     \* history: what the checkpoint under way must write
    onDisk,     \* history: what the last complete checkpoint wrote
    seen        \* history: pinned pages a process has looked into

shared == <<hdr, page, table, part, content, disk, wal>>
private == <<pc, loc, pins, latch, delay, drop, begun>>
history == <<latest, atRedo, onDisk, seen>>
vars == <<shared, private, history>>

Empty == [lsn |-> 0, ver |-> 0, hint |-> FALSE]
Idle == [tag |-> NULL, buf |-> NULL, held |-> NULL, want |-> NULL,
         ret |-> "idle", rec |-> 0, redo |-> 0, io |-> FALSE, marked |-> FALSE,
         todo |-> {}, list |-> {}]

Init ==
    /\ hdr = [b \in Buffers |->
                 [tag |-> Cached[b], valid |-> Cached[b] # NULL, dirty |-> FALSE,
                  just |-> FALSE, io |-> FALSE, ckpt |-> FALSE,
                  waiter |-> FALSE, pid |-> NULL, refcount |-> 0]]
    /\ page = [b \in Buffers |-> Empty]
    /\ table = [t \in Tags |-> IF \E b \in Buffers : Cached[b] = t
                              THEN CHOOSE b \in Buffers : Cached[b] = t ELSE NULL]
    /\ part = [q \in Partitions |-> NULL]
    /\ content = [b \in Buffers |-> [ex |-> NULL, sh |-> {}]]
    /\ disk = [t \in Tags |-> Empty]
    /\ wal = [insert |-> 0, flush |-> 0, redo |-> 0, ckpt |-> 0]
    /\ pc = [p \in Processes |-> "idle"]
    /\ loc = [p \in Processes |-> Idle]
    /\ pins = [p \in Processes |-> {}]
    /\ latch = [p \in Processes |-> FALSE]
    /\ delay = [p \in Processes |-> FALSE]
    /\ drop = "no" /\ begun = 0
    /\ latest = [t \in Tags |-> Empty]
    /\ atRedo = [t \in Tags |-> Empty]
    /\ onDisk = [t \in Tags |-> Empty]
    /\ seen = [p \in Processes |-> {}]

(***************************************************************************)
(* Steps of a process.                                                     *)
(***************************************************************************)
At(p, l) == pc[p] = l
Go(p, l) == pc' = [pc EXCEPT ![p] = l]
Set(p, r) == loc' = [loc EXCEPT ![p] = r @@ @]
Buf(p) == loc[p].buf
Header(p) == hdr[Buf(p)]

\* The header of b with the fields of r replaced.
Update(b, r) == hdr' = [hdr EXCEPT ![b] = r @@ @]

\* UnpinBuffer is a call: where to go when it is done.
CallUnpin(p, ret) == Go(p, "unpin") /\ Set(p, [ret |-> ret])

Unlocked(c, p) == [ex |-> IF c.ex = p THEN NULL ELSE c.ex, sh |-> c.sh \ {p}]
ReleaseContent(p, bs) ==
    content' = [b \in Buffers |->
                   IF b \in bs THEN Unlocked(content[b], p) ELSE content[b]]
ReleasePartitions(p) ==
    part' = [q \in Partitions |-> IF part[q] = p THEN NULL ELSE part[q]]

(***************************************************************************)
(* Pins.                                                                   *)
(***************************************************************************)

\* PinBuffer and PinBuffer_Locked, first pin of the process.
Pin(p, b, h) ==
    /\ Update(b, [refcount |-> h.refcount + 1])
    /\ pins' = [pins EXCEPT ![p] = @ \union {b}]

Unpinned(h) == h.refcount - 1

\* UnpinBuffer, the shared count: if someone waits for the count to drop to
\* one, the header is looked at once more.
Unpin(p) ==
    /\ At(p, "unpin")
    /\ Update(Buf(p), [refcount |-> Unpinned(Header(p))])
    /\ pins' = [pins EXCEPT ![p] = @ \ {Buf(p)}]
    /\ seen' = [seen EXCEPT ![p] = @ \ {Buf(p)}]
    /\ Go(p, IF Header(p).waiter THEN "wake" ELSE loc[p].ret)
    /\ UNCHANGED <<page, table, part, content, disk, wal, loc, latch, delay,
                   drop, begun, latest, atRedo, onDisk>>

\* The second look: the waiter is signalled by whoever leaves it alone.
WakeWaiter(p) == Header(p).waiter /\ Header(p).refcount = 1

Wake(p) ==
    /\ At(p, "wake")
    /\ IF WakeWaiter(p)
       THEN /\ Update(Buf(p), [waiter |-> FALSE])
            /\ latch' = [latch EXCEPT ![Header(p).pid] = TRUE]
       ELSE UNCHANGED <<hdr, latch>>
    /\ Go(p, loc[p].ret)
    /\ UNCHANGED <<page, table, part, content, disk, wal, loc, pins, delay,
                   drop, begun, history>>

(***************************************************************************)
(* ReadBuffer_common and BufferAlloc.                                      *)
(***************************************************************************)

\* A backend holds the relation's lock while it uses one of its pages.
MayRead(t) == t # DropTag \/ drop = "no"

\* The bound on what is begun.
Begin == begun < MaxBegun /\ begun' = begun + 1

BeginRead(p, t) ==
    /\ At(p, "idle") /\ p \in Backends
    /\ MayRead(t)
    /\ Begin
    /\ Go(p, "lookup") /\ Set(p, [tag |-> t])
    /\ UNCHANGED <<shared, pins, latch, delay, drop, history>>

\* A page found in the table is pinned under the mapping lock; it may still
\* be on its way in.
PinFound(p, b) ==
    /\ Pin(p, b, hdr[b])
    /\ Set(p, [buf |-> b, want |-> NULL])
    /\ Go(p, IF hdr[b].valid THEN "using" ELSE "startInput")

Lookup(p) ==
    /\ At(p, "lookup")
    /\ LET t == loc[p].tag IN
       /\ part[Partition[t]] = NULL
       /\ IF table[t] # NULL
          THEN PinFound(p, table[t])
          ELSE Go(p, "victim") /\ UNCHANGED <<hdr, pins, loc>>
    /\ UNCHANGED <<page, table, part, content, disk, wal, latch, delay, drop,
                   begun, history>>

\* StrategyGetBuffer returns with the header locked; the victim is pinned
\* before it is unlocked.
GetVictim(p) ==
    /\ At(p, "victim")
    /\ \E b \in Buffers :
       /\ hdr[b].refcount = 0
       /\ Pin(p, b, hdr[b])
       /\ Set(p, [buf |-> b])
       /\ Go(p, IF hdr[b].dirty THEN "lockVictim" ELSE "map")
    /\ UNCHANGED <<page, table, part, content, disk, wal, latch, delay, drop,
                   begun, history>>

\* "no unpinned buffers available"
NoVictim(p) ==
    /\ At(p, "victim")
    /\ \A b \in Buffers : hdr[b].refcount > 0
    /\ Go(p, "error")
    /\ UNCHANGED <<shared, loc, pins, latch, delay, drop, begun, history>>

\* A dirty victim is share-locked only if that needs no wait: its content
\* lock may be held by a process that waits for a lock of ours.
LockVictim(p) ==
    /\ At(p, "lockVictim")
    /\ IF content[Buf(p)].ex = NULL
       THEN /\ content' = [content EXCEPT ![Buf(p)].sh = @ \union {p}]
            /\ Go(p, "startOutput") /\ Set(p, [ret |-> "unlockVictim"])
       ELSE CallUnpin(p, "victim") /\ UNCHANGED content
    /\ UNCHANGED <<hdr, page, table, part, disk, wal, pins, latch, delay, drop,
                   begun, history>>

UnlockVictim(p) ==
    /\ At(p, "unlockVictim")
    /\ ReleaseContent(p, {Buf(p)})
    /\ Go(p, "map")
    /\ UNCHANGED <<hdr, page, table, part, disk, wal, loc, pins, latch, delay,
                   drop, begun, history>>

\* The partitions of the victim's old page, if it has one, and of the new
\* page are locked in partition order.
NeededPartitions(p) ==
    {Partition[t] : t \in {loc[p].tag, Header(p).tag} \ {NULL}}
HeldPartitions(p) == {q \in Partitions : part[q] = p}

LockPartition(p) ==
    /\ At(p, "map")
    /\ LET missing == NeededPartitions(p) \ HeldPartitions(p)
           q == Min(missing)
       IN  IF missing = {}
           THEN Go(p, "mapped") /\ UNCHANGED part
           ELSE /\ part[q] = NULL
                /\ part' = [part EXCEPT ![q] = p]
                /\ UNCHANGED pc
    /\ UNCHANGED <<hdr, page, table, content, disk, wal, loc, pins, latch,
                   delay, drop, begun, history>>

CollidedMutant(p) == FALSE
\* BufTableInsert finds that someone else has entered the page meanwhile.
Collided(p) == table[loc[p].tag] # NULL

PinnedMutant(h) == ~h.dirty
\* Once more under the header lock: nobody else pinned the victim, and
\* nobody dirtied it, while we wrote it and waited for the mapping locks.
Recyclable(h) == h.refcount = 1 /\ ~h.dirty

\* The other's buffer is used; the victim is released first.
Collision(p) ==
    /\ At(p, "mapped")
    /\ Collided(p)
    /\ Go(p, "unpin")
    /\ Set(p, [ret |-> "collided", want |-> table[loc[p].tag]])
    /\ UNCHANGED <<shared, pins, latch, delay, drop, begun, history>>

UseOther(p) ==
    /\ At(p, "collided")
    /\ PinFound(p, loc[p].want)
    /\ ReleasePartitions(p)
    /\ UNCHANGED <<page, table, content, disk, wal, latch, delay, drop, begun,
                   history>>

GiveUpVictim(p) ==
    /\ At(p, "mapped")
    /\ ~Collided(p) /\ ~Recyclable(Header(p))
    /\ ReleasePartitions(p)
    /\ CallUnpin(p, "victim")
    /\ UNCHANGED <<hdr, page, table, content, disk, wal, pins, latch, delay,
                   drop, begun, history>>

Retag(p) ==
    /\ At(p, "mapped")
    /\ ~Collided(p) /\ Recyclable(Header(p))
    /\ LET new == loc[p].tag IN
       /\ Update(Buf(p), [tag |-> new, valid |-> FALSE, dirty |-> FALSE,
                          just |-> FALSE, ckpt |-> FALSE])
       /\ table' = [t \in Tags |-> CASE t = new -> Buf(p)
                                     [] t = Header(p).tag /\ t # new -> NULL
                                     [] OTHER -> table[t]]
    /\ ReleasePartitions(p)
    /\ Go(p, "startInput")
    /\ UNCHANGED <<page, content, disk, wal, loc, pins, latch, delay, drop,
                   begun, history>>

(***************************************************************************)
(* I/O.                                                                    *)
(***************************************************************************)
\* StartBufferIO waits until no I/O is in progress on the buffer.
CanStartIO(h) == ~h.io

StartInput(p) ==
    /\ At(p, "startInput")
    /\ CanStartIO(Header(p))
    /\ IF Header(p).valid
       THEN Go(p, "using") /\ UNCHANGED <<hdr, loc>>
       ELSE /\ Update(Buf(p), [io |-> TRUE])
            /\ Set(p, [io |-> TRUE])
            /\ Go(p, "readPage")
    /\ UNCHANGED <<page, table, part, content, disk, wal, pins, latch, delay,
                   drop, begun, history>>

ReadPage(p) ==
    /\ At(p, "readPage")
    /\ page' = [page EXCEPT ![Buf(p)] = disk[loc[p].tag]]
    /\ Go(p, "endInput")
    /\ UNCHANGED <<hdr, table, part, content, disk, wal, loc, pins, latch,
                   delay, drop, begun, history>>

EndInput(p) ==
    /\ At(p, "endInput")
    /\ Update(Buf(p), [io |-> FALSE, valid |-> TRUE])
    /\ Set(p, [io |-> FALSE])
    /\ Go(p, "using")
    /\ UNCHANGED <<page, table, part, content, disk, wal, pins, latch, delay,
                   drop, begun, history>>

\* FlushBuffer, called with the content share lock.
StartOutput(p) ==
    /\ At(p, "startOutput")
    /\ CanStartIO(Header(p))
    /\ IF ~Header(p).dirty
       THEN Go(p, loc[p].ret) /\ UNCHANGED <<hdr, loc>>
       ELSE /\ Update(Buf(p), [io |-> TRUE])
            /\ Set(p, [io |-> TRUE])
            /\ Go(p, "flushLsn")
    /\ UNCHANGED <<page, table, part, content, disk, wal, pins, latch, delay,
                   drop, begun, history>>

\* From here on a change of the page sets BM_JUST_DIRTIED again.
ClearJustDirtied(b) == Update(b, [just |-> FALSE])

FlushLsn(p) ==
    /\ At(p, "flushLsn")
    /\ Set(p, [rec |-> page[Buf(p)].lsn])
    /\ ClearJustDirtied(Buf(p))
    /\ Go(p, "flushWal")
    /\ UNCHANGED <<page, table, part, content, disk, wal, pins, latch, delay,
                   drop, begun, history>>

\* XLogFlush up to the page's LSN.
FlushedTo(rec) == Max({wal.flush, rec})

FlushWal(p) ==
    /\ At(p, "flushWal")
    /\ wal' = [wal EXCEPT !.flush = FlushedTo(loc[p].rec)]
    /\ Go(p, "writePage") /\ Set(p, [rec |-> 0])
    /\ UNCHANGED <<hdr, page, table, part, content, disk, pins, latch, delay,
                   drop, begun, history>>

WritePage(p) ==
    /\ At(p, "writePage")
    /\ disk' = [disk EXCEPT ![Header(p).tag] = page[Buf(p)]]
    /\ Go(p, "endOutput")
    /\ UNCHANGED <<hdr, page, table, part, content, wal, loc, pins, latch,
                   delay, drop, begun, history>>

\* TerminateBufferIO after a write: the buffer is clean unless it was
\* dirtied again meanwhile.
EndedOutput(h) ==
    [io |-> FALSE, dirty |-> h.dirty /\ h.just, ckpt |-> h.ckpt /\ h.just]

EndOutput(p) ==
    /\ At(p, "endOutput")
    /\ Update(Buf(p), EndedOutput(Header(p)))
    /\ Set(p, [io |-> FALSE])
    /\ Go(p, loc[p].ret)
    /\ UNCHANGED <<page, table, part, content, disk, wal, pins, latch, delay,
                   drop, begun, history>>

\* A read or write fails, or the WAL cannot be flushed.
IoFails(p) ==
    /\ p \in Errors
    /\ pc[p] \in {"readPage", "flushWal", "writePage"}
    /\ Go(p, "error")
    /\ UNCHANGED <<shared, loc, pins, latch, delay, drop, begun, history>>

(***************************************************************************)
(* Error recovery: AbortTransaction for a backend, the error handler of    *)
(* CheckpointerMain for the checkpointer.                                  *)
(***************************************************************************)

\* LWLockReleaseAll
ReleaseAll(p) ==
    /\ At(p, "error")
    /\ ReleaseContent(p, Buffers)
    /\ ReleasePartitions(p)
    /\ Go(p, "abortIO")
    /\ UNCHANGED <<hdr, page, table, disk, wal, loc, pins, latch, delay, drop,
                   begun, history>>

\* AbortBufferIO: the I/O flag goes, the dirty flag stays.
AbortedIO(h) == [io |-> FALSE, dirty |-> h.dirty]

\* AbortBufferIO, then UnlockBuffers: a backend cancelled in
\* LockBufferForCleanup takes its waiter mark back.
AbortIO(p) ==
    /\ At(p, "abortIO")
    /\ LET waits == {b \in pins[p] : hdr[b].waiter /\ hdr[b].pid = p} IN
       hdr' = [b \in Buffers |->
                  IF loc[p].io /\ b = Buf(p) THEN AbortedIO(hdr[b]) @@ hdr[b]
                  ELSE IF b \in waits THEN [waiter |-> FALSE] @@ hdr[b]
                  ELSE hdr[b]]
    /\ Go(p, "unpinAll") /\ Set(p, [io |-> FALSE, todo |-> {}, list |-> {}])
    /\ UNCHANGED <<page, table, part, content, disk, wal, pins, latch, delay,
                   drop, begun, history>>

\* ResourceOwnerRelease, and the end of an ordinary access.
UnpinAll(p) ==
    /\ At(p, "unpinAll")
    /\ IF pins[p] = {}
       THEN Go(p, "idle") /\ loc' = [loc EXCEPT ![p] = Idle]
       ELSE \E b \in pins[p] :
            Go(p, "unpin") /\ Set(p, [buf |-> b, ret |-> "unpinAll"])
    /\ UNCHANGED <<shared, pins, latch, delay, drop, begun, history>>

(***************************************************************************)
(* Using a page: the rules of buffer/README, as the access methods follow  *)
(* them.                                                                   *)
(***************************************************************************)
Free(b) == content[b].ex = NULL /\ content[b].sh = {}

\* Who has looked into a page may keep pointers into it while it is pinned.
Look(p, b) ==
    seen' = IF Cleaners = {} THEN seen
            ELSE [seen EXCEPT ![p] = @ \union {b}]

LockExclusive(p) ==
    /\ p \in Writers
    /\ At(p, "using")
    /\ Free(Buf(p))
    /\ content' = [content EXCEPT ![Buf(p)].ex = p]
    /\ Look(p, Buf(p))
    /\ Go(p, "exclusive")
    /\ UNCHANGED <<hdr, page, table, part, disk, wal, loc, pins, latch, delay,
                   drop, begun, latest, atRedo, onDisk>>

LockShare(p) ==
    /\ At(p, "using")
    /\ content[Buf(p)].ex = NULL
    /\ content' = [content EXCEPT ![Buf(p)].sh = @ \union {p}]
    /\ Look(p, Buf(p))
    /\ Go(p, "shared")
    /\ UNCHANGED <<hdr, page, table, part, disk, wal, loc, pins, latch, delay,
                   drop, begun, latest, atRedo, onDisk>>

Unlock(p) ==
    /\ pc[p] \in {"exclusive", "shared", "changed", "cleaned"}
    /\ ReleaseContent(p, {Buf(p)})
    /\ Go(p, "using")
    /\ UNCHANGED <<hdr, page, table, part, disk, wal, loc, pins, latch, delay,
                   drop, begun, history>>

\* A backend reads a second page while it has the first one locked.
ReadSecond(p, t) ==
    /\ p \in Nested
    /\ At(p, "exclusive")
    /\ loc[p].held = NULL /\ t # loc[p].tag
    /\ MayRead(t)
    /\ Begin
    /\ Go(p, "lookup") /\ Set(p, [tag |-> t, held |-> Buf(p)])
    /\ UNCHANGED <<shared, pins, latch, delay, drop, history>>

Release(p) ==
    /\ At(p, "using")
    /\ ReleaseContent(p, pins[p])
    /\ Go(p, "unpinAll")
    /\ UNCHANGED <<hdr, page, table, part, disk, wal, loc, pins, latch, delay,
                   drop, begun, history>>

\* Whether one more change of the page is within the bounds: records still to
\* come from processes that have announced one count.
Room(b) ==
    IF hdr[b].tag \in SkippingWAL THEN page[b].ver < MaxUnlogged
    ELSE wal.insert + Cardinality({q \in Processes :
             /\ pc[q] \in {"dirtied", "hintLog"}
             /\ Header(q).tag \notin SkippingWAL}) < MaxLsn

\* MarkBufferDirty comes first, then the change and its WAL record.
MarkBufferDirty(p) ==
    /\ At(p, "exclusive")
    /\ Room(Buf(p))
    /\ Update(Buf(p), [dirty |-> TRUE, just |-> TRUE])
    /\ Go(p, "dirtied")
    /\ UNCHANGED <<page, table, part, content, disk, wal, loc, pins, latch,
                   delay, drop, begun, history>>

\* The change, and its record unless the relation skips WAL.
ChangePage(p) ==
    /\ At(p, "dirtied")
    /\ LET b == Buf(p)
           t == Header(p).tag
           lsn == wal.insert + 1
           new == IF t \in SkippingWAL
                  THEN [page[b] EXCEPT !.ver = @ + 1, !.hint = FALSE]
                  ELSE [page[b] EXCEPT !.lsn = lsn, !.hint = FALSE]
       IN  /\ wal' = IF t \in SkippingWAL THEN wal
                     ELSE [wal EXCEPT !.insert = lsn]
           /\ page' = [page EXCEPT ![b] = new]
           /\ latest' = [latest EXCEPT ![t] = new]
    /\ Go(p, "changed")
    /\ UNCHANGED <<hdr, table, part, content, disk, loc, pins, latch, delay,
                   drop, begun, atRedo, onDisk, seen>>

(***************************************************************************)
(* Hint bits are set under the share lock; MarkBufferDirtyHint follows.    *)
(***************************************************************************)
\* The quick exit's test, without the header lock.
AlreadyMarked(h) == h.dirty /\ h.just

SetHint(p) ==
    /\ p \in Hints
    /\ At(p, "shared")
    /\ ~page[Buf(p)].hint
    /\ page' = [page EXCEPT ![Buf(p)].hint = TRUE]
    /\ Set(p, [marked |-> AlreadyMarked(Header(p))])
    /\ Go(p, "hinted")
    /\ UNCHANGED <<hdr, table, part, content, disk, wal, pins, latch, delay,
                   drop, begun, history>>

\* The flags are read without a lock and may be read as they were before the
\* hint bit was set.  Where no WAL may be written the page is not dirtied.
MarkBufferDirtyHint(p) ==
    /\ At(p, "hinted")
    /\ \/ /\ AlreadyMarked(Header(p)) \/ loc[p].marked
          /\ Go(p, "changed") /\ Set(p, [marked |-> FALSE])
          /\ UNCHANGED delay
       \/ /\ ~AlreadyMarked(Header(p)) /\ ~HintsLogged
          /\ Go(p, "hintMark") /\ Set(p, [marked |-> FALSE])
          /\ UNCHANGED delay
       \/ /\ ~AlreadyMarked(Header(p)) /\ HintsLogged
          /\ Header(p).tag \in SkippingWAL
          /\ Go(p, "changed") /\ Set(p, [marked |-> FALSE])
          /\ UNCHANGED delay
       \/ /\ ~AlreadyMarked(Header(p)) /\ HintsLogged
          /\ Header(p).tag \notin SkippingWAL
          /\ Room(Buf(p))
          /\ delay' = [delay EXCEPT ![p] = TRUE]
          /\ Go(p, "hintLog") /\ Set(p, [marked |-> FALSE, redo |-> wal.redo])
    /\ UNCHANGED <<shared, pins, latch, drop, begun, history>>

\* XLogSaveBufferForHint logs an image if the page has none since the redo
\* point it read.
HintNeedsImage(p) == page[Buf(p)].lsn <= loc[p].redo

LogHint(p) ==
    /\ At(p, "hintLog")
    /\ LET lsn == wal.insert + 1
           t == Header(p).tag
       IN  IF HintNeedsImage(p)
           THEN /\ wal' = [wal EXCEPT !.insert = lsn]
                /\ latest' = [latest EXCEPT ![t].hint = TRUE]
                /\ Set(p, [rec |-> lsn])
           ELSE UNCHANGED <<wal, latest, loc>>
    /\ Go(p, "hintMark")
    /\ UNCHANGED <<hdr, page, table, part, content, disk, pins, latch, delay,
                   drop, begun, atRedo, onDisk, seen>>

\* Mutant: the LSN of a page that is being written is raised.
HintLsnMutant(p) == IF loc[p].rec # 0 THEN loc[p].rec ELSE page[Buf(p)].lsn

\* The LSN is set to the image's only if the page was clean.
HintLsn(p) ==
    IF loc[p].rec # 0 /\ ~Header(p).dirty THEN loc[p].rec ELSE page[Buf(p)].lsn

MarkHint(p) ==
    /\ At(p, "hintMark")
    /\ page' = [page EXCEPT ![Buf(p)].lsn = HintLsn(p)]
    /\ latest' = [latest EXCEPT ![Header(p).tag].lsn = HintLsn(p)]
    /\ Update(Buf(p), [dirty |-> TRUE, just |-> TRUE])
    /\ delay' = [delay EXCEPT ![p] = FALSE]
    /\ Set(p, [rec |-> 0, redo |-> 0])
    /\ Go(p, "changed")
    /\ UNCHANGED <<table, part, content, disk, wal, pins, latch, drop, begun,
                   atRedo, onDisk, seen>>

(***************************************************************************)
(* LockBufferForCleanup.                                                   *)
(***************************************************************************)
BeginCleanup(p) ==
    /\ p \in Cleaners
    /\ At(p, "using") /\ loc[p].held = NULL
    /\ Begin
    /\ Go(p, "cleanup")
    /\ UNCHANGED <<shared, loc, pins, latch, delay, drop, history>>

LockForCleanup(p) ==
    /\ At(p, "cleanup")
    /\ Free(Buf(p))
    /\ content' = [content EXCEPT ![Buf(p)].ex = p]
    /\ Go(p, "cleanupCheck")
    /\ UNCHANGED <<hdr, page, table, part, disk, wal, loc, pins, latch, delay,
                   drop, begun, history>>

AloneMutant(h) == h.refcount <= 2
\* The caller's own pin is the only one.
Alone(h) == h.refcount = 1

CheckCleanup(p) ==
    /\ At(p, "cleanupCheck")
    /\ IF Alone(Header(p))
       THEN Go(p, "cleaned") /\ Look(p, Buf(p)) /\ UNCHANGED hdr
       ELSE /\ UNCHANGED seen
            /\ IF Header(p).waiter
               THEN Go(p, "error") /\ UNCHANGED hdr
               ELSE /\ Update(Buf(p), [waiter |-> TRUE, pid |-> p])
                    /\ Go(p, "cleanupUnlock")
    /\ UNCHANGED <<page, table, part, content, disk, wal, loc, pins, latch,
                   delay, drop, begun, latest, atRedo, onDisk>>

UnlockForCleanup(p) ==
    /\ At(p, "cleanupUnlock")
    /\ ReleaseContent(p, {Buf(p)})
    /\ Go(p, "cleanupWait")
    /\ UNCHANGED <<hdr, page, table, part, disk, wal, loc, pins, latch, delay,
                   drop, begun, history>>

\* ProcWaitForSignal
WaitForSignal(p) ==
    /\ At(p, "cleanupWait")
    /\ latch[p]
    /\ latch' = [latch EXCEPT ![p] = FALSE]
    /\ Go(p, "cleanupClear")
    /\ UNCHANGED <<shared, loc, pins, delay, drop, begun, history>>

\* The waiter mark may still be set: other events set the latch, too.
ClearWaiter(p) ==
    /\ At(p, "cleanupClear")
    /\ IF Header(p).waiter /\ Header(p).pid = p
       THEN Update(Buf(p), [waiter |-> FALSE])
       ELSE UNCHANGED hdr
    /\ Go(p, "cleanup")
    /\ UNCHANGED <<page, table, part, content, disk, wal, loc, pins, latch,
                   delay, drop, begun, history>>

OtherEvent(p) ==
    /\ p \in Errors
    /\ At(p, "cleanupWait") /\ ~latch[p]
    /\ latch' = [latch EXCEPT ![p] = TRUE]
    /\ UNCHANGED <<shared, pc, loc, pins, delay, drop, begun, history>>

CancelWait(p) ==
    /\ p \in Errors
    /\ At(p, "cleanupWait")
    /\ Go(p, "error")
    /\ UNCHANGED <<shared, loc, pins, latch, delay, drop, begun, history>>

(***************************************************************************)
(* The checkpoint: CreateCheckPoint's redo point and wait, BufferSync and  *)
(* SyncOneBuffer, the checkpoint record.                                   *)
(***************************************************************************)
TakeRedo(p) ==
    /\ p \in Checkpointers
    /\ At(p, "idle")
    /\ Begin
    /\ wal' = [wal EXCEPT !.redo = wal.insert]
    /\ atRedo' = latest
    /\ Set(p, [todo |-> {q \in Processes : delay[q]}])
    /\ Go(p, "waitDelay")
    /\ UNCHANGED <<hdr, page, table, part, content, disk, pins, latch, delay,
                   drop, latest, onDisk, seen>>

\* HaveVirtualXIDsDelayingChkpt
NoneDelaying(p) == \A q \in loc[p].todo : ~delay[q]

WaitDelay(p) ==
    /\ At(p, "waitDelay")
    /\ NoneDelaying(p)
    /\ Set(p, [todo |-> Buffers])
    /\ Go(p, "mark")
    /\ UNCHANGED <<shared, pins, latch, delay, drop, begun, history>>

NeededCkptMutant(h) == h.dirty /\ h.refcount = 0
NeedsCheckpoint(h) == h.dirty

MarkNeeded(p) ==
    /\ At(p, "mark")
    /\ IF loc[p].todo = {}
       THEN Go(p, "sync") /\ UNCHANGED <<hdr, loc>>
       ELSE \E b \in loc[p].todo :
            /\ IF NeedsCheckpoint(hdr[b])
               THEN /\ Update(b, [ckpt |-> TRUE])
                    /\ Set(p, [todo |-> loc[p].todo \ {b},
                               list |-> loc[p].list \union {b}])
               ELSE /\ Set(p, [todo |-> loc[p].todo \ {b}])
                    /\ UNCHANGED hdr
            /\ UNCHANGED pc
    /\ UNCHANGED <<page, table, part, content, disk, wal, pins, latch, delay,
                   drop, begun, history>>

SyncNext(p) ==
    /\ At(p, "sync")
    /\ IF loc[p].list = {}
       THEN Go(p, "endCheckpoint") /\ Set(p, [buf |-> NULL])
       ELSE \E b \in loc[p].list :
            /\ Set(p, [buf |-> b, list |-> loc[p].list \ {b}])
            /\ IF hdr[b].ckpt THEN Go(p, "syncOne") ELSE UNCHANGED pc
    /\ UNCHANGED <<shared, pins, latch, delay, drop, begun, history>>

SyncOneBuffer(p) ==
    /\ At(p, "syncOne")
    /\ IF Header(p).valid /\ Header(p).dirty
       THEN Pin(p, Buf(p), Header(p)) /\ Go(p, "syncLock")
       ELSE Go(p, "sync") /\ UNCHANGED <<hdr, pins>>
    /\ UNCHANGED <<page, table, part, content, disk, wal, loc, latch, delay,
                   drop, begun, history>>

SyncLock(p) ==
    /\ At(p, "syncLock")
    /\ content[Buf(p)].ex = NULL
    /\ content' = [content EXCEPT ![Buf(p)].sh = @ \union {p}]
    /\ Go(p, "startOutput") /\ Set(p, [ret |-> "syncUnlock"])
    /\ UNCHANGED <<hdr, page, table, part, disk, wal, pins, latch, delay, drop,
                   begun, history>>

SyncUnlock(p) ==
    /\ At(p, "syncUnlock")
    /\ ReleaseContent(p, {Buf(p)})
    /\ CallUnpin(p, "sync")
    /\ UNCHANGED <<hdr, page, table, part, disk, wal, pins, latch, delay, drop,
                   begun, history>>

\* The checkpoint record flushes everything before it.
EndCheckpoint(p) ==
    /\ At(p, "endCheckpoint")
    /\ wal' = [wal EXCEPT !.flush = wal.insert, !.ckpt = wal.redo]
    /\ onDisk' = atRedo
    /\ Go(p, "idle") /\ loc' = [loc EXCEPT ![p] = Idle]
    /\ UNCHANGED <<hdr, page, table, part, content, disk, pins, latch, delay,
                   drop, begun, latest, atRedo, seen>>

(***************************************************************************)
(* DropRelFileNodeBuffers and InvalidateBuffer, under the relation's       *)
(* exclusive lock.                                                         *)
(***************************************************************************)
Uses(q, t) ==
    \/ loc[q].tag = t
    \/ loc[q].held # NULL /\ hdr[loc[q].held].tag = t

BeginDrop(p) ==
    /\ p \in Droppers
    /\ At(p, "idle") /\ drop = "no"
    /\ \A q \in Backends : ~Uses(q, DropTag)
    /\ Begin
    /\ drop' = "running"
    /\ Go(p, "dropScan") /\ Set(p, [todo |-> Buffers])
    /\ UNCHANGED <<shared, pins, latch, delay, history>>

\* When every buffer has been looked at the file is unlinked.
DropScan(p) ==
    /\ At(p, "dropScan")
    /\ IF loc[p].todo = {}
       THEN /\ drop' = "done"
            /\ Go(p, "idle") /\ loc' = [loc EXCEPT ![p] = Idle]
       ELSE \E b \in loc[p].todo :
            /\ Set(p, [todo |-> loc[p].todo \ {b}, buf |-> b])
            /\ IF hdr[b].tag = DropTag THEN Go(p, "dropMap") ELSE UNCHANGED pc
            /\ UNCHANGED drop
    /\ UNCHANGED <<shared, pins, latch, delay, begun, history>>

DropMap(p) ==
    /\ At(p, "dropMap")
    /\ part[Partition[DropTag]] = NULL
    /\ part' = [part EXCEPT ![Partition[DropTag]] = p]
    /\ Go(p, "dropCheck")
    /\ UNCHANGED <<hdr, page, table, content, disk, wal, loc, pins, latch,
                   delay, drop, begun, history>>

\* Somebody else's pin can only be there to write the page: wait and retry.
PinnedDrop == "dropWait"

InvalidateBuffer(p) ==
    /\ At(p, "dropCheck")
    /\ CASE Header(p).tag # DropTag ->
              Go(p, "dropScan") /\ UNCHANGED <<hdr, table>>
         [] Header(p).tag = DropTag /\ Header(p).refcount # 0 ->
              Go(p, PinnedDrop) /\ UNCHANGED <<hdr, table>>
         [] OTHER ->
              /\ Update(Buf(p), [tag |-> NULL, valid |-> FALSE,
                                 dirty |-> FALSE, just |-> FALSE,
                                 ckpt |-> FALSE, waiter |-> FALSE])
              /\ table' = [table EXCEPT ![DropTag] = NULL]
              /\ Go(p, "dropScan")
    /\ ReleasePartitions(p)
    /\ UNCHANGED <<page, content, disk, wal, loc, pins, latch, delay, drop,
                   begun, history>>

\* WaitIO; without an I/O this is a busy loop.
DropWait(p) ==
    /\ At(p, "dropWait")
    /\ ~Header(p).io
    /\ Go(p, "dropMap")
    /\ UNCHANGED <<shared, loc, pins, latch, delay, drop, begun, history>>

(***************************************************************************)
(* The specification.                                                      *)
(***************************************************************************)

\* What a process does once it has begun.
Step(p) ==
    \/ Unpin(p) \/ Wake(p)
    \/ Lookup(p) \/ GetVictim(p) \/ NoVictim(p)
    \/ LockVictim(p) \/ UnlockVictim(p) \/ LockPartition(p)
    \/ Collision(p) \/ UseOther(p) \/ GiveUpVictim(p) \/ Retag(p)
    \/ StartInput(p) \/ ReadPage(p) \/ EndInput(p)
    \/ StartOutput(p) \/ FlushLsn(p) \/ FlushWal(p)
    \/ WritePage(p) \/ EndOutput(p)
    \/ ReleaseAll(p) \/ AbortIO(p) \/ UnpinAll(p)
    \/ Unlock(p) \/ ChangePage(p)
    \/ MarkBufferDirtyHint(p) \/ LogHint(p) \/ MarkHint(p)
    \/ LockForCleanup(p) \/ CheckCleanup(p) \/ UnlockForCleanup(p)
    \/ WaitForSignal(p) \/ ClearWaiter(p)
    \/ WaitDelay(p) \/ MarkNeeded(p) \/ SyncNext(p) \/ SyncOneBuffer(p)
    \/ SyncLock(p) \/ SyncUnlock(p) \/ EndCheckpoint(p)
    \/ DropScan(p) \/ DropMap(p) \/ InvalidateBuffer(p) \/ DropWait(p)

\* What it may choose to do, and what may happen to it.
Choice(p) ==
    \/ \E t \in Tags : BeginRead(p, t) \/ ReadSecond(p, t)
    \/ LockExclusive(p) \/ LockShare(p)
    \/ MarkBufferDirty(p) \/ SetHint(p)
    \/ BeginCleanup(p) \/ TakeRedo(p) \/ BeginDrop(p)
    \/ IoFails(p) \/ OtherEvent(p) \/ CancelWait(p)

Next == \E p \in Processes : Step(p) \/ Choice(p) \/ Release(p)

Spec == Init /\ [][Next]_vars


(***************************************************************************)
(* Properties.                                                             *)
(***************************************************************************)

UsingPage == {"using", "exclusive", "dirtied", "changed", "shared", "hinted",
              "hintLog", "hintMark", "cleanup", "cleanupCheck", "cleaned",
              "cleanupUnlock", "cleanupWait", "cleanupClear"}

\* What ReadBuffer returned stays the page it was asked for, valid, until
\* the pin is given back: no victim search takes a pinned buffer away.
UsersKeepTheirPage ==
    \A p \in Backends :
        pc[p] \in UsingPage =>
            /\ Header(p).tag = loc[p].tag /\ Header(p).valid
            /\ Buf(p) \in pins[p]

\* No change is lost and none is read back old: a valid buffer has the newest
\* change of its page, and a page that is in no valid buffer has it in its file
\* (BM_DIRTY, BM_JUST_DIRTIED and the recheck in BufferAlloc).  Hint bits are not
\* meant: "failing to write out the data would be harmless" (bufmgr.c:3889).
ContentsAreCurrent ==
    \A t \in Tags :
        (t = DropTag /\ drop # "no") \/
        LET bs == {b \in Buffers : hdr[b].tag = t /\ hdr[b].valid}
            Current(pg) == pg.lsn = latest[t].lsn /\ pg.ver = latest[t].ver
        IN  /\ \A b \in bs : Current(page[b])
            /\ bs = {} => Current(disk[t])

\* WAL before data: no page is in its file before the WAL record of its last
\* change is flushed, although hint bits may be set, and logged, on a page that
\* is being written (FlushBuffer's one look at the LSN, bufmgr.c:2867).
WalBeforeData == \A t \in Tags : disk[t].lsn <= wal.flush

Covers(new, old) ==
    /\ new.ver >= old.ver /\ new.lsn >= old.lsn
    /\ new.lsn = old.lsn /\ old.hint => new.hint

\* Recovery may start at the redo pointer of the last complete checkpoint: every
\* change, and every hint bit logged with an image, before it is in the files,
\* whether the checkpointer or a backend in need of the buffer wrote the page, and
\* however it was changed during the checkpoint.
CheckpointedIsOnDisk ==
    \A t \in Tags : (t = DropTag /\ drop # "no") \/ Covers(disk[t], onDisk[t])

\* README rule 5: while a cleanup lock is held no other process can have
\* pointers into the page.
CleanupIsAlone ==
    \A p \in Cleaners :
        At(p, "cleaned") =>
            \A q \in Processes \ {p} : Buf(p) \notin seen[q]
=============================================================================
