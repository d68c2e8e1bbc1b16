# Transactions, locks and storage of PostgreSQL, in TLA+

The repository is PostgreSQL 14.7 (`src/postgresql`) with one addition: a hook in
`exec_simple_query` that recognises declarations of functional dependencies and tries
to install a trigger for each.  The project follows what a statement relies on from the
client's message down to the disk: the message loop and the transaction blocks, the
locks a transaction takes, the shared-memory primitives under them, prepared
transactions and their recovery, the write-ahead log, and the buffer pool.

## 1. Inventory

| Part | State | What is hard about it |
|---|---|---|
| Transaction blocks, `access/transam/xact.c` | stack of `TransactionStateData`, `TBLOCK_*` and `TRANS_*` marks, chain flag, saved characteristics, subtransaction counter | commands only mark the stack, the work is done later in loops and recursions, and an error can strike between two turns |
| Message loop, `tcop/postgres.c` | `xact_started`, `doing_extended_query_message`, `ignore_till_sync`, `send_ready_for_query`, the list of parse trees | pipelines, multi-statement strings, skipping to Sync, exactly one ReadyForQuery |
| Functional-dependency hook, `tcop/postgres.c` | character position, name buffer, list pointers | jumps by fixed counts; its own `StartTransactionCommand` and `SPI_connect` |
| SPI, PL/pgSQL exception blocks, characteristics | stack of connections, nesting of `PG_TRY`, GUC save stack | restored by different mechanisms, left over by failed code |
| Heavyweight locks, `lmgr/lock.c`, `proc.c`, `deadlock.c` | lock table, wait queues, fast-path slots, strong-lock counters | deadlocks, queues that are rearranged, locks that move between two places |
| Lightweight locks, `lmgr/lwlock.c` | one atomic word, wait list, semaphores | lost and doubled wake-ups |
| Condition variables and barriers | wait list, latches, counters | phases that end because somebody leaves |
| Prepared transactions, `access/transam/twophase.c` | shared entries, WAL, state files, `pg_xact` | crash at any step, a checkpoint at the wrong time |
| Write-ahead log, `access/transam/xlog.c`, `walwriter.c` | reserved positions, insertion locks, ring of buffers, write and flush positions | parallel copying, page and segment borders, waiting for one another |
| Buffer manager, `storage/buffer/bufmgr.c` | headers, mapping table, pins, content locks, pages | state read under one lock and used under another; I/O that fails |

The properties that make these parts correct:

- the client is told the truth about its transaction, exactly once per request;
- rows become durable all together or not at all, and never from a failed transaction;
- the marks on the stack always fit together, so no walk over it dies;
- whatever fails, the backend gets back to its message loop;
- conflicting locks are never held together, nobody sleeps beside a free lock, and every
  deadlock is found, and only deadlocks are;
- what was prepared, committed, flushed or checkpointed survives a crash;
- a page stays in its buffer while it is used, and its contents are never older than what
  was written to it.

## 2. Modules

| Module | What it is |
|---|---|
| `Xact` | the state and routines of `xact.c`, with the parts of `spi.c`, `guc.c` and `variable.c` they call |
| `Backend` | `postgres.c`'s message loop over `Xact`; specification and properties |
| `SqlBlock`, `BackendAbs` | abstract specification (a transaction is a stack of row sets, commands act at once) and the mapping from `Backend` to it |
| `FdHook` | the scanner of functional-dependency declarations |
| `LWLock`, `RWLock` | the lightweight lock, down to single atomic operations; what it promises its callers |
| `ConditionVariable`, `Barrier` | condition variables, and barriers composed with them |
| `DeadLock` | the deadlock detector as operators on a configuration of the lock table |
| `LockTable` | the lock table, the waits of `proc.c`, with `DeadLock` run on the table's state |
| `FastPath` | fast-path slots and strong-lock counters, composed with `LockTable` |
| `TwoPhase` | prepared transactions with checkpoints, crashes and recovery |
| `WalPos`, `WalInsert` | arithmetic on log positions; insertion, write and flush of the log |
| `BufMgr` | the buffer pool, its users, the checkpointer and a process that drops a relation |
| `MC...` | the instances for TLC: constants, symmetry |
| `StackLemmas`, `CommandProofs`, `EndingProofs` | how the marks on the stack change, and that every step of `Backend` keeps them fitting |
| `TypeProofs`, `EndingTypes` | that every step of `Backend` keeps the types, in the same two halves |
| `BackendProofs`, `LWLockProofs`, `BarrierProofs` | the theorems about `Backend`, `LWLock` and `Barrier` |

### How state and code correspond

**Backend.**  `level` and the functions `blockState`, `state` and `frame` over levels are
the linked list of `TransactionStateData`; level 1 is `TopTransactionStateData`.
`frame` has an entry's name, resource owner (made or not), subtransaction number,
`prevXactReadOnly`, the rows written under it, and the GUC stack entry of its nest
level.  `spi` is `_SPI_stack`, `flags` is `MyXactFlags`, `saved` the `save_Xact*`
statics, `snapshot` is `FirstSnapshotSet`.  `pc` says where control is; `code` is the
nesting of function calls and exception blocks, so that an error knows whether a
`PG_CATCH` or `PostgresMain` gets it.  `db` and `prepared` are what commits leave
behind.  One action stands for one handler or statement, except in the loops of
`CommitTransactionCommand` and the recursion of `AbortCurrentTransaction`: there one
step is one turn, because an error can come between two turns.  Statements and their
failures are nondeterministic choices.  Deferred triggers run between `PreCommit` and
`FinishCommit`, with all the freedom of user code.  `owed`, `conn`, `asked`, `via` and
`was` are history variables (what the client is owed, the SPI connections open when the
message was read, whether the COMMIT or ROLLBACK given said AND CHAIN and in which block
state it was given, and the characteristics when the block was last live); no guard reads
them.

**LWLock.**  A step is at most one atomic access to `lock->state`, together with data that
the wait-list lock protects or that are private.  The 32-bit word is `lockcount` and the
set `flags`.  Every entry point that takes, waits for, updates or releases one lock is
modelled, and so is another user of a process's semaphore, who may post it at any time.

**ConditionVariable, Barrier.**  A step is one section of a spinlock or one access to a
latch.  `todo[p]` lists the steps that remain of the call that `p` is in.  `Droppers` are
those who call `BarrierArriveAndDetachExceptLast`.

**DeadLock, LockTable, FastPath.**  A step of `LockTable` is what is done under one
partition lock (all of them for the deadlock check).  The detector is a pure function of
the table; `VerdictIsRight` compares it with a reference definition (cycles in the
waits-for graph, over all orders of the queues) in every configuration the table gets
into.  `ListOrders` fixes one global order of PROCLOCKs and group members, where the
code has one per lock.  In `FastPath` a weak locker's test of the strong-lock counter
and what follows from it are two steps, as the code reads the counter without its
spinlock.

**TwoPhase.**  A step is one section of `TwoPhaseStateLock`, one WAL insertion or flush, or
one access to a field without the lock.  `wal`, `flushed`, `pg_xactOnDisk`,
`pg_twophase` and `control` are what survives `Crash`; recovery reads them record by
record.  `told` is what clients were told, `anomalies` which of the three things of section
7 recovery has met, and for which xid.

**WalInsert.**  A step is one spinlock section, one access to an insertion lock, one copy
or one write.  What a page holds is the set of positions that have their right contents.
Reserved space is counted in usable bytes and converted to file positions by `WalPos`,
page and segment headers included.

**BufMgr.**  A section of a buffer header's spinlock is a step, and so is the lookup under a
shared mapping lock.  Waiting on an I/O condition variable is a guard.  Any unpinned
buffer may be the victim, which covers every order of the clock sweep.  `XLogInsert`,
`XLogFlush` and `smgrwrite` are one step each; what they do inside is the subject of
`WalInsert`.  A page is its LSN, the number of its changes made without WAL, and whether a
hint bit was set since the last change.

## 3. Runs

| Run | Module | Properties | Distinct states |
|---|---|---|---|
| `blocks` | `Backend` | `TypeOK`, `StackShape`, `FatalOnlyAfterFailedStart`, `FailedNeverCommits`, `StringIsAtomic`, `ImplementsSqlBlock` | 273,265 |
| `protocol` | `Backend` | `ReadyStatusTrue`, `ReadyWhenOwed`, `SpiMatchesCalls`, `ImmediateAlone`, `ErrorRecovered` | 358,940 |
| `characteristics` | `Backend` | `ReadOnlyInherited`, `ChainOnlyIfAsked`, `ChainKeepsLive` | 709,652 |
| `chain_savepoint` | `Backend` | `ChainKeepsInSavepoint` (section 7) | violation |
| `fd_hook` | `FdHook` | `DeclarationRead`, `ScanEnds` | 46,872 |
| `lwlock` | `LWLock` | `WaiterInOnePlace`, `NoLostWakeup`, `PostsGivenBack`, `ImplementsRWLock` | 892,461 |
| `barrier` | `Barrier` | `PhaseIsNear`, `CountsAreTrue`, `OneElected`, `NobodyLeftBehind` | 304,660 |
| `lock_table` | `LockTable` | `NoConflict`, `VerdictIsRight`, `DeadlockIsNoticed`, `WaitEnds` | 114,956 |
| `fast_path` | `FastPath` | `WeakExcludesStrong`, `InOnePlace`, `ConflictsAreFound` | 196,384 |
| `two_phase` | `TwoPhase` | `PreparedIsKept`, `CommittedStays` | 2,049,899 |
| `wal_insert` | `WalInsert` | `FlushedIsOnDisk`, `AsyncInThreeCycles` | 1,525,645 |
| `buf_mgr` | `BufMgr` | `UsersKeepTheirPage`, `ContentsAreCurrent`, `WalBeforeData`, `CheckpointedIsOnDisk`, `CleanupIsAlone` | 650,007 |

What the runs show:

- **blocks**: blocks, savepoints, query strings, functions, exception blocks, committing
  procedures and PREPARE, with an error possible at every step.  The marks fit together;
  of the `elog(FATAL)` branches only the one in `TBLOCK_SUBBEGIN` is reached; a failed
  transaction never commits, a query string is atomic, and the client sees the
  transaction blocks of SQL.
- **protocol**: all message types in any order, statements that refuse to run in a block,
  declarations of functional dependencies, and functions that fail inside exception
  blocks.  The status byte is true whenever it is sent, a ReadyForQuery is sent when it is
  owed, running code finds its own SPI connections and no stray ones, and every error
  leads back to the loop.
- **characteristics**: isolation level and read-only mode through BEGIN, SET TRANSACTION,
  savepoints, errors and AND CHAIN; a transaction is chained only if the command that
  ended the one before asked for it.
- **fd_hook**: every declaration in the documented format within the bounds is read as it
  was written, and the scan ends inside the string.
- **lwlock**: three processes use all entry points while a stray post comes in.  The lock
  is a readers-writer lock, nobody sleeps beside a free lock without somebody being on
  the way to wake them, and foreign posts are given back.
- **barrier**: nobody is overtaken by two phases, the counters are true, one participant is
  elected, the phase advances only with everybody, and no call but
  `BarrierArriveAndDetachExceptLast` leaves waiters with nobody to wait for.
- **lock_table**: conflicting modes are not held together, the detector's verdict is right
  in every configuration the table gets into, no deadlock goes unnoticed though a process
  looks once in a wait, and every wait ends.  The transactions start as three processes
  of their own or as one beside a lock group of two.
- **fast_path**: a strong lock excludes the weak ones in the slots, a lock that moves to
  the table or to a prepared transaction is neither lost nor doubled, and
  `GetLockConflicts` overlooks none.  Every process is a group of its own here.
- **two_phase**: what is prepared has one valid entry, what is finished has none, and what
  is committed stays so, over two crashes and two checkpoints.  `PreparedIsKept` has three
  exceptions, each for the one xid concerned; section 7 describes them.
- **wal_insert**: what counts as flushed is on disk and what counts as written is in the
  file; nobody PANICs over a page that is gone or not there yet; an asynchronous commit is
  on disk after three cycles of the WAL writer, and is never left pending beside a
  hibernating one that nobody is about to wake.
- **buf_mgr**: a page stays in its buffer while somebody uses it, no change is lost or read
  back old, WAL is on disk before data (also for hint bits logged with an image, set under
  a share lock while the page is being written), a complete checkpoint has everything
  before its redo point in the files, and a cleanup lock is alone.

Deadlock is checked except in `barrier`, `lwlock`, `lock_table`, `two_phase` and `buf_mgr`,
where the processes have a bounded amount of work and may all be done.  In `lock_table`
`WaitEnds` says that nobody is left waiting; in `lwlock` and `barrier` being stuck is what
`NoLostWakeup` and `NobodyLeftBehind` are about.  `two_phase` and `buf_mgr` state nothing
about getting stuck.

### Bounds

- `Backend`: `MaxSubId` (2^32 - 1 in the code) is 3 or 4.  It is the overflow limit itself, so
  the error at the limit happens, and it allows up to three nested levels: a child, a
  parent that is neither top nor current, and the top.  `MaxCalls` = 4 in `blocks` allows an
  exception block inside another one with a call in each; in `protocol` it is 3, and
  `MaxSpi` = 1 bounds the connections that declarations in a failed block leave behind.  Two statements make an implicit block.
  Two rows and two names tell "before" from "after" and "same" from "other".  `Features`
  and `Messages` divide the language among the runs; each run has the features that its
  properties depend on.
- `FdHook`: names of one and two characters, one and two columns a side.  The loops look at
  one character, and at the one after a closing quote.
- `LWLock`: three processes make one call each and then release.  Three are needed for a
  holder, a waiter and a third who takes the lock between the release and the wake-up.
  One stray post shows that absorbed posts are returned.
- `Barrier`: three processes, one of them in `Droppers`, two phases, each attaching once:
  enough for one to leave while a second arrives and a third still sleeps from the phase
  before.  A barrier keeps no identities, so a process that attaches again is like a new
  one.
- `LockTable`: three transactions on two objects give cycles of two and of three, and soft
  edges.  `Workloads` says how many locks each asks for; the second workload has a lock
  group of two beside one other process, with three processes in a queue at most.  Two
  groups of two are not in the run.  One process may be cancelled or release early.
- `FastPath`: one slot, so that it fills up; two backends and a prepared one.
- `TwoPhase`: two transaction ids, one GID, up to two checkpoints and two crashes, and
  `MaxWork` = 4 on the sum of ids given out, checkpoints and crashes, which leaves room
  for each of the three exceptions of `PreparedIsKept` but not for everything at once.
- `WalInsert`: pages of 4 units and segments of 12, with headers of 1 and 2, so that a
  record crosses a page and a segment; two buffers, so that the ring wraps.
  One record each: a synchronous commit beside an asynchronous one or a log switch.
- `BufMgr`: two buffers and two pages, two logged changes and one unlogged, a checkpointer
  and a process that drops a relation.  One backend changes pages (`Writers`), the other
  sets hint bits (`Hints`); both read, and either can be in need of a victim while the
  other writes it out.  I/O fails for one backend and the checkpointer (`Errors`).

### Fairness

`Spec` of `Backend` assumes weak fairness of `Abort` and `Recovered` only: the error handler
runs with interrupts held, calls no user code and waits for nobody.  Clients and user code
are not assumed to go on.  `FdHook` assumes weak fairness of its `Next`, one process running
a loop.  `FairSpec` of `LockTable` assumes that the deadlock timer of a waiting process
fires (`HandleTimeout`), and that a process that is awake goes on and ends its transaction:
user code that keeps its locks for ever is not the lock manager's concern.  The other
specifications assume no fairness; their properties are safety properties, and
`AsyncInThreeCycles` counts the cycles of the WAL writer and looks at its latch.

## 4. Refinement

**SqlBlock.**  It has no marks: RELEASE merges the row sets at once, COMMIT starts
committing at once, and an error fails the block at once.  The mapping reads the marks:
an entry marked `SUBRELEASE` or `SUBCOMMIT` already belongs to its parent, one marked
`SUBABORT_*` is already gone, and at `pc = "error"` everything that
`AbortCurrentTransaction` is going to drop is gone.  Run `blocks` shows that each step of
the loops is a stutter or a step of `SqlBlock`, errors in the middle of them included.

**RWLock.**  A set of shared holders or one exclusive holder.  The mapping reads who holds
the lock; the queue, the flags and the semaphores are stutters.  It is checked in run
`lwlock` and proved (`LockRefines`).

## 5. Proofs

The theorems hold for all values of the constants under the named assumptions of the
modules: in `Xact` and `Backend`, `MaxSubId` is a positive natural number, the other bounds
are natural numbers, the default isolation levels are isolation levels, two marker strings
are no isolation level and no name, and `Messages` and `Features` name known ones; in
`LWLock`, there are finitely many processes, fewer than the exclusive value of the lock word
(the code asserts `MAX_BACKENDS` for this); in `Barrier`, finitely many processes, some of
which are `Droppers`, one condition variable, and a bound on phases.

| Theorem | Module | Says |
|---|---|---|
| `TypeCorrect` | `BackendProofs` | `[]TypeOK` |
| `StackAlwaysWellFormed` | `BackendProofs` | `[]StackShape` |
| `FatalBranchesDead` | `BackendProofs` | `[]FatalOnlyAfterFailedStart` |
| `ExclusionHolds` | `LWLockProofs` | `[]Exclusion`: an exclusive holder is the only holder |
| `LockRefines` | `LWLockProofs` | `LWLock` implements `RWLock` |
| `CountsHold` | `BarrierProofs` | `[]CountsAreTrue` |
| `PhaseHolds` | `BarrierProofs` | `[]PhaseIsNear` |
| `NobodyIsLeft` | `BarrierProofs` | the action property `NobodyLeftBehind` |
| `OneIsElected` | `BarrierProofs` | `[]OneElected` |

All but `ExclusionHolds` state a property that a run also checks; `Exclusion` follows from
the refinement, so no run repeats it.

### The stack of a backend

`StackShape` relates an entry to its parent.  That is not inductive: COMMIT, ROLLBACK and
ROLLBACK TO rewrite every entry from the top of the stack down to a target, so what
matters is what can lie anywhere below an entry.  `StackInv` adds to it

- `Ancestry`: the marks any entry further down may carry, given the one above it;
- `Depth`: how the nesting level, the subtransaction counter and the nesting of exception
  blocks bound one another, and where control can be with exception blocks open;
- `OpenBlock`: levels that are no exception blocks are savepoints, and exist only in a
  block that is in progress or being ended;
- `PlaceStates`: the block states that each place of the message loop can meet.

The inductive invariant `IInv` is `TypeOK`, `StackInv`, `Started` (statements run with
`xact_started` set) and `FatalOnlyAfterFailedStart`.  `StackLemmas` has a lemma for each
way of changing the stack (marking, pushing, popping, renaming the top); `CommandProofs` and
`EndingProofs` keep `StackInv` action by action, `TypeProofs` and `EndingTypes` keep
`TypeOK`; `BackendProofs` puts them together.

### The lightweight lock

`LockInv` says that the lock word counts the holders: the exclusive value for one holder, or
one for each shared holder; and that a process on its way to the lock does not hold it yet.
Exclusion follows because there are fewer processes than the exclusive value.  For the
refinement, every step that changes who holds the lock is shown to be a step of `RWLock`, and
all the others to be stutters.

### The barrier

`PartyInv` ties the counters to the processes attached and waiting, and says that no waiter
is a phase behind; `ElectionInv` keeps the history of who came and who was elected in each
phase.  The steps sort into five kinds, and those of the condition variable leave both
invariants alone.

## 6. What only TLC checks

- Liveness: `ErrorRecovered`, `ScanEnds`, `WaitEnds`.  The prover does not reason about
  fairness.
- The properties of `protocol` and `characteristics`, and `FailedNeverCommits` and
  `StringIsAtomic`: each talks about one moment, and what makes it true was decided many
  steps before, so an inductive invariant has to relate every place of the message loop to
  the message in hand.  `SpiMatchesCalls` needs a sum over the open calls besides, an
  induction over data.
- `ImplementsSqlBlock`.  The mapping picks the innermost entry that no pending walk is going
  to remove and builds a sequence of row sets up to it, so each action needs the choice
  recomputed on both sides of the step.
- `WaiterInOnePlace`, `NoLostWakeup` and `PostsGivenBack` of `LWLock`: they need an account
  of where every waiter and every semaphore post is.
- `FdHook`: what the loops have read is an induction over the text.
- `LockTable` and `FastPath`: whom `ProcLockWakeup` grants, and what the deadlock search
  finds, are folds and recursive functions over queues, again an induction over data.
- `TwoPhase`, `WalInsert` and `BufMgr`: their invariants relate the contents of the log, of
  the ring and of the disk through long chains of steps.

## 7. Where the code and its documentation disagree

One disagreement has a run of its own.

- COMMIT AND CHAIN inside a savepoint (`chain_savepoint`).  The characteristics are saved if
  the *current* entry has its chain flag set, and the flag is on the top entry
  (`xact.c:2964`).  The new transaction starts with what an earlier chain saved, or with
  zero.  `commit.sgml:60-62` promises the characteristics of the one just finished.

The others were met while modelling.  They have no run of their own; the properties are
stated so that they allow for exactly these.

- `spi.c:478`, "We should only find entries to pop during an ABORT."  In a failed block
  the connection of a second declaration of a functional dependency is popped by no abort,
  so a later commit may find it.  `SpiMatchesCalls` allows for connections that were
  there when the message was read.
- `xact.c:4614`, the `AssertState` at the end of `RollbackAndReleaseCurrentSubTransaction`
  lists the states of a running transaction.  The parent of an exception block in a
  deferred trigger is in `TBLOCK_END` or `TBLOCK_PREPARE`.  The model is of a build without
  assertions.
- `barrier.c:216`, `BarrierArriveAndDetachExceptLast` lowers the number of participants
  without looking at who has arrived.  With waiters about, everybody left may have arrived
  and nobody releases them.  `NobodyLeftBehind` excepts this call and no other.
- Prepared transactions after a crash, the three exceptions of `PreparedIsKept`:
  - *doubled*: a crash during a checkpoint leaves a state file whose record is after the
    redo point.  Recovery adds an entry for each (`twophase.c:2423-2481` does not look for
    the other), so there may be one too many, never none;
  - *revived*: ROLLBACK PREPARED does not set `delayChkpt` as COMMIT PREPARED does
    (`twophase.c:2376-2403`).  A checkpoint that begins after its record and takes
    `pg_xact` before its status leaves a state file, the unlinking of which is not
    made durable; a crash may bring the transaction back;
  - *reused*: the status of a failed transaction may be on disk before its abort record,
    which is not flushed.  After a crash its xid is given out again.  `TrimCLOG` clears the
    status in memory only and after the checkpoint at the end of recovery (`xlog.c:8016`,
    `8130`), so a second crash finds the old status and drops the prepared transaction
    that has the xid now.

## 8. Not modelled

In the modelled files:

- `xact.c`: parallel workers, transaction identifiers, WAL records, callbacks, resource
  owners beyond their existence, `savepointLevel` (constant in the code); an error after
  the commit record is written (a PANIC in the code) or inside `AbortTransaction` itself;
  deferred triggers of a commit made by a procedure, which only succeed or fail;
- `variable.c`: more than one option in one BEGIN or SET TRANSACTION; `deferrable`, which
  behaves as the isolation level does; recovery mode;
- the hook: declarations that do not follow the documented format or do not fit its buffers
  (the format and the sizes are preconditions of `FdHook`), and the text of the trigger.
  `SPI_execute` is told to run read-only and refuses to create the function, so nothing is
  ever installed;
- `lock.c`, `proc.c`: `dontWait`, session locks, recovery of prepared locks, the views; one
  order of the lists of PROCLOCKs for all locks.  In `FastPath` a failed PREPARE keeps its
  strong count, and at commit the count goes down before the lock does, so the
  counter is not stated to equal the strong locks held;
- `lwlock.c`: tranches, statistics, `LWLockReleaseAll`; `condition_variable.c`: timeouts;
- `twophase.c`: subtransactions, locks and the contents of the callbacks, standby recovery;
- `xlog.c`: full-page images, creation and recycling of files, archiving, `wal_sync_method`
  other than fsync;
- `bufmgr.c`: relation extension, the zeroing modes, local buffers, access strategies,
  prefetching, conflicts with standby pins, unlogged relations.

Elsewhere: the parts marked `not_modelled` in `PROJECT.json`, with the reasons there.
PostgreSQL is far larger than what is modelled here: the parser, planner and executor
appear as a choice of what a statement does, access methods as sets of rows and numbers of
changes.
