-------------------------------- MODULE Xact --------------------------------
(***************************************************************************)
(* The transaction-block machinery of access/transam/xact.c as one backend *)
(* sees it: the stack of TransactionState entries, the TBLOCK_* marks that *)
(* the transaction commands leave on it, and the routines that act on the  *)
(* marks later (CommitTransactionCommand) or after an error                *)
(* (AbortCurrentTransaction).  Each turn of their loops and recursions is  *)
(* one step, because an error can strike between two turns.                *)
(*                                                                         *)
(* The entry at nesting level 1 is TopTransactionStateData; CurrentTrans-  *)
(* actionState is the entry at "level".  TBLOCK_ and TRANS_ prefixes are   *)
(* dropped.  Parallel workers (TBLOCK_PARALLEL_INPROGRESS) are left out,   *)
(* and so is savepointLevel, which no code ever changes.                   *)
(***************************************************************************)
EXTENDS Integers, Sequences, FiniteSets, Functions

CONSTANTS
    Names,        \* savepoint names
    Rows,         \* row versions; each is written at most once
    IsoLevels,    \* isolation levels (deferrable behaves alike)
    DefaultIso,   \* DefaultXactIsoLevel
    ZeroIso,      \* XACT_READ_UNCOMMITTED, the value 0 of a static int
    MaxSubId,     \* the limit PushTransaction checks (2^32-1 in the code)
    MaxCalls      \* bound: function calls and exception blocks open at once

ASSUME CallAssumption  == MaxCalls \in Nat
ASSUME SubIdAssumption == MaxSubId \in Nat /\ MaxSubId >= 1
ASSUME IsoAssumption   == {DefaultIso, ZeroIso} \subseteq IsoLevels
ASSUME UnsetAssumption == "unset" \notin IsoLevels
ASSUME NameAssumption  == "none" \notin Names

VARIABLES
    pc,          \* where control is (see Places)
    code,        \* function calls open inside each open exception block; the
                 \* first element counts those outside any such block
    deferred,    \* the user code now running is CommitTransaction's
    level,       \* nesting level of CurrentTransactionState
    blockState,  \* per level: TBLOCK_*
    state,       \* per level: TRANS_*
    frame,       \* per level: the other fields of TransactionStateData
    chain,       \* the top entry's chain flag (never set on another one)
    chars,       \* XactIsoLevel and XactReadOnly
    saved,       \* the save_Xact* variables
    snapshot,    \* FirstSnapshotSet
    flags,       \* MyXactFlags
    lastSubid,   \* currentSubTransactionId
    spi,         \* connectSubid of each open SPI connection
    db,          \* rows of committed transactions
    prepared     \* the row set of each prepared transaction

control  == <<pc, code, deferred>>
modes    == <<chain, chars, saved, snapshot, flags>>
stack    == <<level, blockState, state, frame>>
durable  == <<db, prepared>>
xactVars == <<control, modes, stack, durable, lastSubid, spi>>

Levels == 1..MaxSubId   \* every level above 1 has used up a number

TopBlockStates ==
    {"DEFAULT", "STARTED", "BEGIN", "INPROGRESS", "IMPLICIT_INPROGRESS", "END",
     "ABORT", "ABORT_END", "ABORT_PENDING", "PREPARE"}

SubBlockStates ==
    {"SUBBEGIN", "SUBINPROGRESS", "SUBRELEASE", "SUBCOMMIT", "SUBABORT",
     "SUBABORT_END", "SUBABORT_PENDING", "SUBRESTART", "SUBABORT_RESTART"}

TransStates ==
    {"DEFAULT", "START", "INPROGRESS", "COMMIT", "ABORT", "PREPARE"}

Access == {"rw", "ro"}

\* exec: statement or deferred-trigger code;  catch: a PG_CATCH of an exception
\* block;  commit: entry of CommitTransactionCommand;  loop: its do-while;
\* chain: its restart for AND CHAIN;  error: AbortCurrentTransaction.  The other
\* places belong to the callers in postgres.c.
Places == {"top", "parse", "stmt", "query", "exec", "catch", "done", "commit",
           "loop", "chain", "finished", "error", "recovered", "fatal", "closed"}

-----------------------------------------------------------------------------
(* Fields of an entry, and the GUC save stack of the two characteristics.  *)

DefaultChars == [iso |-> DefaultIso, acc |-> "rw"]

NoPrior == [iso |-> "unset", acc |-> "unset"]

NoFrame == [name |-> "none", owner |-> FALSE, subid |-> 0, prevAcc |-> "rw",
            work |-> {}, prior |-> NoPrior]

\* The fields of a that are set, the others from b.
Overlay(a, b) == [iso |-> IF a.iso = "unset" THEN b.iso ELSE a.iso,
                  acc |-> IF a.acc = "unset" THEN b.acc ELSE a.acc]

bstate == blockState[level]

IsAbortedTransactionBlockState == bstate \in {"ABORT", "SUBABORT"}

IsTransactionBlock == bstate \notin {"DEFAULT", "STARTED"}

IsTransactionState == state[level] = "INPROGRESS"

\* Rows written by this backend and not yet committed or rolled back.
Live == UNION {frame[i].work : i \in 1..level}

\* ereport(ERROR): the innermost exception block catches it, else PostgresMain.
Raise == pc' = IF Len(code) > 1 THEN "catch" ELSE "error"

SetBlockState(b) == blockState' = [blockState EXCEPT ![level] = b]

XactInit ==
    /\ pc = "top" /\ code = <<0>> /\ deferred = FALSE
    /\ level = 1
    /\ blockState = [i \in Levels |-> IF i = 1 THEN "DEFAULT" ELSE "FREE"]
    /\ state = [i \in Levels |-> "DEFAULT"]
    /\ frame = [i \in Levels |-> NoFrame]
    /\ chain = FALSE
    /\ chars = DefaultChars
    /\ saved = [iso |-> ZeroIso, acc |-> "rw"]
    /\ snapshot = FALSE
    /\ flags = {}
    /\ lastSubid = 1
    /\ spi = << >>
    /\ db = {}
    /\ prepared = {}

-----------------------------------------------------------------------------
(* Starting and ending the top-level transaction.                          *)

StartTransaction(b, c) ==
    /\ state' = [state EXCEPT ![1] = "INPROGRESS"]
    /\ blockState' = [blockState EXCEPT ![1] = b]
    /\ frame' = [frame EXCEPT ![1] = [NoFrame EXCEPT !.owner = TRUE, !.subid = 1]]
    /\ chars' = c
    /\ flags' = {}
    /\ lastSubid' = 1
    /\ UNCHANGED level

\* An error before "done with start processing": blockState is still DEFAULT.
StartTransactionFails ==
    /\ pc' = "error"
    /\ state' = [state EXCEPT ![1] = "START"]
    /\ \E made \in BOOLEAN :
          frame' = [frame EXCEPT ![1] = [NoFrame EXCEPT !.owner = made, !.subid = 1]]
    /\ chars' = DefaultChars
    /\ flags' = {}
    /\ lastSubid' = 1
    /\ UNCHANGED <<code, deferred, level, blockState, chain, saved, snapshot,
                   spi, durable>>

\* SET LOCAL settings go back to their prior values, open SPI connections go.
AtEOXact ==
    /\ chars' = Overlay(frame[1].prior, chars)
    /\ spi' = << >>

\* The resources are skipped when the transaction has no resource owner yet.
AbortTransaction ==
    IF frame[1].owner THEN AtEOXact ELSE UNCHANGED <<chars, spi>>

CleanupTransaction ==
    /\ state' = [state EXCEPT ![1] = "DEFAULT"]
    /\ blockState' = [blockState EXCEPT ![1] = "DEFAULT"]
    /\ frame' = [frame EXCEPT ![1] = NoFrame]
    /\ snapshot' = FALSE
    /\ UNCHANGED level

\* From the point where user code has all run: commit, or hand the rows over to
\* a prepared transaction.
CommitTransaction ==
    /\ IF bstate = "PREPARE"
       THEN prepared' = {frame[1].work} /\ UNCHANGED db
       ELSE db' = db \cup frame[1].work /\ UNCHANGED prepared
    /\ AtEOXact
    /\ CleanupTransaction

-----------------------------------------------------------------------------
(* Starting and ending a subtransaction.                                   *)

\* Mutant: the check for subtransaction number overflow is missing.
CanPushMutant == TRUE

\* At the limit PushTransaction raises an error and leaves the counter alone.
CanPush == lastSubid < MaxSubId

NewFrame(n) ==
    [NoFrame EXCEPT !.name = n, !.subid = lastSubid + 1, !.prevAcc = chars.acc]

PushTransaction(n) ==
    /\ CanPush
    /\ level' = level + 1
    /\ lastSubid' = lastSubid + 1
    /\ blockState' = [blockState EXCEPT ![level + 1] = "SUBBEGIN"]
    /\ frame' = [frame EXCEPT ![level + 1] = NewFrame(n)]
    /\ UNCHANGED state

\* An error inside StartSubTransaction leaves state at START, with or without
\* the resource owner made.
StartSubTransaction ==
    /\ state' = [state EXCEPT ![level] = "INPROGRESS"]
    /\ frame' = [frame EXCEPT ![level].owner = TRUE]
    /\ SetBlockState("SUBINPROGRESS")

StartSubTransactionFails ==
    /\ state' = [state EXCEPT ![level] = "START"]
    /\ \E made \in BOOLEAN : frame' = [frame EXCEPT ![level].owner = made]
    /\ UNCHANGED blockState

\* Parent entry p, once the current entry is popped.
PopTransaction(p) ==
    /\ level' = level - 1
    /\ blockState' = [blockState EXCEPT ![level] = "FREE"]
    /\ state' = [state EXCEPT ![level] = "DEFAULT"]
    /\ frame' = [frame EXCEPT ![level] = NoFrame, ![level - 1] = p]

\* Mutant: the connections of a failed subtransaction stay.
AtEOSubXact_SPIMutant2(id) == UNCHANGED spi

\* Pop connections while they are the ending subtransaction's: all after the last
\* one of another subtransaction go.
AtEOSubXact_SPI(id) ==
    spi' = SubSeq(spi, 1, Cardinality({i \in 1..Len(spi) : \E j \in i..Len(spi) : spi[j] # id}))

\* The rows, and the GUC stack entries, pass to the parent; XactReadOnly is set
\* back to what it was when the subtransaction began.
CommitSubTransaction ==
    LET f == frame[level]
    IN  /\ PopTransaction([frame[level - 1] EXCEPT !.work = @ \cup f.work,
                                                   !.prior = Overlay(@, f.prior)])
        /\ chars' = [chars EXCEPT !.acc = f.prevAcc]
        /\ AtEOSubXact_SPI(f.subid)

AbortSubTransaction ==
    LET f == frame[level]
    IN  IF f.owner
        THEN /\ chars' = [Overlay(f.prior, chars) EXCEPT !.acc = f.prevAcc]
             /\ AtEOSubXact_SPI(f.subid)
        ELSE chars' = [chars EXCEPT !.acc = f.prevAcc] /\ UNCHANGED spi

CleanupSubTransaction == PopTransaction(frame[level - 1])

-----------------------------------------------------------------------------
(* StartTransactionCommand and the implicit block of a multi-statement     *)
(* query.  The caller supplies pc'.                                        *)

CommandStates ==
    {"INPROGRESS", "IMPLICIT_INPROGRESS", "SUBINPROGRESS", "ABORT", "SUBABORT"}

\* Inside a block nothing happens; "b" is the state to leave STARTED for, the
\* effect of a following BeginImplicitTransactionBlock.
StartTransactionCommand(b) ==
    \/ /\ bstate = "DEFAULT"
       /\ StartTransaction(b, DefaultChars)
       /\ UNCHANGED <<code, deferred, chain, saved, snapshot, spi, durable>>
    \/ /\ bstate \in CommandStates
       /\ UNCHANGED <<code, deferred, modes, stack, durable, lastSubid, spi>>

BeginImplicitTransactionBlock ==
    IF bstate = "STARTED" THEN SetBlockState("IMPLICIT_INPROGRESS")
    ELSE UNCHANGED blockState

EndImplicitTransactionBlock ==
    IF bstate = "IMPLICIT_INPROGRESS" THEN SetBlockState("STARTED")
    ELSE UNCHANGED blockState

-----------------------------------------------------------------------------
(* The transaction commands.  They only mark the stack; the work is left   *)
(* to CommitTransactionCommand.                                            *)

Marked == <<code, deferred, level, state, frame, chars, saved, snapshot, flags,
            lastSubid, spi, durable>>

Refused == Raise /\ UNCHANGED <<code, deferred, modes, stack, durable, lastSubid,
                                spi>>

Died == pc' = "fatal" /\ UNCHANGED <<code, deferred, modes, stack, durable,
                                     lastSubid, spi>>

\* The option of a BEGIN or SET TRANSACTION: one of the two characteristics.
NoOption == NoPrior
Options  == [iso : IsoLevels, acc : {"unset"}] \cup [iso : {"unset"}, acc : Access]

\* Mutant: a read-only parent does not keep a subtransaction from writing.
OptionAllowedMutant(o) == (~snapshot /\ level = 1) \/ o.iso \in {"unset", chars.iso}

\* check_XactIsoLevel and check_transaction_read_only: too late to change after
\* the first snapshot or in a subtransaction, except from rw to ro.
OptionAllowed(o) ==
    \/ ~snapshot /\ level = 1
    \/ o.iso \in {"unset", chars.iso} /\ (o.acc = "rw" => chars.acc = "rw")

\* set_config_option with GUC_ACTION_LOCAL: the first setting at this nest level
\* stacks the prior value.
SetOption(o) ==
    /\ chars' = Overlay(o, chars)
    /\ frame' = [frame EXCEPT ![level].prior =
                    Overlay(@, [iso |-> IF o.iso = "unset" THEN "unset" ELSE chars.iso,
                                acc |-> IF o.acc = "unset" THEN "unset" ELSE chars.acc])]

SetTransaction(o) ==
    \/ /\ OptionAllowed(o)
       /\ SetOption(o)
       /\ pc' = "done"
       /\ UNCHANGED <<code, deferred, level, blockState, state, chain, saved, snapshot,
                      flags, lastSubid, spi, durable>>
    \/ ~OptionAllowed(o) /\ Refused

\* BEGIN: BeginTransactionBlock, then the option.  A refused option finds the
\* block already marked.
BeginTransactionBlock(o) ==
    /\ bstate \in {"STARTED", "IMPLICIT_INPROGRESS", "INPROGRESS", "SUBINPROGRESS"}
    /\ SetBlockState(IF level = 1 /\ bstate # "INPROGRESS" THEN "BEGIN" ELSE bstate)
    /\ IF OptionAllowed(o) THEN SetOption(o) /\ pc' = "done"
                           ELSE UNCHANGED <<chars, frame>> /\ Raise
    /\ UNCHANGED <<code, deferred, level, state, chain, saved, snapshot, flags,
                   lastSubid, spi, durable>>

\* Every open subtransaction gets the mark that "sub" gives its block state, the
\* top entry the one that "top" gives.
MarkAll(sub, top) ==
    blockState' = [i \in Levels |-> IF i = 1 THEN top[blockState[1]]
                                    ELSE IF i <= level THEN sub[blockState[i]]
                                    ELSE blockState[i]]

\* Mutant: COMMIT in an aborted subtransaction goes on with the parent.
DropTopMutant == [INPROGRESS |-> "END", ABORT |-> "ABORT_END",
                  STARTED |-> "ABORT_PENDING", IMPLICIT_INPROGRESS |-> "ABORT_PENDING"]

DropSub == [SUBINPROGRESS |-> "SUBABORT_PENDING", SUBABORT |-> "SUBABORT_END"]
DropTop == [INPROGRESS |-> "ABORT_PENDING", ABORT |-> "ABORT_END",
            STARTED |-> "ABORT_PENDING", IMPLICIT_INPROGRESS |-> "ABORT_PENDING"]

\* The walk from the current entry to the top: mark each entry, or die on one
\* that is in none of the states expected.
Walk(sub, top, tops, ch) ==
    IF /\ \A i \in 2..level : blockState[i] \in DOMAIN sub
       /\ blockState[1] \in tops
    THEN MarkAll(sub, top) /\ chain' = ch /\ pc' = "done" /\ UNCHANGED Marked
    ELSE Died

\* COMMIT [AND CHAIN]; with end = "PREPARE", PREPARE TRANSACTION.
EndTransactionBlock(end, ch) ==
    \/ bstate \in {"STARTED", "IMPLICIT_INPROGRESS"} /\ ch /\ Refused
    \/ /\ bstate \in {"STARTED", "IMPLICIT_INPROGRESS", "INPROGRESS"}
       /\ bstate # "INPROGRESS" => ~ch
       /\ SetBlockState(IF bstate = "STARTED" THEN bstate ELSE end)
       /\ chain' = ch /\ pc' = "done" /\ UNCHANGED Marked
    \/ /\ bstate = "SUBINPROGRESS"
       /\ Walk([SUBINPROGRESS |-> "SUBCOMMIT"], [INPROGRESS |-> end],
               {"INPROGRESS"}, ch)
    \/ /\ bstate \in {"ABORT", "SUBABORT"}
       /\ Walk(DropSub, DropTop, {"INPROGRESS", "ABORT"}, ch)

\* ROLLBACK [AND CHAIN].
UserAbortTransactionBlock(ch) ==
    \/ bstate \in {"STARTED", "IMPLICIT_INPROGRESS"} /\ ch /\ Refused
    \/ /\ bstate \in {"STARTED", "IMPLICIT_INPROGRESS"} => ~ch
       /\ Walk(DropSub, DropTop,
               IF level = 1 THEN DOMAIN DropTop ELSE {"INPROGRESS", "ABORT"}, ch)

\* SAVEPOINT; RequireTransactionBlock refuses it outside a block.
DefineSavepoint(n) ==
    \/ /\ \/ bstate \in {"STARTED", "IMPLICIT_INPROGRESS"}
          \/ bstate \in {"INPROGRESS", "SUBINPROGRESS"} /\ ~CanPush
       /\ Refused
    \/ /\ bstate \in {"INPROGRESS", "SUBINPROGRESS"}
       /\ PushTransaction(n)
       /\ pc' = "done"
       /\ UNCHANGED <<code, deferred, modes, durable, spi>>

\* Mutant: the outermost entry with the name.
TargetMutant(n) ==
    LET found == {i \in 2..level : frame[i].name = n}
    IN  IF found = {} THEN 0 ELSE CHOOSE i \in found : \A j \in found : j >= i

\* The innermost entry with the name, 0 when there is none.
Target(n) ==
    LET found == {i \in 2..level : frame[i].name = n}
    IN  IF found = {} THEN 0 ELSE CHOOSE i \in found : \A j \in found : j <= i

\* Mutant: only the named entry is marked, not the ones inside it.
ReleaseSavepointMutant(n) ==
    /\ bstate = "SUBINPROGRESS"
    /\ Target(n) # 0
    /\ blockState' = [blockState EXCEPT ![Target(n)] = "SUBRELEASE"]
    /\ pc' = "done"
    /\ UNCHANGED <<chain, Marked>>

\* RELEASE.
ReleaseSavepoint(n) ==
    \/ /\ bstate \in {"STARTED", "IMPLICIT_INPROGRESS", "INPROGRESS", "SUBINPROGRESS"}
       /\ Target(n) = 0
       /\ Refused
    \/ /\ bstate = "SUBINPROGRESS"
       /\ Target(n) # 0
       /\ blockState' = [i \in Levels |-> IF i \in Target(n)..level THEN "SUBRELEASE"
                                          ELSE blockState[i]]
       /\ pc' = "done"
       /\ UNCHANGED <<chain, Marked>>

\* ROLLBACK TO.
RollbackToSavepoint(n) ==
    \/ /\ bstate \in CommandStates \cup {"STARTED"}
       /\ Target(n) = 0
       /\ Refused
    \/ /\ Target(n) # 0
       /\ IF \A i \in Target(n)..level : blockState[i] \in DOMAIN DropSub
          THEN /\ blockState' = [i \in Levels |->
                    IF i \notin Target(n)..level THEN blockState[i]
                    ELSE IF i > Target(n) THEN DropSub[blockState[i]]
                    ELSE IF blockState[i] = "SUBABORT" THEN "SUBABORT_RESTART"
                    ELSE "SUBRESTART"]
               /\ pc' = "done"
               /\ UNCHANGED <<chain, Marked>>
          ELSE Died

\* May a statement that must not run inside a block go ahead?
PreventInTransactionBlock ==
    ~IsTransactionBlock /\ level = 1 /\ "PIPELINING" \notin flags

-----------------------------------------------------------------------------
(* User code: what a statement, a function it calls or a deferred trigger  *)
(* may do, at pc = "exec".  A function holds an SPI connection; an         *)
(* exception block is an internal subtransaction (pl_exec.c).              *)

inner == Len(code)                       \* 1 + the open exception blocks

CanNest == SumFunction(code) + inner <= MaxCalls

Write(r) ==
    \/ /\ r \notin Live \cup db \cup UNION prepared
       /\ chars.acc = "rw"
       /\ frame' = [frame EXCEPT ![level].work = @ \cup {r}]
       /\ snapshot' = TRUE
       /\ UNCHANGED <<control, chain, chars, saved, flags, level, blockState, state,
                      durable, lastSubid, spi>>
    \/ chars.acc = "ro" /\ Refused

SPI_connect ==
    /\ CanNest
    /\ code' = [code EXCEPT ![inner] = @ + 1]
    /\ spi' = Append(spi, frame[level].subid)
    /\ UNCHANGED <<pc, deferred, modes, stack, durable, lastSubid>>

SPI_finish ==
    /\ code[inner] > 0
    /\ code' = [code EXCEPT ![inner] = @ - 1]
    /\ spi' = SubSeq(spi, 1, Len(spi) - 1)
    /\ UNCHANGED <<pc, deferred, modes, stack, durable, lastSubid>>

\* Mutant: no exception blocks in deferred triggers.
InternalStatesMutant ==
    {"STARTED", "INPROGRESS", "IMPLICIT_INPROGRESS", "SUBINPROGRESS"}

InternalStates ==
    {"STARTED", "INPROGRESS", "IMPLICIT_INPROGRESS", "END", "PREPARE", "SUBINPROGRESS"}

\* Entering an exception block.  BeginInternalSubTransaction comes before the
\* PG_TRY, so its own errors go to the surrounding block.
BeginInternalSubTransaction ==
    /\ code[inner] > 0
    /\ CanNest
    /\ IF bstate \notin InternalStates THEN Died
       ELSE \/ ~CanPush /\ Refused
            \/ /\ CanPush
               /\ level' = level + 1
               /\ lastSubid' = lastSubid + 1
               /\ \/ /\ code' = Append(code, 0)
                     /\ blockState' = [blockState EXCEPT ![level + 1] = "SUBINPROGRESS"]
                     /\ state' = [state EXCEPT ![level + 1] = "INPROGRESS"]
                     /\ frame' = [frame EXCEPT ![level + 1] =
                                    [NewFrame("none") EXCEPT !.owner = TRUE]]
                     /\ UNCHANGED pc
                  \/ /\ Raise
                     /\ blockState' = [blockState EXCEPT ![level + 1] = "SUBBEGIN"]
                     /\ state' = [state EXCEPT ![level + 1] = "START"]
                     /\ \E made \in BOOLEAN :
                           frame' = [frame EXCEPT ![level + 1] =
                                       [NewFrame("none") EXCEPT !.owner = made]]
                     /\ UNCHANGED code
               /\ UNCHANGED <<deferred, modes, durable, spi>>

\* Leaving an exception block normally.
ReleaseCurrentSubTransaction ==
    /\ inner > 1
    /\ code[inner] = 0
    /\ IF bstate # "SUBINPROGRESS" THEN Refused
       ELSE /\ CommitSubTransaction
            /\ code' = SubSeq(code, 1, inner - 1)
            /\ UNCHANGED <<pc, deferred, chain, saved, snapshot, flags, lastSubid,
                           durable>>

\* The PG_CATCH of an exception block: roll back, then run a handler, or throw
\* the error again when no WHEN clause matches.  The AssertState that comes last
\* is left out, as it is of a build without assertions: it lists the states of a
\* running transaction, and the parent of an exception block in a deferred
\* trigger is in END or PREPARE, which it does not list.
RollbackAndReleaseCurrentSubTransaction ==
    /\ pc = "catch"
    /\ IF bstate \notin {"SUBINPROGRESS", "SUBABORT"} THEN Died
       ELSE /\ IF bstate = "SUBINPROGRESS" THEN AbortSubTransaction
               ELSE UNCHANGED <<chars, spi>>
            /\ CleanupSubTransaction
            /\ code' = SubSeq(code, 1, inner - 1)
            /\ \/ pc' = "exec"
               \/ pc' = IF inner > 2 THEN "catch" ELSE "error"
            /\ UNCHANGED <<deferred, chain, saved, snapshot, flags, lastSubid, durable>>

\* COMMIT or ROLLBACK in a procedure, refused in an atomic context (a block, a
\* deferred trigger, a function of another statement) and in a subtransaction.
\* The procedure's SPI connection survives.  When the commit fails the error is
\* thrown again, in a new transaction.
SPI_end(commit, ch) ==
    /\ code[inner] > 0
    /\ IF \/ level > 1 \/ bstate # "STARTED" \/ deferred
          \/ "NEEDIMMEDIATECOMMIT" \in flags
       THEN Refused
       ELSE /\ \/ /\ db' = IF commit THEN db \cup frame[1].work ELSE db
                  /\ UNCHANGED pc
               \/ commit /\ pc' = "error" /\ UNCHANGED db
            /\ saved' = IF ch \/ (commit /\ chain) THEN chars ELSE saved
            /\ StartTransaction("STARTED", IF ch THEN chars ELSE DefaultChars)
            /\ snapshot' = FALSE
            /\ UNCHANGED <<code, deferred, chain, spi, prepared>>

-----------------------------------------------------------------------------
(* CommitTransactionCommand.                                               *)

\* Mutant: the characteristics are not saved.
SaveTransactionCharacteristicsMutant == UNCHANGED saved

\* "if (s->chain)" at the entry looks at the current entry.
SaveTransactionCharacteristics ==
    saved' = IF level = 1 /\ chain THEN chars ELSE saved

CommitLeavesAlone == UNCHANGED <<code, deferred, snapshot, flags, durable>>

CommitNothing ==
    /\ pc = "commit"
    /\ bstate \in {"BEGIN", "INPROGRESS", "IMPLICIT_INPROGRESS", "SUBINPROGRESS",
                   "ABORT", "SUBABORT"}
    /\ SaveTransactionCharacteristics
    /\ SetBlockState(IF bstate = "BEGIN" THEN "INPROGRESS" ELSE bstate)
    /\ \/ pc' = "finished"
       \/ IsTransactionState /\ bstate # "BEGIN" /\ pc' = "error"  \* CommandCounterIncrement
    /\ CommitLeavesAlone
    /\ UNCHANGED <<chain, chars, level, state, frame, lastSubid, spi>>

\* CommitTransaction and PrepareTransaction first run the deferred triggers.
PreCommit ==
    /\ \/ /\ pc = "commit"
          /\ bstate \in {"STARTED", "END", "PREPARE"}
          /\ SaveTransactionCharacteristics
       \/ /\ pc = "loop"
          /\ bstate \in {"END", "PREPARE"}
          /\ UNCHANGED saved
    /\ pc' = "exec"
    /\ deferred' = TRUE
    /\ UNCHANGED <<code, chain, chars, snapshot, flags, stack, durable, lastSubid, spi>>

\* Mutant: the chain flag is also honoured for a statement outside a block.
AfterEndMutant(b) == IF b # "PREPARE" /\ chain THEN "chain" ELSE "finished"

AfterEnd(b) == IF b # "PREPARE" /\ b # "STARTED" /\ chain THEN "chain" ELSE "finished"

\* MarkAsPreparing refuses a second prepared transaction of the same name.
FinishCommit ==
    /\ pc = "exec" /\ deferred /\ code = <<0>>
    /\ \/ /\ bstate = "PREPARE" /\ prepared # {}
          /\ state' = [state EXCEPT ![1] = "PREPARE"]
          /\ pc' = "error"
          /\ UNCHANGED <<deferred, chars, spi, snapshot, level, blockState, frame,
                         durable>>
       \/ /\ bstate = "PREPARE" => prepared = {}
          /\ CommitTransaction
          /\ deferred' = FALSE
          /\ pc' = AfterEnd(bstate)
    /\ UNCHANGED <<code, chain, saved, flags, lastSubid>>

\* ROLLBACK of the whole block.
FinishAbort ==
    /\ pc = "commit"
    /\ bstate \in {"ABORT_END", "ABORT_PENDING"}
    /\ SaveTransactionCharacteristics
    /\ IF bstate = "ABORT_PENDING" THEN AbortTransaction ELSE UNCHANGED <<chars, spi>>
    /\ IF bstate = "ABORT_PENDING" \/ state[1] = "ABORT"
       THEN CleanupTransaction /\ pc' = AfterEnd(bstate)
       ELSE UNCHANGED <<stack, snapshot>> /\ pc' = "fatal"
    /\ UNCHANGED <<code, deferred, chain, flags, durable, lastSubid>>

\* AND CHAIN: the new transaction, with the saved characteristics.
ChainStart ==
    /\ pc = "chain"
    /\ \/ /\ StartTransaction("INPROGRESS", saved)
          /\ chain' = FALSE
          /\ pc' = "finished"
          /\ UNCHANGED <<code, deferred, saved, snapshot, spi, durable>>
       \/ StartTransactionFails

\* SAVEPOINT, and the second half of ROLLBACK TO.
StartSub ==
    /\ pc = "commit" /\ bstate = "SUBBEGIN"
    /\ \/ StartSubTransaction /\ pc' = "finished"
       \/ StartSubTransactionFails /\ pc' = "error"
    /\ CommitLeavesAlone
    /\ UNCHANGED <<chain, chars, saved, level, lastSubid, spi>>

\* A turn of the loops for RELEASE and COMMIT.  The loop goes on while it meets
\* the mark it started from; an error can come before or after TRANS_COMMIT.
CommitSub ==
    /\ pc \in {"commit", "loop"}
    /\ bstate \in {"SUBRELEASE", "SUBCOMMIT"}
    /\ \/ /\ CommitSubTransaction
          /\ pc' = IF blockState[level - 1] = bstate THEN "loop"
                   ELSE IF bstate = "SUBRELEASE" THEN "finished"
                   ELSE IF blockState[level - 1] \in {"END", "PREPARE"} THEN "loop"
                   ELSE "error"
       \/ /\ \E st \in {"INPROGRESS", "COMMIT"} : state' = [state EXCEPT ![level] = st]
          /\ pc' = "error"
          /\ UNCHANGED <<level, blockState, frame, chars, spi>>
    /\ CommitLeavesAlone
    /\ UNCHANGED <<chain, saved, lastSubid>>

\* ROLLBACK of one level, then the recursive call for its parent.
AbortSub ==
    /\ pc = "commit"
    /\ bstate \in {"SUBABORT_END", "SUBABORT_PENDING"}
    /\ IF bstate = "SUBABORT_PENDING" THEN AbortSubTransaction
       ELSE UNCHANGED <<chars, spi>>
    /\ CleanupSubTransaction
    /\ CommitLeavesAlone
    /\ UNCHANGED <<pc, chain, saved, lastSubid>>

\* The target of ROLLBACK TO is popped, and pushed again under the same name;
\* StartSub completes it.  DefineSavepoint looks at the parent.
RestartSub ==
    /\ pc = "commit"
    /\ bstate \in {"SUBRESTART", "SUBABORT_RESTART"}
    /\ IF bstate = "SUBRESTART" THEN AbortSubTransaction ELSE UNCHANGED <<chars, spi>>
    /\ IF /\ CanPush
          /\ blockState[level - 1] \in {"INPROGRESS", "SUBINPROGRESS"}
       THEN /\ lastSubid' = lastSubid + 1
            /\ blockState' = [blockState EXCEPT ![level] = "SUBBEGIN"]
            /\ state' = [state EXCEPT ![level] = "DEFAULT"]
            /\ frame' = [frame EXCEPT ![level] =
                           [NewFrame(@.name) EXCEPT !.prevAcc = chars'.acc]]
            /\ UNCHANGED <<pc, level>>
       ELSE /\ CleanupSubTransaction
            /\ pc' = IF CanPush THEN "fatal" ELSE "error"
            /\ UNCHANGED lastSubid
    /\ CommitLeavesAlone
    /\ UNCHANGED <<chain, saved>>

CommitTransactionCommand ==
    \/ CommitNothing \/ PreCommit \/ FinishCommit \/ FinishAbort \/ ChainStart
    \/ StartSub \/ CommitSub \/ AbortSub \/ RestartSub

-----------------------------------------------------------------------------
(* AbortCurrentTransaction, one turn of its recursion at a time.           *)

AbortEffect(next) ==
    /\ pc = "error"
    /\ pc' = next
    /\ code' = <<0>>
    /\ deferred' = FALSE
    /\ UNCHANGED <<chain, saved, flags, durable, lastSubid>>

\* Idle, or already aborted: nothing to do.
AbortNothing ==
    /\ \/ bstate = "DEFAULT" /\ state[1] = "DEFAULT"
       \/ bstate \in {"ABORT", "SUBABORT"}
    /\ AbortEffect("recovered")
    /\ UNCHANGED <<chars, snapshot, stack, spi>>

\* Not in a block, or the block was just being entered or left: back to idle.
AbortToIdle ==
    /\ \/ bstate = "DEFAULT" /\ state[1] # "DEFAULT"
       \/ bstate \in {"STARTED", "IMPLICIT_INPROGRESS", "BEGIN", "END",
                      "ABORT_PENDING", "PREPARE"}
    /\ AbortTransaction
    /\ CleanupTransaction
    /\ AbortEffect("recovered")

\* In a block: stay in it, failed.
AbortBlock ==
    /\ bstate = "INPROGRESS"
    /\ AbortTransaction
    /\ SetBlockState("ABORT")
    /\ state' = [state EXCEPT ![1] = "ABORT"]
    /\ frame' = [frame EXCEPT ![1] = [@ EXCEPT !.work = {}, !.prior = NoPrior]]
    /\ AbortEffect("recovered")
    /\ UNCHANGED <<level, snapshot>>

CleanupBlock ==
    /\ bstate = "ABORT_END"
    /\ CleanupTransaction
    /\ AbortEffect("recovered")
    /\ UNCHANGED <<chars, spi>>

\* In a subtransaction: only that one fails.
AbortSubBlock ==
    /\ bstate = "SUBINPROGRESS"
    /\ AbortSubTransaction
    /\ SetBlockState("SUBABORT")
    /\ state' = [state EXCEPT ![level] = "ABORT"]
    /\ frame' = [frame EXCEPT ![level] = [@ EXCEPT !.work = {}, !.prior = NoPrior]]
    /\ AbortEffect("recovered")
    /\ UNCHANGED <<level, snapshot>>

\* Mutant: the subtransaction is aborted and not popped.
AbortParentMutant ==
    /\ bstate \in {"SUBBEGIN", "SUBRELEASE", "SUBCOMMIT", "SUBABORT_PENDING",
                   "SUBRESTART", "SUBABORT_END", "SUBABORT_RESTART"}
    /\ AbortEffect("error")
    /\ UNCHANGED <<chars, spi, snapshot, stack>>

\* A subtransaction being started or ended: drop it, and abort its parent too.
AbortParent ==
    /\ bstate \in {"SUBBEGIN", "SUBRELEASE", "SUBCOMMIT", "SUBABORT_PENDING",
                   "SUBRESTART", "SUBABORT_END", "SUBABORT_RESTART"}
    /\ IF bstate \in {"SUBABORT_END", "SUBABORT_RESTART"} THEN UNCHANGED <<chars, spi>>
       ELSE AbortSubTransaction
    /\ CleanupSubTransaction
    /\ AbortEffect("error")
    /\ UNCHANGED snapshot

AbortCurrentTransaction ==
    \/ AbortNothing \/ AbortToIdle \/ AbortBlock \/ CleanupBlock \/ AbortSubBlock
    \/ AbortParent

\* AbortOutOfAnyTransaction, on the way out of the process.
AbortOutOfAnyTransaction ==
    /\ pc' = "closed"
    /\ code' = <<0>> /\ deferred' = FALSE
    /\ level' = 1
    /\ blockState' = [i \in Levels |-> IF i = 1 THEN "DEFAULT" ELSE "FREE"]
    /\ state' = [i \in Levels |-> "DEFAULT"]
    /\ frame' = [i \in Levels |-> NoFrame]
    /\ snapshot' = FALSE
    /\ spi' = << >>
    /\ UNCHANGED <<chain, chars, saved, flags, lastSubid, durable>>
=============================================================================
