------------------------------ MODULE Backend ------------------------------
(***************************************************************************)
(* One backend process: the message loop of PostgresMain (tcop/postgres.c) *)
(* driving the transaction machinery of module Xact.  The client sends any *)
(* message at any time; statements are chosen when they are executed.      *)
(*                                                                         *)
(* Messages: Q simple query, F fast-path call, E execute, P parse, bind or *)
(* describe, C close or flush, S sync, X terminate or end of file, and D,  *)
(* a simple query that declares a functional dependency.                   *)
(***************************************************************************)
EXTENDS Xact

CONSTANTS
    MaxStmts,     \* bound: statements in one simple query
    MaxSpi,       \* bound: SPI connections a declaration may add to
    Messages,     \* the message types the client uses
    Features      \* the SQL it uses besides plain statements, BEGIN, COMMIT,
                  \* ROLLBACK and savepoints

ASSUME StmtAssumption == MaxStmts \in Nat /\ MaxSpi \in Nat
ASSUME MsgAssumption  == Messages \subseteq {"Q", "F", "E", "P", "C", "S", "X", "D"}
ASSUME FeatureAssumption ==
    Features \subseteq {"options", "chain", "prepare", "immediate", "procedure"}

VARIABLES
    msg,          \* the message being handled
    xactStarted,  \* xact_started
    ext,          \* doing_extended_query_message
    skip,         \* ignore_till_sync
    sendReady,    \* send_ready_for_query
    left,         \* parse trees of the query string not finished yet
    implicit,     \* use_implicit_block
    kind,         \* is the statement a TransactionStmt ("xact") or not ("plain")
    owed,         \* history: a ReadyForQuery is owed to the client
    conn,         \* history: SPI connections open when the message was read
    via,          \* history: block state in which COMMIT or ROLLBACK was given
    asked,        \* history: did it say AND CHAIN
    was           \* history: the characteristics when the block was last live

protocol == <<msg, xactStarted, ext, skip, sendReady, owed, conn>>
loopVars == <<left, implicit, kind>>
history  == <<via, asked, was>>
vars     == <<xactVars, protocol, loopVars, history>>

Init ==
    /\ XactInit
    /\ msg = "none" /\ xactStarted = FALSE /\ ext = FALSE /\ skip = FALSE
    /\ sendReady = TRUE
    /\ left = 0 /\ implicit = FALSE /\ kind = "plain"
    /\ owed = TRUE /\ conn = 0
    /\ via = "none" /\ asked = FALSE /\ was = DefaultChars

xactRest == <<code, deferred, modes, stack, durable, lastSubid, spi>>

-----------------------------------------------------------------------------
(* Reading messages.                                                       *)

ReadyForQuery ==
    /\ pc = "top" /\ sendReady
    /\ sendReady' = FALSE
    /\ owed' = FALSE
    /\ UNCHANGED <<xactVars, msg, xactStarted, ext, skip, conn, loopVars, history>>

\* SocketBackend's switch, then the skip test.
ReadMessage(m) ==
    /\ pc = "top" /\ ~sendReady
    /\ m \in Messages
    /\ msg' = m
    /\ ext' = (m \in {"E", "P", "C"})
    /\ skip' = (skip /\ m \notin {"S", "X"})
    /\ conn' = Len(spi)

Skipped ==
    /\ \E m \in Messages : ReadMessage(m)
    /\ skip'
    /\ UNCHANGED <<xactVars, xactStarted, sendReady, owed, loopVars, history>>

\* start_xact_command, in any state that is not waiting for CommitTransaction-
\* Command; the transaction start may fail.
start_xact_command(b, next) ==
    \/ /\ xactStarted
       /\ pc' = next
       /\ IF b = "IMPLICIT_INPROGRESS" THEN BeginImplicitTransactionBlock
          ELSE UNCHANGED blockState
       /\ UNCHANGED <<code, deferred, modes, level, state, frame, durable, lastSubid,
                      spi, xactStarted>>
    \/ /\ ~xactStarted
       /\ StartTransactionCommand(b)
       /\ pc' = next
       /\ xactStarted' = TRUE
    \/ /\ ~xactStarted /\ bstate = "DEFAULT"
       /\ StartTransactionFails
       /\ UNCHANGED xactStarted

\* Mutant: Sync ends nothing.
finish_xact_commandMutant == pc' = "finished"

finish_xact_command == pc' = IF xactStarted THEN "commit" ELSE "finished"

\* Q: start_xact_command comes before the parser.
exec_simple_query ==
    /\ ReadMessage("Q") /\ ~skip'
    /\ start_xact_command("STARTED", "parse")
    /\ owed' = TRUE
    /\ UNCHANGED <<sendReady, loopVars, history>>

\* E: no such portal, an empty query, or a statement to run.
exec_execute_message ==
    /\ ReadMessage("E") /\ ~skip'
    /\ \/ /\ pc' \in {"error", "top"}
          /\ UNCHANGED <<xactRest, xactStarted>>
       \/ start_xact_command("STARTED", "query")
    /\ UNCHANGED <<sendReady, owed, loopVars, history>>

\* P: parse, bind or describe;  F: a function call.
exec_parse_message ==
    /\ ReadMessage("P") /\ ~skip'
    /\ start_xact_command("STARTED", "query")
    /\ UNCHANGED <<sendReady, owed, loopVars, history>>

HandleFunctionRequest ==
    /\ ReadMessage("F") /\ ~skip'
    /\ start_xact_command("STARTED", "query")
    /\ owed' = TRUE
    /\ UNCHANGED <<sendReady, loopVars, history>>

\* C: close and flush touch no transaction.
CloseOrFlush ==
    /\ ReadMessage("C") /\ ~skip'
    /\ pc' \in {"error", "top"}
    /\ UNCHANGED <<xactRest, xactStarted, sendReady, owed, loopVars, history>>

Sync ==
    /\ ReadMessage("S")
    /\ finish_xact_command
    /\ owed' = TRUE
    /\ UNCHANGED <<xactRest, xactStarted, sendReady, loopVars, history>>

Terminate ==
    /\ ReadMessage("X")
    /\ AbortOutOfAnyTransaction
    /\ UNCHANGED <<xactStarted, sendReady, owed, loopVars, history>>

\* D: add_trigger calls StartTransactionCommand itself, whatever xact_started
\* says, and connects to SPI; SPI_execute is told to run read-only and so refuses
\* CREATE FUNCTION.
add_trigger ==
    /\ ReadMessage("D") /\ ~skip'
    /\ Len(spi) < MaxSpi
    /\ owed' = TRUE
    /\ \/ /\ pc' = "error"
          /\ bstate \in CommandStates \cup {"DEFAULT"}
          /\ IF bstate = "DEFAULT"
             THEN StartTransaction("STARTED", DefaultChars)
             ELSE UNCHANGED <<stack, chars, flags, lastSubid>>
          /\ spi' = Append(spi, IF bstate = "DEFAULT" THEN 1 ELSE frame[level].subid)
          /\ snapshot' = TRUE
          /\ UNCHANGED <<code, deferred, chain, saved, durable>>
       \/ bstate = "DEFAULT" /\ StartTransactionFails
       \/ bstate \notin CommandStates \cup {"DEFAULT"} /\ Refused
    /\ UNCHANGED <<xactStarted, sendReady, loopVars, history>>

-----------------------------------------------------------------------------
(* The statements of a query string or portal.                             *)

protocolRest == <<protocol, history>>

\* The parser fails, or finds the statements of the string.
pg_parse_query ==
    /\ pc = "parse"
    /\ \/ pc' = "error" /\ UNCHANGED <<left, implicit>>
       \/ /\ left' \in 0..MaxStmts
          /\ implicit' = (left' > 1)
          /\ pc' = IF left' = 0 THEN "commit" ELSE "stmt"
    /\ UNCHANGED <<xactRest, kind, protocolRest>>

\* The head of the loop over parse trees.
NextStatement ==
    /\ pc = "stmt"
    /\ start_xact_command(IF implicit THEN "IMPLICIT_INPROGRESS" ELSE "STARTED",
                          "query")
    /\ UNCHANGED <<msg, ext, skip, sendReady, owed, conn, loopVars, history>>

\* Parse and bind analyse only.  Both refuse most statements in an aborted block.
Analyze ==
    /\ pc = "query" /\ msg = "P"
    /\ pc' \in {"top", "error"}
    /\ snapshot' \in {snapshot, snapshot \/ ~IsAbortedTransactionBlockState}
    /\ UNCHANGED <<code, deferred, chain, chars, saved, flags, stack, durable,
                   lastSubid, spi, protocolRest, loopVars>>

\* A statement that is no transaction command, or a fast-path call.
Plain ==
    /\ pc = "query" /\ msg # "P"
    /\ kind' = "plain"
    /\ IF IsAbortedTransactionBlockState THEN pc' = "error" /\ UNCHANGED snapshot
       ELSE pc' = "exec" /\ snapshot' = TRUE
    /\ UNCHANGED <<code, deferred, chain, chars, saved, flags, stack, durable,
                   lastSubid, spi, protocolRest, left, implicit>>

\* Transaction commands.  In an aborted block only COMMIT, PREPARE, ROLLBACK and
\* ROLLBACK TO get this far; Plain stands for the refusal of the others.
Statement(k) ==
    /\ pc = "query" /\ msg \in {"Q", "E"}
    /\ kind' = k
    /\ UNCHANGED <<protocol, left, implicit>>

LiveStatement(k) ==
    Statement(k) /\ ~IsAbortedTransactionBlockState /\ UNCHANGED history

\* COMMIT, PREPARE and ROLLBACK.
ExitStatement(ch) ==
    /\ Statement("xact")
    /\ via' = bstate /\ asked' = ch
    /\ was' = IF IsAbortedTransactionBlockState THEN was ELSE chars

Usable(f, S) == IF f \in Features THEN S ELSE {}
Chained == {FALSE} \cup Usable("chain", {TRUE})

SetCmd        == \E o \in Usable("options", Options) :
                     LiveStatement("plain") /\ SetTransaction(o)
BeginCmd      == \E o \in Usable("options", Options) \cup {NoOption} :
                     LiveStatement("xact") /\ BeginTransactionBlock(o)
SavepointCmd  == \E n \in Names : LiveStatement("xact") /\ DefineSavepoint(n)
ReleaseCmd    == \E n \in Names : LiveStatement("xact") /\ ReleaseSavepoint(n)
RollbackToCmd == \E n \in Names :
                     Statement("xact") /\ RollbackToSavepoint(n) /\ UNCHANGED history
CommitCmd     == \E ch \in Chained : ExitStatement(ch) /\ EndTransactionBlock("END", ch)
PrepareCmd    == /\ "prepare" \in Features
                 /\ ExitStatement(FALSE) /\ EndTransactionBlock("PREPARE", FALSE)
RollbackCmd   == \E ch \in Chained : ExitStatement(ch) /\ UserAbortTransactionBlock(ch)

\* COMMIT PREPARED and ROLLBACK PREPARED act at once, outside the transaction.
FinishPreparedCmd ==
    /\ "prepare" \in Features
    /\ LiveStatement("xact")
    /\ \/ /\ PreventInTransactionBlock /\ prepared # {}
          /\ flags' = flags \cup {"NEEDIMMEDIATECOMMIT"}
          /\ db' \in {db, db \cup UNION prepared}
          /\ prepared' = {}
          /\ pc' = "done"
          /\ UNCHANGED <<code, deferred, chain, chars, saved, snapshot, stack,
                         lastSubid, spi>>
       \/ ~(PreventInTransactionBlock /\ prepared # {}) /\ Refused

\* VACUUM, CREATE DATABASE and their like.
ImmediateStmt ==
    /\ "immediate" \in Features
    /\ LiveStatement("plain")
    /\ \/ /\ PreventInTransactionBlock
          /\ flags' = flags \cup {"NEEDIMMEDIATECOMMIT"}
          /\ pc' = "exec"
          /\ UNCHANGED <<code, deferred, chain, chars, saved, snapshot, stack,
                         durable, lastSubid, spi>>
       \/ ~PreventInTransactionBlock /\ Refused

\* What user code does; see Xact.
UserCode ==
    /\ pc = "exec"
    /\ \/ \E r \in Rows : Write(r)
       \/ SPI_connect
       \/ SPI_finish
       \/ BeginInternalSubTransaction
       \/ ReleaseCurrentSubTransaction
       \/ \E commit \in Usable("procedure", BOOLEAN), ch \in Chained : SPI_end(commit, ch)
    /\ UNCHANGED <<protocolRest, loopVars>>

Catch ==
    /\ RollbackAndReleaseCurrentSubTransaction
    /\ UNCHANGED <<protocolRest, loopVars>>

\* An error or a query cancel, wherever the transaction can meet one.
Fail ==
    /\ pc \in {"stmt", "query", "exec", "done"}
    /\ Refused
    /\ UNCHANGED <<protocolRest, loopVars>>

\* The statement has run.
EndStatement ==
    /\ pc = "exec" /\ ~deferred /\ code = <<0>>
    /\ pc' = "done"
    /\ UNCHANGED <<xactRest, protocolRest, loopVars>>

\* The portal has more rows to give: PortalSuspended.
Suspend ==
    /\ pc = "exec" /\ ~deferred /\ code = <<0>> /\ msg = "E"
    /\ "NEEDIMMEDIATECOMMIT" \notin flags
    /\ flags' = flags \cup {"PIPELINING"}
    /\ pc' = "top"
    /\ UNCHANGED <<code, deferred, chain, chars, saved, snapshot, stack, durable,
                   lastSubid, spi, protocolRest, loopVars>>

-----------------------------------------------------------------------------
(* The end of a statement, a message, and of error recovery.               *)

\* Mutant: every statement of a string is taken for its last.
FinishStatementMutant ==
    /\ pc = "done"
    /\ EndImplicitTransactionBlock
    /\ finish_xact_command
    /\ UNCHANGED <<code, deferred, modes, level, state, frame, durable, lastSubid,
                   spi, protocolRest, loopVars>>

\* The last statement of a string, or a transaction command: finish_xact_command.
FinishStatement ==
    /\ pc = "done"
    /\ CASE msg = "Q" -> left = 1 \/ kind = "xact"
         [] msg = "E" -> kind = "xact" \/ "NEEDIMMEDIATECOMMIT" \in flags
         [] OTHER     -> TRUE
    /\ IF msg = "Q" /\ left = 1 /\ implicit THEN EndImplicitTransactionBlock
       ELSE UNCHANGED blockState
    /\ finish_xact_command
    /\ UNCHANGED <<code, deferred, modes, level, state, frame, durable, lastSubid,
                   spi, protocolRest, loopVars>>

\* Mutant: XACT_FLAGS_NEEDIMMEDIATECOMMIT is not looked at.
CommandCounterIncrementMutant ==
    /\ pc = "done" /\ msg = "E"
    /\ pc' = "top"
    /\ flags' = flags \cup {"PIPELINING"}
    /\ UNCHANGED <<code, deferred, chain, chars, saved, snapshot, stack, durable,
                   lastSubid, spi, protocolRest, loopVars>>

\* Otherwise only CommandCounterIncrement.
CommandCounterIncrement ==
    /\ pc = "done"
    /\ \/ /\ msg = "Q" /\ left > 1 /\ kind # "xact"
          /\ pc' = "stmt"
          /\ left' = left - 1
          /\ UNCHANGED flags
       \/ /\ msg = "E" /\ kind # "xact" /\ "NEEDIMMEDIATECOMMIT" \notin flags
          /\ pc' = "top"
          /\ flags' = flags \cup {"PIPELINING"}
          /\ UNCHANGED left
    /\ UNCHANGED <<code, deferred, chain, chars, saved, snapshot, stack, durable,
                   lastSubid, spi, protocolRest, implicit, kind>>

\* After CommitTransactionCommand.
Finished ==
    /\ pc = "finished"
    /\ xactStarted' = FALSE
    /\ via' = "none" /\ asked' = FALSE
    /\ was' = IF IsAbortedTransactionBlockState THEN was ELSE DefaultChars
    /\ IF msg = "Q" /\ left > 1
       THEN pc' = "stmt" /\ left' = left - 1 /\ UNCHANGED sendReady
       ELSE pc' = "top" /\ left' = 0 /\ sendReady' = (sendReady \/ msg # "E")
    /\ UNCHANGED <<xactRest, msg, ext, skip, owed, conn, implicit, kind>>

\* Mutant: an error in an extended-protocol message skips nothing.
RecoveredMutant ==
    /\ pc = "recovered"
    /\ xactStarted' = FALSE
    /\ sendReady' = (sendReady \/ ~skip)
    /\ ext' = FALSE /\ left' = 0 /\ via' = "none" /\ asked' = FALSE /\ pc' = "top"
    /\ UNCHANGED <<xactRest, msg, skip, owed, conn, implicit, kind, was>>

\* PostgresMain's handler once AbortCurrentTransaction is done.
Recovered ==
    /\ pc = "recovered"
    /\ xactStarted' = FALSE
    /\ skip' = (skip \/ ext)
    /\ sendReady' = (sendReady \/ ~skip')
    /\ ext' = FALSE
    /\ left' = 0
    /\ via' = "none" /\ asked' = FALSE
    /\ was' = IF IsAbortedTransactionBlockState THEN was ELSE DefaultChars
    /\ pc' = "top"
    /\ UNCHANGED <<xactRest, msg, owed, conn, implicit, kind>>

\* elog(FATAL): proc_exit rolls everything back.
Fatal ==
    /\ pc = "fatal"
    /\ AbortOutOfAnyTransaction
    /\ UNCHANGED <<protocolRest, loopVars>>

Terminated == pc = "closed" /\ UNCHANGED vars

Commit == CommitTransactionCommand /\ UNCHANGED <<protocolRest, loopVars>>

Abort ==
    /\ AbortCurrentTransaction
    /\ was' = IF bstate \in {"INPROGRESS", "SUBINPROGRESS"} THEN chars ELSE was
    /\ UNCHANGED <<protocol, via, asked, loopVars>>

Next ==
    \/ ReadyForQuery \/ Skipped \/ exec_simple_query \/ exec_execute_message
    \/ exec_parse_message \/ HandleFunctionRequest \/ CloseOrFlush \/ Sync
    \/ Terminate \/ add_trigger
    \/ pg_parse_query \/ NextStatement \/ Analyze \/ Plain
    \/ SetCmd \/ BeginCmd \/ SavepointCmd \/ ReleaseCmd \/ RollbackToCmd
    \/ CommitCmd \/ PrepareCmd \/ RollbackCmd \/ FinishPreparedCmd \/ ImmediateStmt
    \/ UserCode \/ Catch \/ Fail \/ EndStatement \/ Suspend
    \/ FinishStatement \/ CommandCounterIncrement \/ Finished \/ Commit
    \/ Abort \/ Recovered \/ Fatal \/ Terminated

\* Error recovery runs with interrupts held and calls no user code, so it always
\* comes to its end.
Spec == Init /\ [][Next]_vars /\ WF_vars(Abort) /\ WF_vars(Recovered)

-----------------------------------------------------------------------------
(* Properties.                                                             *)

PriorType == [iso : IsoLevels \cup {"unset"}, acc : Access \cup {"unset"}]

FrameType ==
    [name : Names \cup {"none"}, owner : BOOLEAN, subid : 0..MaxSubId, prevAcc : Access,
     work : SUBSET Rows, prior : PriorType]

Chars == [iso : IsoLevels, acc : Access]

ControlType ==
    /\ pc \in Places
    /\ code \in Seq(Nat) /\ code # << >>
    /\ deferred \in BOOLEAN

BlockStates == TopBlockStates \cup SubBlockStates \cup {"FREE"}

StackType ==
    /\ level \in Levels
    /\ lastSubid \in Levels
    /\ blockState \in [Levels -> BlockStates]
    /\ state \in [Levels -> TransStates]

ModeType ==
    /\ frame \in [Levels -> FrameType]
    /\ chain \in BOOLEAN
    /\ chars \in Chars /\ saved \in Chars
    /\ snapshot \in BOOLEAN
    /\ flags \subseteq {"PIPELINING", "NEEDIMMEDIATECOMMIT"}

DataType ==
    /\ spi \in Seq(0..MaxSubId)
    /\ db \subseteq Rows
    /\ prepared \subseteq SUBSET Rows

ProtocolType ==
    /\ msg \in Messages \cup {"none"}
    /\ xactStarted \in BOOLEAN /\ ext \in BOOLEAN /\ skip \in BOOLEAN
    /\ sendReady \in BOOLEAN /\ owed \in BOOLEAN /\ implicit \in BOOLEAN
    /\ left \in 0..MaxStmts
    /\ kind \in {"plain", "xact"}
    /\ conn \in Nat
    /\ via \in TopBlockStates \cup SubBlockStates \cup {"none"}
    /\ asked \in BOOLEAN
    /\ was \in Chars

\* Every variable has its type (the fields of TransactionStateData and the statics
\* of xact.c, spi.c and postgres.c).
TypeOK == ControlType /\ StackType /\ ModeType /\ DataType /\ ProtocolType

LiveStates == {"STARTED", "IMPLICIT_INPROGRESS", "INPROGRESS", "END", "PREPARE",
               "SUBINPROGRESS"}

\* The marks a parent may carry below a child with mark b.
ParentsOf(b) ==
    CASE b \in {"SUBBEGIN", "SUBINPROGRESS", "SUBABORT"} -> LiveStates
      [] b = "SUBRELEASE" -> {"SUBRELEASE", "SUBINPROGRESS", "INPROGRESS"}
      [] b = "SUBCOMMIT" -> {"SUBCOMMIT", "END", "PREPARE"}
      [] b \in {"SUBABORT_PENDING", "SUBABORT_END"} ->
             {"SUBABORT_PENDING", "SUBRESTART", "ABORT_PENDING"}
      [] b \in {"SUBRESTART", "SUBABORT_RESTART"} -> {"SUBINPROGRESS", "INPROGRESS"}
      [] OTHER -> {}

\* The marks on the stack always fit together: top-level states at level 1 only,
\* and under each subtransaction a parent that the commit, abort and release
\* loops of xact.c can go on with.  The FATAL branches of those walks rest on it.
StackShape ==
    /\ blockState[1] \in TopBlockStates
    /\ \A i \in 2..level : blockState[i - 1] \in ParentsOf(blockState[i])
    /\ \A i \in Levels : i > level => blockState[i] = "FREE"

\* The marks an entry anywhere below may carry.
AncestorsOf(b) ==
    IF b \in {"SUBABORT_PENDING", "SUBABORT_END"}
    THEN ParentsOf(b) \cup {"SUBINPROGRESS", "INPROGRESS"} ELSE ParentsOf(b)

Ancestry ==
    \A j \in 1..level : \A i \in 1..(j - 1) : blockState[i] \in AncestorsOf(blockState[j])

\* A subtransaction whose start failed inside BeginInternalSubTransaction.
FailedStart ==
    bstate = "SUBBEGIN" /\ level = Len(code) + 1 /\ pc \in {"catch", "error", "fatal"}

\* Where control can be in which nesting of exception blocks and levels.
Depth ==
    /\ level <= lastSubid
    /\ Len(code) <= level
    /\ pc = "catch" => Len(code) > 1
    /\ pc \notin {"exec", "catch", "fatal"} => Len(code) = 1
    /\ deferred => /\ pc \in {"exec", "catch", "error", "fatal"}
                   /\ level = Len(code) \/ FailedStart
    /\ pc = "chain" => level = 1 /\ bstate = "DEFAULT"

\* Savepoints exist only in a block, one that is in progress or being ended.
OpenBlock ==
    level > Len(code) /\ ~FailedStart =>
        /\ blockState[1] \in {"INPROGRESS", "END", "PREPARE", "ABORT_PENDING"}
        /\ blockState[1] \in {"END", "PREPARE"} => bstate = "SUBCOMMIT"

\* The block states each place of the message loop can meet.
StatementStates == CommandStates \cup {"STARTED"}

PlaceStates ==
    /\ pc \in {"top", "parse", "stmt", "finished", "recovered"} =>
           bstate \in StatementStates \cup {"DEFAULT"}
    /\ pc \in {"top", "parse", "stmt"} /\ xactStarted => bstate # "DEFAULT"
    /\ pc = "query" \/ (pc = "done" /\ kind = "plain") => bstate \in StatementStates
    /\ pc = "exec" => bstate \in InternalStates
    /\ pc = "catch" => bstate \in {"SUBINPROGRESS", "SUBBEGIN"}
    /\ pc \in {"exec", "catch"} /\ ~deferred => blockState[1] \notin {"END", "PREPARE"}
    /\ blockState[1] \in {"ABORT", "ABORT_END"} => state[1] = "ABORT"

\* The inductive invariant behind StackShape and FatalOnlyAfterFailedStart: it adds
\* what lies further down the stack than the parent, how levels and exception
\* blocks go together, and which states the callers in postgres.c can find.
StackInv ==
    /\ StackShape
    /\ Ancestry
    /\ Depth
    /\ OpenBlock
    /\ PlaceStates

\* Statements run, and CommitTransactionCommand is called, only with xact_started.
Started ==
    pc \in {"parse", "query", "exec", "catch", "done", "commit", "loop", "chain"} =>
        xactStarted

\* elog(FATAL) is reached in one case only: an exception block's own subtransaction
\* fails to start inside another exception block, and the outer one's
\* RollbackAndReleaseCurrentSubTransaction then meets TBLOCK_SUBBEGIN.
FatalOnlyAfterFailedStart == pc = "fatal" => bstate = "SUBBEGIN"

\* What ReadyForQuery's status byte tells the client is true: idle means that
\* nothing is open or pending, 'T' that the transaction is usable, 'E' that only
\* a rollback can follow; and no mark is left to act on.
ReadyStatusTrue ==
    pc = "top" /\ sendReady =>
        /\ \A i \in 1..(level - 1) : blockState[i] \in {"INPROGRESS", "SUBINPROGRESS"}
        /\ \/ bstate = "DEFAULT" /\ state[1] = "DEFAULT" /\ Live = {} /\ ~snapshot
           \/ bstate \in {"INPROGRESS", "SUBINPROGRESS"} /\ IsTransactionState
           \/ bstate \in {"ABORT", "SUBABORT"} /\ frame[level].work = {}

\* The client gets exactly one ReadyForQuery for each Query, FunctionCall and Sync
\* message that is not skipped, error or not, and none for the others.
ReadyWhenOwed == pc = "top" => sendReady = owed

\* A failed transaction never commits: COMMIT in an aborted block or under an
\* aborted subtransaction rolls everything back.
FailedNeverCommits ==
    [][db' # db /\ prepared' = prepared => via \notin {"ABORT", "SUBABORT"}]_vars

\* The statements of one query string stand or fall together: rows reach the
\* database only after the last one, unless a transaction command ends the block.
StringIsAtomic ==
    [][db' # db /\ msg = "Q" /\ implicit => left = 1 \/ kind = "xact"]_vars

\* A statement that must not run in a block (PreventInTransactionBlock) is over,
\* and its transaction with it, before the next statement or message starts.
ImmediateAlone ==
    "NEEDIMMEDIATECOMMIT" \in flags /\ state[1] = "INPROGRESS" =>
        pc \notin {"stmt", "query", "top"}

\* While user code runs, every open call has its SPI connection, and there is no
\* other but those that were open when the message was read: an exception block
\* that fails gives back the connections opened inside it and none of its
\* caller's.  A message leaves none behind, error or not, but for the declaration
\* of a functional dependency in a failed block, whose connection nobody closes.
SpiMatchesCalls ==
    /\ pc = "exec" => Len(spi) - SumFunction(code) \in 0..conn
    /\ pc = "top" /\ msg # "D" => Len(spi) <= conn

\* A subtransaction of a read-only transaction is read-only.
ReadOnlyInherited ==
    \A i \in 2..level : frame[i].prevAcc = "ro" => chars.acc = "ro"

ChainKeeps(from) == pc = "chain" /\ pc' = "finished" /\ via = from => chars'.iso = was.iso

\* COMMIT or ROLLBACK AND CHAIN keeps the transaction's characteristics when it is
\* given outside any savepoint in a transaction that has not failed.
ChainKeepsLive ==
    [][pc = "chain" /\ pc' = "finished" /\ via = "INPROGRESS" => chars' = was]_vars

\* "If AND CHAIN is specified, a new transaction is immediately started with the
\* same transaction characteristics as the just finished one": inside a savepoint.
ChainKeepsInSavepoint == [][ChainKeeps("SUBINPROGRESS")]_vars

\* A new block is chained only when the command that ended the old one said AND
\* CHAIN: a flag left over from a COMMIT AND CHAIN that failed has no effect, not
\* even on a plain COMMIT or ROLLBACK.
ChainOnlyIfAsked == pc = "chain" => asked

\* Every error is recovered from: the handler's recursion up the stack ends and
\* the backend is back in its message loop.
ErrorRecovered == pc = "error" ~> pc = "top"
=============================================================================
