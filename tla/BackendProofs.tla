--------------------------- MODULE BackendProofs ----------------------------
(***************************************************************************)
(* The theorems about module Backend, for every value of the constants.    *)
(***************************************************************************)
EXTENDS CommandProofs, EndingProofs, EndingTypes

\* The initial state satisfies the invariant of the stack (XactInit).
LEMMA InitStack == Init => StackInv
BY SubIdAssumption, SMTT(30) DEF Init, XactInit, StackInv, StackShape, Depth, OpenBlock, PlaceStates,
   Ancestry, Levels, TopBlockStates, bstate, StatementStates, CommandStates

\* The initial state is of the right type (XactInit and PostgresMain's locals).
LEMMA InitType == Init => TypeOK
<1> SUFFICES ASSUME Init PROVE TypeOK
  OBVIOUS
<1>1. NoFrame \in FrameType
  BY SubIdAssumption DEF NoFrame, FrameType, PriorType, NoPrior, Access
<1>2. DefaultChars \in Chars /\ [iso |-> ZeroIso, acc |-> "rw"] \in Chars
  BY IsoAssumption DEF DefaultChars, Chars, Access
<1>3. ControlType
  <2>1. code \in Seq(Nat) /\ code # << >>
    BY DEF Init, XactInit
  <2>2. pc \in Places
    BY DEF Init, XactInit, Places
  <2>3. deferred \in BOOLEAN
    BY Zenon DEF Init, XactInit
  <2>4. QED
    BY <2>1, <2>2, <2>3 DEF ControlType
<1>4. StackType
  BY SubIdAssumption DEF Init, XactInit, StackType, BlockStates, Levels, TopBlockStates, TransStates
<1>5. ModeType
  BY <1>1, <1>2 DEF Init, XactInit, ModeType
<1>6. DataType
  BY DEF Init, XactInit, DataType
<1>7. ProtocolType
  <2>1. left \in 0..MaxStmts
    BY StmtAssumption DEF Init
  <2>2. was \in Chars
    BY <1>2 DEF Init
  <2>3. QED
    BY <2>1, <2>2, Zenon DEF Init, ProtocolType
<1>8. QED
  BY <1>3, <1>4, <1>5, <1>6, <1>7 DEF TypeOK

\* Only the transaction commands, user code and its handlers contain an
\* elog(FATAL); the other steps cannot die.
LEMMA NotFatal ==
    ASSUME \/ ReadyForQuery \/ Skipped \/ CloseOrFlush \/ Sync \/ exec_simple_query
           \/ exec_execute_message \/ exec_parse_message \/ HandleFunctionRequest
           \/ NextStatement \/ add_trigger \/ Terminate \/ pg_parse_query \/ Analyze \/ Plain
           \/ SetCmd \/ BeginCmd \/ SavepointCmd \/ FinishPreparedCmd \/ ImmediateStmt
           \/ Fail \/ EndStatement \/ Suspend \/ FinishStatement \/ CommandCounterIncrement
           \/ Finished \/ Recovered \/ Fatal
    PROVE  pc' # "fatal"
<1>1. Refused => pc' # "fatal"
  BY DEF Refused, Raise
<1>2. StartTransactionFails => pc' # "fatal"
  BY DEF StartTransactionFails
<1>3. CASE ReadyForQuery \/ Skipped \/ CloseOrFlush \/ Sync \/ Terminate \/ Fatal
  BY <1>3 DEF ReadyForQuery, Skipped, CloseOrFlush, Sync, Terminate, Fatal, ReadMessage,
              finish_xact_command, xactVars, control, AbortOutOfAnyTransaction
<1>4. CASE exec_simple_query \/ exec_execute_message \/ exec_parse_message
           \/ HandleFunctionRequest \/ NextStatement
  <2>1. \A b, next : start_xact_command(b, next) => pc' \in {next, "error"}
    BY DEF start_xact_command, StartTransactionFails
  <2>2. QED
    BY <1>4, <2>1 DEF exec_simple_query, exec_execute_message, exec_parse_message,
                      HandleFunctionRequest, NextStatement
<1>5. CASE add_trigger \/ Fail \/ pg_parse_query \/ Analyze \/ Plain
  BY <1>1, <1>2, <1>5 DEF add_trigger, Fail, pg_parse_query, Analyze, Plain
<1>6. CASE SetCmd
  BY <1>1, <1>6 DEF SetCmd, SetTransaction
<1>7. CASE BeginCmd
  BY <1>7 DEF BeginCmd, BeginTransactionBlock, Raise
<1>8. CASE SavepointCmd
  BY <1>1, <1>8 DEF SavepointCmd, DefineSavepoint
<1>9. CASE FinishPreparedCmd \/ ImmediateStmt
  BY <1>1, <1>9 DEF FinishPreparedCmd, ImmediateStmt
<1>10. CASE \/ EndStatement \/ Suspend \/ FinishStatement \/ CommandCounterIncrement
            \/ Finished \/ Recovered
  BY <1>10 DEF EndStatement, Suspend, FinishStatement, CommandCounterIncrement,
               Finished, Recovered, finish_xact_command
<1>11. QED
  BY <1>3, <1>4, <1>5, <1>6, <1>7, <1>8, <1>9, <1>10

\* xact_started is set as long as it has to be.
LEMMA StartedStep ==
    ASSUME TypeOK, StackInv, Started, Next
    PROVE  Started'
<1> DEFINE busy == {"parse", "query", "exec", "catch", "done", "commit", "loop", "chain"}
<1>1. CASE pc \in busy /\ xactStarted' = xactStarted
  BY <1>1 DEF Started
<1>2. CASE pc' \notin busy
  BY <1>2 DEF Started
<1>3. CASE \/ exec_simple_query \/ exec_execute_message \/ exec_parse_message
           \/ HandleFunctionRequest \/ NextStatement
  <2>1. ASSUME NEW b, NEW next, start_xact_command(b, next)
        PROVE  pc' = "error" \/ xactStarted'
    <3>1. CASE xactStarted /\ xactStarted' = xactStarted
      BY <3>1
    <3>2. CASE xactStarted' = TRUE
      BY <3>2
    <3>3. QED
      BY <2>1, <3>1, <3>2, Zenon DEF start_xact_command, StartTransactionFails
  <2>2. pc' \in {"error", "top"} \/ xactStarted'
    BY <1>3, <2>1 DEF exec_simple_query, exec_execute_message, exec_parse_message,
                      HandleFunctionRequest, NextStatement
  <2>3. QED
    BY <1>2, <2>2 DEF Started
<1>4. CASE ReadyForQuery \/ Skipped \/ CloseOrFlush \/ Terminate \/ Fatal
  BY <1>2, <1>4 DEF ReadyForQuery, Skipped, CloseOrFlush, Terminate, Fatal, ReadMessage,
              xactVars, control, AbortOutOfAnyTransaction
<1>5. CASE Sync
  BY <1>5 DEF Sync, finish_xact_command, Started
<1>6. CASE add_trigger
  <2>1. Len(code) = 1
    BY <1>6 DEF StackInv, Depth, add_trigger, ReadMessage
  <2>2. ~(Len(code) > 1)
    BY <2>1
  <2>3. QED
    BY <1>2, <1>6, <2>2 DEF add_trigger, StartTransactionFails, Refused, Raise
<1>7. CASE \/ pg_parse_query \/ Analyze \/ Plain
           \/ SetCmd \/ BeginCmd \/ SavepointCmd \/ ReleaseCmd \/ RollbackToCmd
           \/ CommitCmd \/ PrepareCmd \/ RollbackCmd \/ FinishPreparedCmd \/ ImmediateStmt
           \/ UserCode \/ Catch \/ EndStatement \/ Suspend
           \/ FinishStatement \/ CommandCounterIncrement
  <2>1. pc \in busy /\ xactStarted' = xactStarted
    BY <1>7
    DEF pg_parse_query, Analyze, Plain, SetCmd, BeginCmd, SavepointCmd, ReleaseCmd,
        RollbackToCmd, CommitCmd, PrepareCmd, RollbackCmd, FinishPreparedCmd, ImmediateStmt,
        ExitStatement, LiveStatement, Statement, UserCode, Catch,
        RollbackAndReleaseCurrentSubTransaction, EndStatement, Suspend, FinishStatement,
        CommandCounterIncrement, protocolRest, protocol
  <2>2. QED
    BY <1>1, <2>1
<1>8. CASE Fail
  <2>1. CASE pc = "stmt"
    <3>1. Len(code) = 1
      BY <2>1 DEF StackInv, Depth
    <3>2. ~(Len(code) > 1)
      BY <3>1
    <3>3. QED
      BY <1>2, <1>8, <3>2 DEF Fail, Refused, Raise
  <2>2. CASE pc # "stmt"
    BY <1>1, <1>8, <2>2 DEF Fail, protocolRest, protocol
  <2>3. QED
    BY <2>1, <2>2
<1>9. CASE Commit
  <2>1. pc \in busy /\ xactStarted' = xactStarted
    BY <1>9
    DEF Commit, CommitTransactionCommand, CommitNothing, PreCommit, FinishCommit, FinishAbort,
        ChainStart, StartSub, CommitSub, AbortSub, RestartSub, protocolRest, protocol
  <2>2. QED
    BY <1>1, <2>1
<1>10. CASE Abort
  <2>1. pc' \in {"recovered", "error"}
    BY <1>10 DEF Abort, AbortCurrentTransaction, AbortNothing, AbortToIdle, AbortBlock,
                 CleanupBlock, AbortSubBlock, AbortParent, AbortEffect
  <2>2. QED
    BY <1>2, <2>1
<1>11. CASE Finished \/ Recovered
  BY <1>2, <1>11 DEF Finished, Recovered
<1>12. CASE Terminated
  BY <1>12 DEF Terminated, Started, vars, xactVars, control, protocol
<1>13. QED
  BY <1>3, <1>4, <1>5, <1>6, <1>7, <1>8, <1>9, <1>10, <1>11, <1>12 DEF Next

\* Every step keeps the invariant of the stack, and dies in the one case only.
LEMMA StackStep ==
    ASSUME TypeOK, StackInv, Started, FatalOnlyAfterFailedStart, [Next]_vars
    PROVE  StackInv' /\ Started' /\ FatalOnlyAfterFailedStart'
<1>1. CASE UNCHANGED vars
  BY <1>1
  DEF vars, xactVars, control, stack, modes, protocol, loopVars, StackInv, StackShape, Ancestry,
      Depth, OpenBlock, PlaceStates, FailedStart, bstate, Started, FatalOnlyAfterFailedStart
<1>2. CASE Next
  <2>0. Started'
    BY <1>2, StartedStep
  <2>1. CASE ReadyForQuery \/ Skipped \/ CloseOrFlush \/ Sync
    BY <2>0, <2>1, MessageStep, NotFatal DEF FatalOnlyAfterFailedStart
  <2>2. CASE \/ exec_simple_query \/ exec_execute_message \/ exec_parse_message
             \/ HandleFunctionRequest \/ NextStatement
    BY <2>0, <2>2, StartingStep, NotFatal DEF FatalOnlyAfterFailedStart
  <2>3. CASE add_trigger
    BY <2>0, <2>3, DeclareStep, NotFatal DEF FatalOnlyAfterFailedStart
  <2>4. CASE Terminate \/ Fatal
    <3>1. AbortOutOfAnyTransaction /\ StackType
      BY <2>4 DEF Terminate, Fatal, TypeOK
    <3>2. QED
      BY <2>0, <2>4, <3>1, ResetStep, NotFatal DEF FatalOnlyAfterFailedStart
  <2>5. CASE \/ pg_parse_query \/ EndStatement \/ Suspend \/ CommandCounterIncrement
             \/ Finished \/ Recovered \/ Analyze
    BY <2>0, <2>5, LoopStep, NotFatal DEF FatalOnlyAfterFailedStart
  <2>6. CASE Plain \/ SetCmd \/ FinishPreparedCmd \/ ImmediateStmt \/ Fail
    BY <2>0, <2>6, StatementStep, NotFatal DEF FatalOnlyAfterFailedStart
  <2>7. CASE BeginCmd
    BY <2>0, <2>7, BeginStep, NotFatal DEF FatalOnlyAfterFailedStart
  <2>8. CASE SavepointCmd
    BY <2>0, <2>8, SavepointStep, NotFatal DEF FatalOnlyAfterFailedStart
  <2>9. CASE ReleaseCmd \/ RollbackToCmd
    BY <2>0, <2>9, SavepointMarks DEF FatalOnlyAfterFailedStart
  <2>10. CASE CommitCmd \/ PrepareCmd \/ RollbackCmd
    BY <2>0, <2>10, ExitStep DEF FatalOnlyAfterFailedStart
  <2>11. CASE UserCode
    BY <2>0, <2>11, UserStep DEF FatalOnlyAfterFailedStart
  <2>12. CASE Catch
    BY <2>0, <2>12, CatchStep DEF FatalOnlyAfterFailedStart
  <2>13. CASE FinishStatement
    BY <2>0, <2>13, FinishStep, NotFatal DEF FatalOnlyAfterFailedStart
  <2>14. CASE Commit
    <3>1. CASE CommitNothing \/ PreCommit \/ FinishCommit \/ FinishAbort \/ ChainStart
      BY <2>0, <3>1, CommitTopStep DEF FatalOnlyAfterFailedStart
    <3>2. CASE StartSub \/ CommitSub \/ AbortSub \/ RestartSub
      BY <2>0, <3>2, CommitSubStep DEF FatalOnlyAfterFailedStart
    <3>3. QED
      BY <2>14, <3>1, <3>2 DEF Commit, CommitTransactionCommand
  <2>15. CASE Abort
    BY <2>0, <2>15, AbortStep DEF Abort, FatalOnlyAfterFailedStart
  <2>16. CASE Terminated
    BY <1>1, <2>16 DEF Terminated
  <2>17. QED
    BY <1>2, <2>1, <2>2, <2>3, <2>4, <2>5, <2>6, <2>7, <2>8, <2>9, <2>10, <2>11, <2>12,
       <2>13, <2>14, <2>15, <2>16 DEF Next
<1>3. QED
  BY <1>1, <1>2

-----------------------------------------------------------------------------
(* The variables of the message loop.                                      *)

\* Assembling ProtocolType.
LEMMA ProtocolParts ==
    ASSUME msg' \in Messages \cup {"none"}, xactStarted' \in BOOLEAN, ext' \in BOOLEAN,
           skip' \in BOOLEAN, sendReady' \in BOOLEAN, owed' \in BOOLEAN, implicit' \in BOOLEAN,
           left' \in 0..MaxStmts, kind' \in {"plain", "xact"},
           conn' \in Nat, asked' \in BOOLEAN,
           via' \in TopBlockStates \cup SubBlockStates \cup {"none"}, was' \in Chars
    PROVE  ProtocolType'
BY Zenon DEF ProtocolType

\* The same for the present state.
LEMMA ProtocolNow ==
    ASSUME TypeOK
    PROVE  /\ msg \in Messages \cup {"none"} /\ xactStarted \in BOOLEAN /\ ext \in BOOLEAN
           /\ skip \in BOOLEAN /\ sendReady \in BOOLEAN /\ owed \in BOOLEAN
           /\ implicit \in BOOLEAN /\ left \in 0..MaxStmts /\ kind \in {"plain", "xact"}
           /\ conn \in Nat /\ asked \in BOOLEAN
           /\ via \in TopBlockStates \cup SubBlockStates \cup {"none"} /\ was \in Chars
BY Zenon DEF TypeOK, ProtocolType

\* Steps that leave the message loop alone.
LEMMA SameProtocol ==
    ASSUME TypeOK, UNCHANGED <<protocolRest, loopVars>>
    PROVE  ProtocolType'
<1>1. /\ msg' = msg /\ xactStarted' = xactStarted /\ ext' = ext /\ skip' = skip
      /\ sendReady' = sendReady /\ owed' = owed /\ left' = left /\ implicit' = implicit
      /\ kind' = kind /\ conn' = conn /\ asked' = asked /\ via' = via /\ was' = was
  BY DEF protocolRest, protocol, loopVars, history
<1>2. QED
  BY <1>1, ProtocolNow, ProtocolParts

\* Reading a message, and starting a transaction command for it.
LEMMA MessageType ==
    ASSUME TypeOK, NEW m \in Messages, ReadMessage(m),
           owed' = owed \/ owed' = TRUE,
           xactStarted' = xactStarted \/ xactStarted' = TRUE,
           UNCHANGED <<sendReady, loopVars, history>>
    PROVE  ProtocolType'
<1>1. /\ msg' = m /\ sendReady' = sendReady /\ left' = left /\ implicit' = implicit
      /\ kind' = kind /\ asked' = asked /\ via' = via /\ was' = was
  BY DEF ReadMessage, loopVars, history
<1>2. ext' \in BOOLEAN /\ skip' \in BOOLEAN
  <2>1. ext' = (m \in {"E", "P", "C"}) /\ skip' = (skip /\ m \notin {"S", "X"})
    BY DEF ReadMessage
  <2>2. (m \in {"E", "P", "C"}) \in BOOLEAN
    OBVIOUS
  <2>3. (skip /\ m \notin {"S", "X"}) \in BOOLEAN
    BY Zenon
  <2>4. ext' \in BOOLEAN
    BY <2>1, <2>2
  <2>5. skip' \in BOOLEAN
    BY <2>1, <2>3
  <2>6. QED
    BY <2>4, <2>5
<1>3. owed' \in BOOLEAN /\ xactStarted' \in BOOLEAN
  BY ProtocolNow, Zenon
<1>4. conn' \in Nat
  <2>1. conn' = Len(spi)
    BY DEF ReadMessage
  <2>2. spi \in Seq(0..MaxSubId)
    BY DEF TypeOK, DataType
  <2>3. QED
    BY <2>1, <2>2
<1>5. QED
  BY <1>1, <1>2, <1>3, <1>4, ProtocolNow, ProtocolParts

\* The messages.
LEMMA MessagesType ==
    ASSUME TypeOK,
           \/ Skipped \/ CloseOrFlush \/ Sync \/ Terminate \/ add_trigger \/ exec_simple_query
           \/ exec_execute_message \/ exec_parse_message \/ HandleFunctionRequest
    PROVE  ProtocolType'
<1>0. \A b, next : start_xact_command(b, next) =>
          xactStarted' = xactStarted \/ xactStarted' = TRUE
  BY DEF start_xact_command
<1>1. UNCHANGED <<sendReady, loopVars, history>>
  BY DEF Skipped, CloseOrFlush, Sync, Terminate, add_trigger, exec_simple_query,
         exec_execute_message, exec_parse_message, HandleFunctionRequest
<1>2. owed' = owed \/ owed' = TRUE
  BY DEF Skipped, CloseOrFlush, Sync, Terminate, add_trigger, exec_simple_query,
         exec_execute_message, exec_parse_message, HandleFunctionRequest
<1>3. xactStarted' = xactStarted \/ xactStarted' = TRUE
  BY <1>0 DEF Skipped, CloseOrFlush, Sync, Terminate, add_trigger, exec_simple_query,
         exec_execute_message, exec_parse_message, HandleFunctionRequest
<1>4. PICK m \in Messages : ReadMessage(m)
  BY DEF Skipped, CloseOrFlush, Sync, Terminate, add_trigger, exec_simple_query,
         exec_execute_message, exec_parse_message, HandleFunctionRequest, ReadMessage
<1>5. QED
  BY <1>1, <1>2, <1>3, <1>4, MessageType

\* The statements.
LEMMA StatementsType ==
    ASSUME TypeOK, StackInv,
           \/ Plain \/ SetCmd \/ BeginCmd \/ SavepointCmd \/ ReleaseCmd \/ RollbackToCmd
           \/ CommitCmd \/ PrepareCmd \/ RollbackCmd \/ FinishPreparedCmd \/ ImmediateStmt
    PROVE  ProtocolType'
<1>1. UNCHANGED <<protocol, left, implicit>> /\ kind' \in {"plain", "xact"}
  BY DEF Plain, SetCmd, BeginCmd, SavepointCmd, ReleaseCmd, RollbackToCmd, CommitCmd, PrepareCmd,
         RollbackCmd, FinishPreparedCmd, ImmediateStmt, LiveStatement, ExitStatement, Statement,
         protocolRest
<1>2. UNCHANGED history \/ \E ch \in BOOLEAN : ExitStatement(ch)
  BY DEF Plain, SetCmd, BeginCmd, SavepointCmd, ReleaseCmd, RollbackToCmd, CommitCmd, PrepareCmd,
         RollbackCmd, FinishPreparedCmd, ImmediateStmt, LiveStatement, protocolRest,
         Chained, Usable
<1>3. bstate \in TopBlockStates \cup SubBlockStates
  <2>1. bstate \in BlockStates
    BY TypeParts DEF bstate
  <2>2. bstate # "FREE"
    BY EntryStates, TypeParts DEF StackInv
  <2>3. QED
    BY <2>1, <2>2 DEF BlockStates
<1>4. via' \in TopBlockStates \cup SubBlockStates \cup {"none"} /\ was' \in Chars
  BY <1>2, <1>3, ProtocolNow, TypeParts DEF ExitStatement, history
<1>5. asked' \in BOOLEAN
  BY <1>2, ProtocolNow, Zenon DEF ExitStatement, history
<1>6. /\ msg' = msg /\ xactStarted' = xactStarted /\ ext' = ext /\ skip' = skip
      /\ sendReady' = sendReady /\ owed' = owed /\ left' = left /\ implicit' = implicit
      /\ conn' = conn
  BY <1>1 DEF protocol
<1>7. QED
  BY <1>1, <1>4, <1>5, <1>6, ProtocolNow, ProtocolParts

\* The other steps of the loop.
LEMMA LoopType ==
    ASSUME TypeOK,
           \/ ReadyForQuery \/ pg_parse_query \/ NextStatement \/ CommandCounterIncrement
           \/ Finished \/ Recovered \/ Abort
    PROVE  ProtocolType'
<1>0. DefaultChars \in Chars /\ chars \in Chars /\ was \in Chars
  BY Values, TypeParts, ProtocolNow
<1>1. /\ msg' = msg /\ kind' = kind /\ conn' = conn
      /\ via' \in {via, "none"} /\ was' \in {was, chars, DefaultChars}
  BY DEF ReadyForQuery, pg_parse_query, NextStatement, CommandCounterIncrement, Finished,
         Recovered, Abort, protocolRest, protocol, history, loopVars
<1>2. left' \in 0..MaxStmts
  <2>1. left' \in {left, 0} \/ left' \in 0..MaxStmts \/ (left > 1 /\ left' = left - 1)
    BY DEF ReadyForQuery, pg_parse_query, NextStatement, CommandCounterIncrement, Finished,
           Recovered, Abort, loopVars
  <2>2. QED
    BY <2>1, ProtocolNow, StmtAssumption
<1>3. implicit' \in BOOLEAN
  <2>1. CASE implicit' = implicit
    BY <2>1, ProtocolNow
  <2>2. CASE implicit' = (left' > 1)
    BY <2>2
  <2>3. QED
    BY <2>1, <2>2 DEF ReadyForQuery, pg_parse_query, NextStatement, CommandCounterIncrement,
                      Finished, Recovered, Abort, loopVars
<1>4. xactStarted' \in BOOLEAN
  <2>1. xactStarted' = xactStarted \/ xactStarted' = TRUE \/ xactStarted' = FALSE
    BY DEF ReadyForQuery, pg_parse_query, NextStatement, CommandCounterIncrement, Finished,
           Recovered, Abort, protocolRest, protocol, start_xact_command
  <2>2. QED
    BY <2>1, ProtocolNow, Zenon
<1>5. ext' \in BOOLEAN /\ owed' \in BOOLEAN
  <2>1. /\ ext' = ext \/ ext' = FALSE
        /\ owed' = owed \/ owed' = FALSE
    BY DEF ReadyForQuery, pg_parse_query, NextStatement, CommandCounterIncrement, Finished,
           Recovered, Abort, protocolRest, protocol
  <2>2. QED
    BY <2>1, ProtocolNow, Zenon
<1>6. skip' \in BOOLEAN /\ sendReady' \in BOOLEAN
  <2>1. CASE Recovered
    <3>1. (skip \/ ext) \in BOOLEAN /\ (sendReady \/ ~skip') \in BOOLEAN
      BY Zenon
    <3>2. QED
      BY <2>1, <3>1 DEF Recovered
  <2>2. CASE Finished
    <3>1. (sendReady \/ msg # "E") \in BOOLEAN
      BY Zenon
    <3>2. skip' = skip /\ sendReady' \in {sendReady, (sendReady \/ msg # "E")}
      BY <2>2 DEF Finished
    <3>3. QED
      BY <3>1, <3>2, ProtocolNow
  <2>3. CASE ReadyForQuery
    <3>1. skip' = skip /\ sendReady' = FALSE
      BY <2>3 DEF ReadyForQuery
    <3>2. QED
      BY <3>1, ProtocolNow, Zenon
  <2>4. CASE pg_parse_query \/ NextStatement \/ CommandCounterIncrement \/ Abort
    BY <2>4, ProtocolNow DEF pg_parse_query, NextStatement, CommandCounterIncrement, Abort,
                             protocolRest, protocol
  <2>5. QED
    BY <2>1, <2>2, <2>3, <2>4
<1>7. via' \in TopBlockStates \cup SubBlockStates \cup {"none"} /\ was' \in Chars
  BY <1>0, <1>1, ProtocolNow
<1>8. asked' \in BOOLEAN
  <2>1. asked' = asked \/ asked' = FALSE
    BY DEF ReadyForQuery, pg_parse_query, NextStatement, CommandCounterIncrement, Finished,
           Recovered, Abort, protocolRest, history
  <2>2. QED
    BY <2>1, ProtocolNow, Zenon
<1>9. QED
  BY <1>1, <1>2, <1>3, <1>4, <1>5, <1>6, <1>7, <1>8, ProtocolNow, ProtocolParts

-----------------------------------------------------------------------------
\* Every step keeps every variable in its type.
LEMMA TypeStep == ASSUME TypeOK, StackInv, [Next]_vars PROVE TypeOK'
<1>1. CASE UNCHANGED vars
  <2>1. pc' = pc /\ UNCHANGED xactRest /\ UNCHANGED <<protocolRest, loopVars>>
    BY <1>1 DEF vars, xactVars, control, xactRest, protocolRest
  <2>2. QED
    BY <2>1, SameXact, SameProtocol, TypeParts DEF TypeOK, XactType
<1>2. CASE Next
  <2>0. SUFFICES XactType' /\ ProtocolType'
    BY DEF TypeOK, XactType
  <2>1. CASE Skipped \/ CloseOrFlush \/ Sync
    BY <2>1, ControlOnly, MessagesType
  <2>2. CASE ReadyForQuery \/ pg_parse_query \/ Finished \/ Recovered
    BY <2>2, ControlOnly, LoopType
  <2>3. CASE Fail \/ EndStatement
    <3>1. UNCHANGED <<protocolRest, loopVars>>
      BY <2>3 DEF Fail, EndStatement
    <3>2. QED
      BY <2>3, <3>1, ControlOnly, SameProtocol
  <2>4. CASE exec_simple_query \/ exec_execute_message \/ exec_parse_message
             \/ HandleFunctionRequest
    BY <2>4, StartingType, MessagesType
  <2>5. CASE NextStatement
    BY <2>5, StartingType, LoopType
  <2>6. CASE add_trigger
    BY <2>6, DeclareType, MessagesType
  <2>7. CASE Terminate
    BY <2>7, ResetType, MessagesType DEF Terminate
  <2>8. CASE Fatal
    BY <2>8, ResetType, SameProtocol DEF Fatal
  <2>9. CASE Analyze \/ Suspend
    BY <2>9, LeafType, SameProtocol DEF Analyze, Suspend
  <2>10. CASE CommandCounterIncrement
    BY <2>10, LeafType, LoopType
  <2>11. CASE Plain \/ ImmediateStmt \/ FinishPreparedCmd
    BY <2>11, LeafType, StatementsType
  <2>12. CASE SetCmd \/ BeginCmd
    BY <2>12, OptionStep, StatementsType
  <2>13. CASE CommitCmd \/ PrepareCmd \/ RollbackCmd
    BY <2>13, ExitType, StatementsType
  <2>14. CASE SavepointCmd
    BY <2>14, SavepointType, StatementsType
  <2>15. CASE ReleaseCmd \/ RollbackToCmd
    BY <2>15, SavepointMarkType, StatementsType
  <2>16. CASE FinishStatement
    BY <2>16, FinishType, SameProtocol DEF FinishStatement
  <2>17. CASE UserCode \/ Catch
    BY <2>17, UserType, SameProtocol DEF UserCode, Catch
  <2>18. CASE Commit
    BY <2>18, CommitTopType, CommitSubType, SameProtocol DEF Commit, CommitTransactionCommand
  <2>19. CASE Abort
    BY <2>19, AbortCurrentType, LoopType DEF Abort
  <2>20. CASE Terminated
    BY <1>1, <2>20 DEF Terminated, TypeOK, XactType
  <2>21. QED
    BY <1>2, <2>1, <2>2, <2>3, <2>4, <2>5, <2>6, <2>7, <2>8, <2>9, <2>10, <2>11, <2>12, <2>13,
       <2>14, <2>15, <2>16, <2>17, <2>18, <2>19, <2>20 DEF Next
<1>3. QED
  BY <1>1, <1>2

-----------------------------------------------------------------------------
\* The inductive invariant: types, the shape of the stack of TransactionState
\* entries with what the callers in postgres.c rely on, xact_started, and the one
\* way to elog(FATAL).
IInv == TypeOK /\ StackInv /\ Started /\ FatalOnlyAfterFailedStart

\* IInv holds at the start and is kept by every step of the backend.
LEMMA Inductive == (Init => IInv) /\ (IInv /\ [Next]_vars => IInv')
<1>1. Init => IInv
  BY InitType, InitStack DEF IInv, Started, FatalOnlyAfterFailedStart, Init, XactInit
<1>2. ASSUME IInv, [Next]_vars PROVE IInv'
  <2>1. TypeOK'
    BY <1>2, TypeStep DEF IInv
  <2>2. StackInv' /\ Started' /\ FatalOnlyAfterFailedStart'
    BY <1>2, StackStep DEF IInv
  <2>3. QED
    BY <2>1, <2>2 DEF IInv
<1>3. QED
  BY <1>1, <1>2

\* IInv is an invariant of the backend.
LEMMA AlwaysIInv == Spec => []IInv
BY Inductive, PTL DEF Spec

\* Every variable of xact.c, spi.c and postgres.c that is modelled keeps its type;
\* in particular the nesting level never outgrows the subtransaction counter that
\* PushTransaction checks for overflow.
THEOREM TypeCorrect == Spec => []TypeOK
<1>1. IInv => TypeOK
  BY DEF IInv
<1>2. QED
  BY <1>1, AlwaysIInv, PTL

\* The marks on the transaction-state stack always fit together, so that every
\* walk of xact.c over the stack finds the parents it can go on with.
THEOREM StackAlwaysWellFormed == Spec => []StackShape
<1>1. IInv => StackShape
  BY DEF IInv, StackInv
<1>2. QED
  BY <1>1, AlwaysIInv, PTL

\* The elog(FATAL) branches of xact.c for unexpected states are dead code, but for
\* the exception block whose own subtransaction fails to start inside another one.
THEOREM FatalBranchesDead == Spec => []FatalOnlyAfterFailedStart
<1>1. IInv => FatalOnlyAfterFailedStart
  BY DEF IInv
<1>2. QED
  BY <1>1, AlwaysIInv, PTL
=============================================================================
