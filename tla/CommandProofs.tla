--------------------------- MODULE CommandProofs ----------------------------
(***************************************************************************)
(* The steps of the message loop, of statements and of transaction commands *)
(* keep the invariant of the stack.                                        *)
(***************************************************************************)
EXTENDS StackLemmas, FiniteSetTheorems

\* Messages that start no transaction command.
LEMMA MessageStep ==
    ASSUME TypeOK, StackInv, ReadyForQuery \/ Skipped \/ CloseOrFlush \/ Sync
    PROVE  StackInv'
<1> DEFINE quiet == /\ level' = level /\ blockState' = blockState /\ state' = state
                    /\ code' = code /\ deferred' = deferred /\ lastSubid' = lastSubid
<1>0. ControlType /\ PlaceStates /\ Depth
  BY DEF TypeOK, StackInv
<1>1. quiet /\ pc = "top" /\ pc' \in {"top", "error", "commit", "finished"}
      /\ (pc' \in {"top", "finished"} => xactStarted' = xactStarted)
      /\ (pc' = "finished" => ~xactStarted)
  BY DEF ReadyForQuery, Skipped, CloseOrFlush, Sync, ReadMessage, finish_xact_command,
         xactVars, xactRest, control, stack, modes
<1>2. PlaceStates'
  BY <1>0, <1>1 DEF PlaceStates, bstate, StatementStates, CommandStates
<1>3. QED
  BY <1>0, <1>1, <1>2, QuietStep, CodeLength DEF Depth

\* Between statements and at the start of one: a block under every savepoint.
LEMMA InBlock ==
    ASSUME StackType, StackInv, Len(code) = 1, pc \notin {"catch", "error", "fatal"},
           bstate \in StatementStates
    PROVE  /\ \/ level = 1 /\ bstate \notin SubBlockStates
              \/ /\ level >= 2 /\ bstate \in {"SUBINPROGRESS", "SUBABORT"}
                 /\ blockState[1] = "INPROGRESS"
           /\ blockState[1] \notin {"END", "PREPARE"}
<1>0. StackShape /\ Ancestry /\ OpenBlock /\ level \in Nat
  BY SubIdAssumption DEF StackInv, StackType, Levels
<1>1. CASE bstate \in {"SUBINPROGRESS", "SUBABORT"}
  <2>1. level >= 2 /\ blockState[1] \in LiveStates
    BY <1>0, <1>1, LiveBelow
  <2>2. blockState[1] = "INPROGRESS"
    BY <1>0, <1>1, <2>1 DEF OpenBlock, FailedStart, LiveStates
  <2>3. QED
    BY <1>1, <2>1, <2>2
<1>2. CASE bstate \notin {"SUBINPROGRESS", "SUBABORT"}
  <2>1. bstate \notin SubBlockStates
    BY <1>2 DEF StatementStates, CommandStates, SubBlockStates
  <2>2. QED
    BY <1>0, <2>1, EntryStates DEF bstate, StatementStates, CommandStates
<1>3. QED
  BY <1>1, <1>2

\* The parser, the ends of statements and of messages, and the handler's last part.
LEMMA LoopStep ==
    ASSUME TypeOK, StackInv,
           \/ pg_parse_query \/ EndStatement \/ Suspend \/ CommandCounterIncrement
           \/ Finished \/ Recovered \/ Analyze
    PROVE  StackInv'
<1> DEFINE quiet == /\ level' = level /\ blockState' = blockState /\ state' = state
                    /\ code' = code /\ deferred' = deferred /\ lastSubid' = lastSubid
<1>0. ControlType /\ PlaceStates /\ Depth
  BY DEF TypeOK, StackInv
<1>1. quiet
  BY DEF pg_parse_query, EndStatement, Suspend, CommandCounterIncrement, Finished,
         Recovered, Analyze, xactRest, stack, modes
<1>2. /\ pc \in {"parse", "exec", "done", "finished", "recovered", "query"}
      /\ pc' \in {"top", "stmt", "done", "error", "commit"}
      /\ pc = "exec" => pc' \in {"done", "top"} /\ ~deferred /\ code = <<0>>
      /\ pc' = "done" => pc = "exec"
      /\ pc' \in {"top", "stmt"} =>
            \/ pc \in {"finished", "recovered"} /\ ~xactStarted'
            \/ pc \in {"parse", "query", "exec"} /\ xactStarted' = xactStarted
            \/ pc = "done" /\ kind # "xact" /\ xactStarted' = xactStarted
  BY DEF pg_parse_query, EndStatement, Suspend, CommandCounterIncrement, Finished,
         Recovered, Analyze, protocolRest, protocol
<1>3. Len(code) = 1
  BY <1>0, <1>2 DEF Depth
<1>4. pc = "done" /\ kind # "xact" => kind = "plain"
  BY DEF TypeOK, ProtocolType
<1>5. PlaceStates'
  <2>0. pc = "exec" => bstate \notin {"END", "PREPARE"}
    BY <1>0, <1>2, EntryStates DEF PlaceStates, TypeOK, StackInv, SubBlockStates, bstate
  <2>1. pc' \in {"top", "stmt"} => /\ bstate' \in StatementStates \cup {"DEFAULT"}
                                   /\ xactStarted' => bstate' # "DEFAULT"
    BY <1>0, <1>1, <1>2, <1>4, <2>0
    DEF PlaceStates, bstate, StatementStates, CommandStates, InternalStates
  <2>2. pc' = "done" => bstate' \in StatementStates
    BY <1>0, <1>1, <1>2, <2>0
    DEF PlaceStates, bstate, StatementStates, CommandStates, InternalStates
  <2>3. QED
    BY <1>0, <1>1, <1>2, <2>1, <2>2 DEF PlaceStates
<1>6. QED
  BY <1>0, <1>1, <1>2, <1>3, <1>5, QuietStep DEF Depth

\* Statements that do not mark the stack.
LEMMA StatementStep ==
    ASSUME TypeOK, StackInv, Plain \/ SetCmd \/ FinishPreparedCmd \/ ImmediateStmt \/ Fail
    PROVE  StackInv'
<1> DEFINE quiet == /\ level' = level /\ blockState' = blockState /\ state' = state
                    /\ code' = code /\ deferred' = deferred /\ lastSubid' = lastSubid
<1>0. ControlType /\ StackType /\ PlaceStates /\ Depth
  BY DEF TypeOK, StackInv
<1>1. CASE Refused /\ pc \in {"stmt", "query", "exec", "done"}
  BY <1>1, RefusedStep
<1>2. CASE ~(Refused /\ pc \in {"stmt", "query", "exec", "done"})
  <2>1. quiet /\ pc = "query"
    <3>1. CASE Plain
      BY <3>1 DEF Plain, stack
    <3>2. CASE SetCmd
      BY <1>2, <3>2 DEF SetCmd, LiveStatement, Statement, SetTransaction
    <3>3. CASE FinishPreparedCmd
      BY <1>2, <3>3 DEF FinishPreparedCmd, LiveStatement, Statement, stack
    <3>4. CASE ImmediateStmt
      BY <1>2, <3>4 DEF ImmediateStmt, LiveStatement, Statement, stack
    <3>5. QED
      BY <1>2, <3>1, <3>2, <3>3, <3>4 DEF Fail
  <2>2. /\ pc' \in {"error", "exec", "done"}
        /\ pc' = "exec" => bstate \notin {"ABORT", "SUBABORT"}
    <3>1. CASE Plain
      BY <3>1 DEF Plain, IsAbortedTransactionBlockState
    <3>2. CASE SetCmd
      BY <1>2, <3>2 DEF SetCmd, LiveStatement, Statement, SetTransaction
    <3>3. CASE FinishPreparedCmd
      BY <1>2, <3>3 DEF FinishPreparedCmd, LiveStatement, Statement
    <3>4. CASE ImmediateStmt
      BY <1>2, <3>4 DEF ImmediateStmt, LiveStatement, Statement, IsAbortedTransactionBlockState
    <3>5. QED
      BY <1>2, <3>1, <3>2, <3>3, <3>4 DEF Fail
  <2>3. Len(code) = 1 /\ ~deferred
    BY <1>0, <2>1 DEF Depth
  <2>4. bstate \in StatementStates
    BY <1>0, <2>1 DEF PlaceStates
  <2>5. blockState[1] \notin {"END", "PREPARE"}
    BY <1>0, <2>1, <2>3, <2>4, InBlock
  <2>6. PlaceStates'
    BY <1>0, <2>1, <2>2, <2>4, <2>5
    DEF PlaceStates, bstate, StatementStates, CommandStates, InternalStates
  <2>7. QED
    BY <1>0, <2>1, <2>2, <2>3, <2>6, QuietStep
<1>3. QED
  BY <1>1, <1>2

\* start_xact_command.
LEMMA StartStep ==
    ASSUME TypeOK, StackInv, pc \in {"top", "stmt"}, NEW next \in {"parse", "query"},
           NEW b \in {"STARTED", "IMPLICIT_INPROGRESS"}, start_xact_command(b, next)
    PROVE  StackInv'
<1>0. ControlType /\ StackType /\ PlaceStates /\ Depth /\ StackShape /\ Len(code) = 1 /\ ~deferred
  BY DEF TypeOK, StackInv, Depth
<1>a. bstate \in {"STARTED", "DEFAULT"} => level = 1
  BY <1>0, EntryStates DEF SubBlockStates
<1>b. blockState[1] \in {"ABORT", "ABORT_END"} => state[1] = "ABORT"
  BY <1>0 DEF PlaceStates
<1>1. CASE xactStarted
  <2>1. /\ level' = level /\ code' = code /\ deferred' = deferred /\ state' = state
        /\ lastSubid' = lastSubid /\ pc' = next
    BY <1>1 DEF start_xact_command
  <2>2. bstate \in StatementStates
    BY <1>0, <1>1 DEF PlaceStates
  <2>3. CASE blockState' = blockState
    <3>1. PlaceStates'
      BY <1>b, <2>1, <2>2, <2>3 DEF PlaceStates, bstate, StatementStates, CommandStates
    <3>2. QED
      BY <1>0, <2>1, <2>3, <3>1, QuietStep
  <2>4. CASE blockState' # blockState
    <3>1. /\ blockState' = [blockState EXCEPT ![1] = "IMPLICIT_INPROGRESS"]
          /\ level = 1
      BY <1>1, <1>a, <2>4 DEF start_xact_command, BeginImplicitTransactionBlock, SetBlockState
    <3>2. bstate' = "IMPLICIT_INPROGRESS" /\ blockState'[1] = "IMPLICIT_INPROGRESS"
      BY <1>0, <2>1, <3>1 DEF bstate, StackType
    <3>3. PlaceStates'
      BY <2>1, <3>2 DEF PlaceStates, StatementStates, CommandStates
    <3>4. QED
      BY <1>0, <2>1, <3>1, <3>3, TopStep DEF TopBlockStates, StackInv, Depth
  <2>5. QED
    BY <2>3, <2>4
<1>2. CASE ~xactStarted /\ StartTransactionCommand(b) /\ pc' = next
  <2>1. CASE bstate = "DEFAULT" /\ StartTransaction(b, DefaultChars)
    <3>1. /\ level = 1 /\ level' = 1 /\ code' = code /\ deferred' = deferred /\ lastSubid' = 1
          /\ blockState' = [blockState EXCEPT ![1] = b] /\ pc' = next
      BY <1>2, <1>a, <2>1 DEF StartTransactionCommand, StartTransaction, CommandStates
    <3>2. bstate' = b /\ blockState'[1] = b
      BY <1>0, <3>1 DEF bstate, StackType
    <3>3. PlaceStates'
      BY <3>1, <3>2 DEF PlaceStates, StatementStates, CommandStates
    <3>4. b \in TopBlockStates /\ lastSubid' >= 1 /\ Len(code') = 1 /\ ~deferred'
      BY <1>0, <3>1 DEF TopBlockStates
    <3>5. QED
      BY <1>0, <3>1, <3>3, <3>4, TopStep
  <2>2. CASE bstate \in CommandStates
    <3>1. /\ level' = level /\ code' = code /\ deferred' = deferred /\ state' = state
          /\ lastSubid' = lastSubid /\ blockState' = blockState /\ pc' = next
      BY <1>2, <2>2 DEF StartTransactionCommand, CommandStates, stack
    <3>2. PlaceStates'
      <4>1. bstate' \in StatementStates /\ bstate' # "DEFAULT"
        BY <2>2, <3>1 DEF bstate, StatementStates, CommandStates
      <4>2. QED
        BY <1>b, <3>1, <4>1 DEF PlaceStates
    <3>3. QED
      BY <1>0, <3>1, <3>2, QuietStep
  <2>3. QED
    BY <1>2, <2>1, <2>2 DEF StartTransactionCommand
<1>3. CASE bstate = "DEFAULT" /\ StartTransactionFails
  BY <1>3, StartFails
<1>4. QED
  BY <1>1, <1>2, <1>3 DEF start_xact_command

\* The messages and statements that begin with start_xact_command.
LEMMA StartingStep ==
    ASSUME TypeOK, StackInv,
           \/ exec_simple_query \/ exec_execute_message \/ exec_parse_message
           \/ HandleFunctionRequest \/ NextStatement
    PROVE  StackInv'
<1>1. CASE exec_simple_query
  <2>1. pc = "top" /\ start_xact_command("STARTED", "parse")
    BY <1>1 DEF exec_simple_query, ReadMessage
  <2>2. QED
    BY <2>1, StartStep
<1>2. CASE exec_parse_message \/ HandleFunctionRequest
  <2>1. pc = "top" /\ start_xact_command("STARTED", "query")
    BY <1>2 DEF exec_parse_message, HandleFunctionRequest, ReadMessage
  <2>2. QED
    BY <2>1, StartStep
<1>3. CASE NextStatement
  <2>1. PICK b \in {"STARTED", "IMPLICIT_INPROGRESS"} : start_xact_command(b, "query")
    BY <1>3 DEF NextStatement
  <2>2. QED
    BY <1>3, <2>1, StartStep DEF NextStatement
<1>4. CASE exec_execute_message
  <2>1. CASE start_xact_command("STARTED", "query")
    BY <1>4, <2>1, StartStep DEF exec_execute_message, ReadMessage
  <2>2. CASE pc' \in {"error", "top"} /\ UNCHANGED <<xactRest, xactStarted>>
    <3>0. ControlType /\ PlaceStates /\ Depth
      BY DEF TypeOK, StackInv
    <3>1. /\ level' = level /\ blockState' = blockState /\ state' = state
          /\ code' = code /\ deferred' = deferred /\ lastSubid' = lastSubid
          /\ pc = "top" /\ xactStarted' = xactStarted
      BY <1>4, <2>2 DEF exec_execute_message, ReadMessage, xactRest, stack
    <3>2. PlaceStates'
      BY <2>2, <3>0, <3>1 DEF PlaceStates, bstate, StatementStates, CommandStates
    <3>3. Len(code) = 1 /\ ~deferred
      BY <3>0, <3>1 DEF Depth
    <3>4. QED
      BY <2>2, <3>0, <3>1, <3>2, <3>3, QuietStep
  <2>3. QED
    BY <1>4, <2>1, <2>2 DEF exec_execute_message
<1>5. QED
  BY <1>1, <1>2, <1>3, <1>4

\* A declaration of a functional dependency.
LEMMA DeclareStep == ASSUME TypeOK, StackInv, add_trigger PROVE StackInv'
<1>0. ControlType /\ StackType /\ PlaceStates /\ Depth /\ StackShape
  BY DEF TypeOK, StackInv
<1>1. pc = "top" /\ Len(code) = 1 /\ ~deferred
  BY <1>0 DEF add_trigger, ReadMessage, Depth
<1>2. CASE bstate = "DEFAULT" /\ StartTransactionFails
  BY <1>1, <1>2, StartFails
<1>3. CASE Refused
  BY <1>1, <1>3, RefusedStep
<1>4. CASE /\ pc' = "error" /\ bstate = "DEFAULT" /\ StartTransaction("STARTED", DefaultChars)
           /\ code' = code /\ deferred' = deferred
  <2>1. level = 1
    BY <1>0, <1>4, EntryStates DEF SubBlockStates
  <2>2. /\ level' = 1 /\ blockState' = [blockState EXCEPT ![1] = "STARTED"]
        /\ lastSubid' = 1
    BY <1>4, <2>1 DEF StartTransaction
  <2>3. PlaceStates'
    BY <1>0, <1>4, <2>2, SubIdAssumption DEF PlaceStates, StackType, Levels
  <2>4. "STARTED" \in TopBlockStates /\ lastSubid' >= 1 /\ Len(code') = 1 /\ ~deferred'
    BY <1>1, <1>4, <2>2 DEF TopBlockStates
  <2>5. QED
    BY <1>0, <1>4, <2>1, <2>2, <2>3, <2>4, TopStep
<1>5. CASE pc' = "error" /\ UNCHANGED <<stack, lastSubid, code, deferred>>
  <2>1. /\ level' = level /\ blockState' = blockState /\ state' = state
        /\ code' = code /\ deferred' = deferred /\ lastSubid' = lastSubid
    BY <1>5 DEF stack
  <2>2. PlaceStates'
    BY <1>0, <1>5, <2>1 DEF PlaceStates
  <2>3. QED
    BY <1>0, <1>1, <1>5, <2>1, <2>2, QuietStep
<1>6. QED
  BY <1>2, <1>3, <1>4, <1>5 DEF add_trigger

\* AbortOutOfAnyTransaction, at the end of the session.
LEMMA ResetStep == ASSUME AbortOutOfAnyTransaction, StackType PROVE StackInv'
<1>1. /\ pc' = "closed" /\ code' = <<0>> /\ ~deferred' /\ level' = 1
      /\ blockState' = [i \in Levels |-> IF i = 1 THEN "DEFAULT" ELSE "FREE"]
      /\ lastSubid' \in Nat /\ lastSubid' >= 1
  BY SubIdAssumption DEF AbortOutOfAnyTransaction, StackType, Levels
<1>2. MaxSubId \in Nat /\ MaxSubId >= 1
  BY SubIdAssumption
<1>3. StackShape' /\ Ancestry'
  BY <1>1, <1>2 DEF StackShape, Ancestry, Levels, TopBlockStates
<1>4. Depth' /\ OpenBlock'
  BY <1>1, <1>2 DEF Depth, OpenBlock
<1>5. PlaceStates'
  BY <1>1, <1>2 DEF PlaceStates, Levels
<1>6. QED
  BY <1>3, <1>4, <1>5 DEF StackInv

\* The end of the last statement, and with it of the implicit block.
LEMMA FinishStep == ASSUME TypeOK, StackInv, Started, FinishStatement PROVE StackInv'
<1>0. ControlType /\ StackType /\ PlaceStates /\ Depth /\ StackShape
  BY DEF TypeOK, StackInv
<1>1. /\ level' = level /\ state' = state /\ code' = code /\ deferred' = deferred
      /\ lastSubid' = lastSubid /\ pc = "done"
      /\ pc' = "commit"
  BY DEF FinishStatement, finish_xact_command, Started
<1>2. Len(code) = 1 /\ ~deferred
  BY <1>0, <1>1 DEF Depth
<1>3. CASE blockState' = blockState
  <2>1. PlaceStates'
    BY <1>0, <1>1, <1>3 DEF PlaceStates
  <2>2. QED
    BY <1>0, <1>1, <1>2, <1>3, <2>1, QuietStep
<1>4. CASE blockState' # blockState
  <2>1. bstate = "IMPLICIT_INPROGRESS" /\ SetBlockState("STARTED")
    BY <1>4 DEF FinishStatement, EndImplicitTransactionBlock
  <2>2. level = 1
    BY <1>0, <2>1, EntryStates DEF SubBlockStates
  <2>3. blockState' = [blockState EXCEPT ![1] = "STARTED"]
    BY <2>1, <2>2 DEF SetBlockState
  <2>4. PlaceStates'
    BY <1>0, <1>1, <2>3, SubIdAssumption DEF PlaceStates, StackType, Levels
  <2>5. /\ "STARTED" \in TopBlockStates /\ lastSubid' >= 1 /\ Len(code') = 1
        /\ ~deferred' /\ level' = 1
    BY <1>0, <1>1, <1>2, <2>2 DEF TopBlockStates, Depth
  <2>6. QED
    BY <1>0, <1>1, <2>2, <2>3, <2>4, <2>5, TopStep
<1>5. QED
  BY <1>3, <1>4

\* A transaction command that marks the stack.
LEMMA MarkStep ==
    ASSUME StackInv, pc = "query", pc' \in {"done", "error"}, kind' = "xact",
           level' = level, state' = state, code' = code, deferred' = deferred,
           lastSubid' = lastSubid, StackShape', Ancestry',
           level > 1 => \/ blockState'[1] \in {"INPROGRESS", "ABORT_PENDING"}
                        \/ blockState'[1] \in {"END", "PREPARE"} /\ bstate' = "SUBCOMMIT",
           blockState'[1] \in {"ABORT", "ABORT_END"} => blockState[1] \in {"ABORT", "ABORT_END"}
    PROVE  StackInv'
<1>0. Depth /\ PlaceStates /\ Len(code) = 1 /\ ~deferred
  BY DEF StackInv, Depth
<1>1. Depth'
  BY <1>0 DEF Depth
<1>2. OpenBlock'
  BY <1>0 DEF OpenBlock
<1>3. PlaceStates'
  BY <1>0 DEF PlaceStates
<1>4. QED
  BY <1>1, <1>2, <1>3 DEF StackInv

\* What a transaction command finds.
LEMMA CommandFinds ==
    ASSUME TypeOK, StackInv, pc = "query"
    PROVE  /\ StackType /\ StackShape /\ Ancestry /\ Len(code) = 1 /\ level \in 1..MaxSubId
           /\ MaxSubId \in Nat /\ DOMAIN blockState = 1..MaxSubId
           /\ bstate \in StatementStates
           /\ \/ /\ level = 1 /\ bstate = blockState[1]
                 /\ bstate \in {"STARTED", "IMPLICIT_INPROGRESS", "INPROGRESS", "ABORT"}
              \/ /\ level >= 2 /\ bstate \in {"SUBINPROGRESS", "SUBABORT"}
                 /\ blockState[1] = "INPROGRESS"
                 /\ \A i \in 2..(level - 1) : blockState[i] = "SUBINPROGRESS"
<1>1. /\ StackType /\ StackShape /\ Ancestry /\ Len(code) = 1 /\ bstate \in StatementStates
  BY DEF TypeOK, StackInv, Depth, PlaceStates
<1>2. level \in 1..MaxSubId /\ MaxSubId \in Nat /\ DOMAIN blockState = 1..MaxSubId
  BY <1>1, SubIdAssumption DEF StackType, Levels
<1>3. CASE bstate \in {"SUBINPROGRESS", "SUBABORT"}
  BY <1>1, <1>2, <1>3, LiveBelow, InBlock DEF SubBlockStates
<1>4. CASE bstate \notin {"SUBINPROGRESS", "SUBABORT"}
  BY <1>1, <1>2, <1>4, InBlock DEF bstate, StatementStates, CommandStates
<1>5. QED
  BY <1>1, <1>2, <1>3, <1>4

\* BEGIN.
LEMMA BeginStep == ASSUME TypeOK, StackInv, BeginCmd PROVE StackInv'
<1>1. PICK o : LiveStatement("xact") /\ BeginTransactionBlock(o)
  BY DEF BeginCmd
<1>2. pc = "query" /\ kind' = "xact"
  BY <1>1 DEF LiveStatement, Statement
<1>3. /\ level' = level /\ state' = state /\ code' = code /\ deferred' = deferred
      /\ lastSubid' = lastSubid
      /\ pc' \in {"done", "error"}
      /\ SetBlockState(IF level = 1 /\ bstate # "INPROGRESS" THEN "BEGIN" ELSE bstate)
  <2>0. Len(code) = 1
    BY <1>2, CommandFinds
  <2>1. ~(Len(code) > 1)
    BY <2>0
  <2>2. QED
    BY <1>1, <2>1 DEF BeginTransactionBlock, Raise
<1>4. CASE level = 1
  <2>1. PICK b \in {"BEGIN", "INPROGRESS"} : blockState' = [blockState EXCEPT ![1] = b]
    BY <1>3, <1>4 DEF SetBlockState
  <2>2. StackShape' /\ Ancestry'
    BY <1>2, <1>3, <1>4, <2>1, CommandFinds, SetTop DEF TopBlockStates
  <2>3. blockState'[1] \in {"BEGIN", "INPROGRESS"}
    BY <1>2, <1>4, <2>1, CommandFinds
  <2>4. QED
    BY <1>2, <1>3, <1>4, <2>2, <2>3, MarkStep
<1>5. CASE level # 1
  <2>1. blockState' = blockState
    <3>1. blockState' = [blockState EXCEPT ![level] = blockState[level]]
      BY <1>3, <1>5 DEF SetBlockState, bstate
    <3>2. QED
      BY <1>2, <3>1, CommandFinds DEF StackType
  <2>2. StackShape' /\ Ancestry'
    BY <1>2, <1>3, <2>1, CommandFinds, SameStack
  <2>3. QED
    BY <1>2, <1>3, <1>5, <2>1, <2>2, CommandFinds, MarkStep
<1>6. QED
  BY <1>4, <1>5

\* The walk that drops every level of a block.
LEMMA DropStep ==
    ASSUME TypeOK, StackInv, pc = "query", kind' = "xact", NEW ch, NEW tops,
           blockState[1] \in tops, Walk(DropSub, DropTop, tops, ch)
    PROVE  StackInv' /\ pc' = "done"
<1>1. \A i \in 2..level : blockState[i] \in DOMAIN DropSub
  BY CommandFinds, DropTables DEF bstate
<1>2. /\ MarkAll(DropSub, DropTop) /\ pc' = "done"
      /\ level' = level /\ state' = state /\ code' = code /\ deferred' = deferred
      /\ lastSubid' = lastSubid
  BY <1>1 DEF Walk, Marked
<1>3. blockState' = [i \in Levels |-> IF i = 1 THEN DropTop[blockState[1]]
                                     ELSE IF i <= level THEN DropMark(blockState[i])
                                     ELSE blockState[i]]
  BY <1>1, <1>2, DropTables, SubIdAssumption, CommandFinds DEF MarkAll, Levels
<1>4. /\ DropTop[blockState[1]] \in {"ABORT_PENDING", "ABORT_END"}
      /\ blockState[1] # "ABORT" => DropTop[blockState[1]] = "ABORT_PENDING"
  BY DropTables, CommandFinds
<1>5. StackShape' /\ Ancestry'
  <2>1. level > 1 => /\ bstate \in {"SUBINPROGRESS", "SUBABORT"}
                     /\ DropTop[blockState[1]] = "ABORT_PENDING"
    BY <1>4, CommandFinds
  <2>2. DropTop[blockState[1]] \in TopBlockStates
    BY <1>4 DEF TopBlockStates
  <2>3. QED
    BY <1>2, <1>3, <2>1, <2>2, CommandFinds, MarkDrop
<1>6. blockState'[1] = DropTop[blockState[1]]
  BY <1>3, SubIdAssumption DEF Levels
<1>7. QED
  BY <1>2, <1>4, <1>5, <1>6, CommandFinds, MarkStep

\* COMMIT and PREPARE TRANSACTION.
LEMMA EndStep ==
    ASSUME TypeOK, StackInv, pc = "query", kind' = "xact", NEW end \in {"END", "PREPARE"},
           NEW ch, EndTransactionBlock(end, ch)
    PROVE  StackInv' /\ pc' \in {"done", "error"}
<1>1. CASE Refused
  <2>1. Len(code) = 1
    BY CommandFinds
  <2>2. ~(Len(code) > 1)
    BY <2>1
  <2>3. QED
    BY <1>1, <2>2, RefusedStep DEF Refused, Raise
<1>2. CASE /\ bstate \in {"STARTED", "IMPLICIT_INPROGRESS", "INPROGRESS"}
           /\ SetBlockState(IF bstate = "STARTED" THEN bstate ELSE end)
           /\ pc' = "done" /\ UNCHANGED Marked
  <2>1. level = 1
    BY <1>2, CommandFinds
  <2>2. PICK b \in {"STARTED", end} : blockState' = [blockState EXCEPT ![1] = b]
    BY <1>2, <2>1 DEF SetBlockState
  <2>3. /\ level' = level /\ state' = state /\ code' = code /\ deferred' = deferred
        /\ lastSubid' = lastSubid
    BY <1>2 DEF Marked
  <2>4. StackShape' /\ Ancestry'
    BY <2>1, <2>2, <2>3, CommandFinds, SetTop DEF TopBlockStates
  <2>5. blockState'[1] \in {"STARTED", "END", "PREPARE"}
    BY <2>1, <2>2, CommandFinds
  <2>6. QED
    BY <1>2, <2>1, <2>3, <2>4, <2>5, MarkStep
<1>3. CASE /\ bstate = "SUBINPROGRESS"
           /\ Walk([SUBINPROGRESS |-> "SUBCOMMIT"], [INPROGRESS |-> end], {"INPROGRESS"}, ch)
  <2>1. \A i \in 2..level : blockState[i] = "SUBINPROGRESS"
    BY <1>3, CommandFinds DEF bstate
  <2>2. blockState[1] = "INPROGRESS" /\ level >= 2
    BY <1>3, CommandFinds
  <2>3. DOMAIN [SUBINPROGRESS |-> "SUBCOMMIT"] = {"SUBINPROGRESS"}
    OBVIOUS
  <2>4. /\ MarkAll([SUBINPROGRESS |-> "SUBCOMMIT"], [INPROGRESS |-> end]) /\ pc' = "done"
        /\ level' = level /\ state' = state /\ code' = code /\ deferred' = deferred
        /\ lastSubid' = lastSubid
    BY <1>3, <2>1, <2>2, <2>3 DEF Walk, Marked
  <2>5. blockState' = [i \in Levels |-> IF i = 1 THEN end
                                       ELSE IF i <= level THEN "SUBCOMMIT"
                                       ELSE blockState[i]]
    BY <2>1, <2>2, <2>4, CommandFinds DEF MarkAll, Levels
  <2>6. StackShape' /\ Ancestry'
    BY <2>4, <2>5, CommandFinds, MarkCommit
  <2>7. blockState'[1] = end /\ bstate' = "SUBCOMMIT"
    BY <2>2, <2>4, <2>5, CommandFinds DEF Levels, bstate
  <2>8. QED
    BY <2>4, <2>6, <2>7, MarkStep
<1>4. CASE /\ bstate \in {"ABORT", "SUBABORT"}
           /\ Walk(DropSub, DropTop, {"INPROGRESS", "ABORT"}, ch)
  BY <1>4, CommandFinds, DropStep
<1>5. QED
  BY <1>1, <1>2, <1>3, <1>4 DEF EndTransactionBlock

\* The commands that end a block.
LEMMA ExitStep ==
    ASSUME TypeOK, StackInv, CommitCmd \/ PrepareCmd \/ RollbackCmd
    PROVE  StackInv' /\ pc' \in {"done", "error"}
<1>1. pc = "query" /\ kind' = "xact"
  BY DEF CommitCmd, PrepareCmd, RollbackCmd, ExitStatement, Statement
<1>2. CASE CommitCmd \/ PrepareCmd
  BY <1>1, <1>2, EndStep DEF CommitCmd, PrepareCmd
<1>3. CASE RollbackCmd
  <2>1. PICK ch : UserAbortTransactionBlock(ch)
    BY <1>3 DEF RollbackCmd
  <2>2. CASE Refused
    <3>1. Len(code) = 1
      BY <1>1, CommandFinds
    <3>2. ~(Len(code) > 1)
      BY <3>1
    <3>3. QED
      BY <1>1, <2>2, <3>2, RefusedStep DEF Refused, Raise
  <2>3. CASE Walk(DropSub, DropTop,
                  IF level = 1 THEN DOMAIN DropTop ELSE {"INPROGRESS", "ABORT"}, ch)
    <3>1. blockState[1] \in IF level = 1 THEN DOMAIN DropTop ELSE {"INPROGRESS", "ABORT"}
      BY <1>1, CommandFinds, DropTables
    <3>2. QED
      BY <1>1, <2>3, <3>1, DropStep
  <2>4. QED
    BY <2>1, <2>2, <2>3 DEF UserAbortTransactionBlock
<1>4. QED
  BY <1>2, <1>3

\* A non-empty set of numbers up to some bound has a greatest element.
LEMMA Greatest ==
    ASSUME NEW n \in Nat, NEW T, T \subseteq 0..n, T # {}
    PROVE  \E x \in T : \A y \in T : y <= x
<1> DEFINE R == OpToRel(<, Nat)
           U == {n - x : x \in T}
<1>1. U \subseteq Nat /\ U # {}
  <2>1. PICK x \in T : x \in 0..n
    OBVIOUS
  <2>2. n - x \in U
    OBVIOUS
  <2>3. \A y \in T : n - y \in Nat
    OBVIOUS
  <2>4. QED
    BY <2>2, <2>3
<1>2. PICK u \in U : \A v \in U : <<v, u>> \notin R
  <2>1. IsWellFoundedOn(R, Nat)
    BY NatLessThanWellFounded
  <2> HIDE DEF R, U
  <2>2. QED
    BY <1>1, <2>1, WFMin
<1>3. \A v \in U : ~(v < u)
  BY <1>1, <1>2 DEF OpToRel
<1>4. PICK x \in T : u = n - x
  BY <1>2
<1>5. \A y \in T : ~(n - y < n - x)
  BY <1>3, <1>4
<1>6. \A y \in T : y <= x
  BY <1>4, <1>5
<1>7. QED
  BY <1>4, <1>6

\* The savepoint a name refers to lies on the stack.
LEMMA TargetFound ==
    ASSUME TypeOK, StackInv, pc = "query", NEW n, Target(n) # 0
    PROVE  Target(n) \in 2..level
<1> DEFINE found == {i \in 2..level : frame[i].name = n}
<1>1. found # {} /\ found \subseteq 0..level /\ level \in Nat
  BY CommandFinds DEF Target
<1>2. \E i \in found : \A j \in found : j <= i
  <2> HIDE DEF found
  <2> QED
    BY <1>1, Greatest
<1>3. (CHOOSE i \in found : \A j \in found : j <= i) \in found
  BY <1>2
<1>4. QED
  BY <1>1, <1>3 DEF Target

\* RELEASE and ROLLBACK TO; the walk to the named savepoint never dies.
LEMMA SavepointMarks ==
    ASSUME TypeOK, StackInv, ReleaseCmd \/ RollbackToCmd
    PROVE  StackInv' /\ pc' \in {"done", "error"}
<1>1. pc = "query" /\ kind' = "xact"
  BY DEF ReleaseCmd, RollbackToCmd, LiveStatement, Statement
<1>2. PICK n : ReleaseSavepoint(n) \/ RollbackToSavepoint(n)
  BY DEF ReleaseCmd, RollbackToCmd
<1>3. CASE Refused
  <2>1. Len(code) = 1
    BY <1>1, CommandFinds
  <2>2. ~(Len(code) > 1)
    BY <2>1
  <2>3. QED
    BY <1>1, <1>3, <2>2, RefusedStep DEF Refused, Raise
<1>4. CASE Target(n) # 0 /\ ~Refused
  <2>1. Target(n) \in 2..level
    BY <1>1, <1>4, TargetFound
  <2>2. level >= 2 /\ bstate \in {"SUBINPROGRESS", "SUBABORT"} /\ blockState[1] = "INPROGRESS"
    BY <1>1, <2>1, CommandFinds
  <2>3. \A i \in Target(n)..level : blockState[i] \in DOMAIN DropSub
    BY <1>1, <2>1, CommandFinds, DropTables DEF bstate
  <2>4. /\ level' = level /\ state' = state /\ code' = code /\ deferred' = deferred
        /\ lastSubid' = lastSubid /\ pc' = "done"
    BY <1>2, <1>4, <2>3 DEF ReleaseSavepoint, RollbackToSavepoint, Marked
  <2>5. StackShape' /\ Ancestry' /\ blockState'[1] = "INPROGRESS"
    <3>1. CASE ReleaseSavepoint(n)
      <4>1. /\ bstate = "SUBINPROGRESS"
            /\ blockState' = [i \in Levels |-> IF i \in Target(n)..level THEN "SUBRELEASE"
                                              ELSE blockState[i]]
        BY <1>4, <3>1 DEF ReleaseSavepoint
      <4>2. StackShape' /\ Ancestry'
        BY <1>1, <2>1, <2>2, <2>4, <4>1, CommandFinds, MarkRelease
      <4>3. QED
        BY <1>1, <2>1, <2>2, <4>1, <4>2, CommandFinds DEF Levels
    <3>2. CASE RollbackToSavepoint(n)
      <4>1. \A i \in 1..MaxSubId : i \in Target(n)..level => DropSub[blockState[i]] = DropMark(blockState[i])
        BY <2>3, DropTables
      <4>2. blockState' = [i \in Levels |->
                              IF i \notin Target(n)..level THEN blockState[i]
                              ELSE IF i > Target(n) THEN DropSub[blockState[i]]
                              ELSE IF blockState[i] = "SUBABORT" THEN "SUBABORT_RESTART"
                              ELSE "SUBRESTART"]
        BY <1>4, <2>3, <3>2 DEF RollbackToSavepoint
      <4>3. blockState' = [i \in Levels |->
                              IF i \notin Target(n)..level THEN blockState[i]
                              ELSE IF i > Target(n) THEN DropMark(blockState[i])
                              ELSE IF blockState[i] = "SUBABORT" THEN "SUBABORT_RESTART"
                              ELSE "SUBRESTART"]
        BY <4>1, <4>2 DEF Levels
      <4>4. StackShape' /\ Ancestry'
        BY <1>1, <2>1, <2>2, <2>4, <4>3, CommandFinds, MarkRollbackTo
      <4>5. QED
        BY <1>1, <2>1, <2>2, <4>3, <4>4, CommandFinds DEF Levels
    <3>3. QED
      BY <1>2, <3>1, <3>2
  <2>6. QED
    BY <1>1, <2>4, <2>5, MarkStep
<1>5. QED
  BY <1>2, <1>3, <1>4 DEF ReleaseSavepoint, RollbackToSavepoint

\* SAVEPOINT.
LEMMA SavepointStep == ASSUME TypeOK, StackInv, SavepointCmd PROVE StackInv'
<1>1. PICK n : LiveStatement("xact") /\ DefineSavepoint(n)
  BY DEF SavepointCmd
<1>2. pc = "query" /\ kind' = "xact"
  BY <1>1 DEF LiveStatement, Statement
<1>3. CASE Refused
  BY <1>2, <1>3, RefusedStep
<1>4. CASE /\ bstate \in {"INPROGRESS", "SUBINPROGRESS"} /\ PushTransaction(n) /\ pc' = "done"
           /\ UNCHANGED <<code, deferred, modes, durable, spi>>
  <2>0. /\ Depth /\ PlaceStates /\ lastSubid \in Nat /\ level <= lastSubid /\ ~deferred
        /\ Len(code) = 1
    BY <1>2, SubIdAssumption DEF StackInv, Depth, TypeOK, StackType, Levels
  <2>1. /\ level' = level + 1 /\ lastSubid' = lastSubid + 1 /\ lastSubid < MaxSubId
        /\ blockState' = [blockState EXCEPT ![level + 1] = "SUBBEGIN"]
        /\ state' = state /\ code' = code /\ deferred' = deferred
    BY <1>4 DEF PushTransaction, CanPush
  <2>2. level \in Nat /\ level < MaxSubId /\ level >= 1 /\ MaxSubId \in Nat
    BY <1>2, <2>0, <2>1, CommandFinds
  <2>3. StackShape' /\ Ancestry'
    BY <1>2, <1>4, <2>1, <2>2, CommandFinds, PushStack DEF LiveStates
  <2>4. blockState'[1] = "INPROGRESS"
    BY <1>2, <1>4, <2>1, <2>2, CommandFinds
  <2>5. Depth'
    BY <1>4, <2>0, <2>1, <2>2 DEF Depth
  <2>6. OpenBlock'
    BY <2>4 DEF OpenBlock
  <2>7. PlaceStates'
    BY <1>2, <1>4, <2>4 DEF PlaceStates
  <2>8. QED
    BY <2>3, <2>5, <2>6, <2>7 DEF StackInv
<1>5. QED
  BY <1>1, <1>3, <1>4 DEF DefineSavepoint
=============================================================================
