---------------------------- MODULE EndingProofs ----------------------------
(***************************************************************************)
(* User code, CommitTransactionCommand and AbortCurrentTransaction keep the *)
(* invariant of the stack.                                                 *)
(***************************************************************************)
EXTENDS StackLemmas, SequenceTheorems

\* What user code, or the handler of an exception block, finds.
LEMMA UserFinds ==
    ASSUME TypeOK, StackInv, pc \in {"exec", "catch"}, NEW k, Len(code) = k
    PROVE  /\ ControlType /\ StackType /\ StackShape /\ Ancestry /\ Depth
           /\ MaxSubId \in Nat /\ level \in 1..MaxSubId /\ DOMAIN blockState = 1..MaxSubId
           /\ DOMAIN state = 1..MaxSubId
           /\ lastSubid \in 1..MaxSubId /\ level <= lastSubid
           /\ k \in Nat /\ k >= 1 /\ k <= level
           /\ bstate # "SUBBEGIN" =>
                  /\ level > k => blockState[1] \in {"INPROGRESS", "ABORT_PENDING"}
                  /\ deferred => level = k
                  /\ level > 1 => bstate = "SUBINPROGRESS"
           /\ blockState[1] \in {"ABORT", "ABORT_END"} => state[1] = "ABORT"
           /\ ~deferred => blockState[1] \notin {"END", "PREPARE"}
<1>1. /\ ControlType /\ StackType /\ StackShape /\ Ancestry /\ Depth /\ OpenBlock
      /\ PlaceStates
  BY DEF TypeOK, StackInv
<1>2. k \in Nat /\ (k = 1 \/ k > 1) /\ k <= level
  BY <1>1, CodeLength DEF Depth
<1>3. /\ MaxSubId \in Nat /\ level \in 1..MaxSubId /\ DOMAIN blockState = 1..MaxSubId
      /\ DOMAIN state = 1..MaxSubId
      /\ lastSubid \in 1..MaxSubId /\ level <= lastSubid
  BY <1>1, SubIdAssumption DEF StackType, Levels, Depth
<1>4. bstate \in InternalStates \cup {"SUBBEGIN"}
  BY <1>1 DEF PlaceStates, InternalStates
<1>5. bstate # "SUBBEGIN" => /\ level > k => blockState[1] \in {"INPROGRESS", "ABORT_PENDING"}
                             /\ deferred => level = k
  BY <1>1, <1>4 DEF OpenBlock, Depth, FailedStart, InternalStates
<1>6. bstate # "SUBBEGIN" /\ level > 1 => bstate = "SUBINPROGRESS"
  <2>1. level > 1 => bstate \in SubBlockStates
    BY <1>1, <1>3, EntryStates DEF bstate
  <2>2. QED
    BY <1>4, <2>1 DEF InternalStates, SubBlockStates
<1>7. QED
  BY <1>1, <1>2, <1>3, <1>5, <1>6 DEF PlaceStates

\* An exception block begins, or fails to.
LEMMA PushStep ==
    ASSUME TypeOK, StackInv, pc = "exec", CanPush, level' = level + 1,
           lastSubid' = lastSubid + 1, deferred' = deferred, state'[1] = state[1],
           NEW b \in {"SUBBEGIN", "SUBINPROGRESS"},
           blockState' = [blockState EXCEPT ![level + 1] = b],
           NEW k, Len(code) = k,
           b = "SUBBEGIN" => Len(code') = k /\ pc' = IF k > 1 THEN "catch" ELSE "error",
           b = "SUBINPROGRESS" => Len(code') = k + 1 /\ pc' = "exec"
    PROVE  StackInv'
<1>0. /\ StackType /\ StackShape /\ Ancestry
      /\ MaxSubId \in Nat /\ level \in 1..MaxSubId /\ DOMAIN blockState = 1..MaxSubId
      /\ lastSubid \in 1..MaxSubId /\ level <= lastSubid
      /\ k \in Nat /\ k >= 1 /\ k <= level
      /\ blockState[1] \in {"ABORT", "ABORT_END"} => state[1] = "ABORT"
      /\ ~deferred => blockState[1] \notin {"END", "PREPARE"}
  BY UserFinds
<1>1. bstate \in InternalStates
  BY DEF StackInv, PlaceStates
<1>2. /\ level > k => blockState[1] \in {"INPROGRESS", "ABORT_PENDING"}
      /\ deferred => level = k
  BY <1>1, UserFinds DEF InternalStates
<1>3. level < MaxSubId
  BY <1>0 DEF CanPush
<1>4. StackShape' /\ Ancestry'
  BY <1>0, <1>1, <1>3, PushStack DEF InternalStates, LiveStates
<1>5. bstate' = b /\ blockState'[1] = blockState[1]
  BY <1>0, <1>3 DEF bstate
<1>6. CASE b = "SUBBEGIN"
  <2>0. Len(code') = k /\ pc' \in {"catch", "error"} /\ (pc' = "catch" <=> k > 1)
    BY <1>6
  <2>1. FailedStart' <=> level = k
    BY <1>0, <1>5, <1>6, <2>0 DEF FailedStart
  <2>2. Depth'
    BY <1>0, <1>2, <2>0, <2>1 DEF Depth
  <2>3. OpenBlock'
    BY <1>0, <1>2, <1>5, <2>0, <2>1 DEF OpenBlock
  <2>4. PlaceStates'
    BY <1>0, <1>5, <1>6, <2>0 DEF PlaceStates
  <2>5. QED
    BY <1>4, <2>2, <2>3, <2>4 DEF StackInv
<1>7. CASE b = "SUBINPROGRESS"
  <2>0. Len(code') = k + 1 /\ pc' = "exec"
    BY <1>7
  <2>2. Depth'
    BY <1>0, <1>2, <2>0 DEF Depth
  <2>3. OpenBlock'
    BY <1>0, <1>2, <1>5, <2>0 DEF OpenBlock
  <2>4. PlaceStates'
    BY <1>0, <1>5, <1>7, <2>0 DEF PlaceStates, InternalStates
  <2>5. QED
    BY <1>4, <2>2, <2>3, <2>4 DEF StackInv
<1>8. QED
  BY <1>6, <1>7

\* An exception block ends.
LEMMA PopStep ==
    ASSUME TypeOK, StackInv, pc \in {"exec", "catch"}, bstate = "SUBINPROGRESS",
           level' = level - 1, blockState' = [blockState EXCEPT ![level] = "FREE"],
           lastSubid' = lastSubid, deferred' = deferred,
           state' = [state EXCEPT ![level] = "DEFAULT"],
           NEW k, Len(code) = k, k > 1, Len(code') = k - 1,
           pc' = "exec" \/ pc' = IF k > 2 THEN "catch" ELSE "error"
    PROVE  StackInv'
<1>0. /\ StackType /\ StackShape /\ Ancestry
      /\ MaxSubId \in Nat /\ level \in 1..MaxSubId /\ DOMAIN blockState = 1..MaxSubId
      /\ lastSubid \in 1..MaxSubId /\ level <= lastSubid /\ DOMAIN state = 1..MaxSubId
      /\ k \in Nat /\ k >= 1 /\ k <= level
      /\ blockState[1] \in {"ABORT", "ABORT_END"} => state[1] = "ABORT"
      /\ ~deferred => blockState[1] \notin {"END", "PREPARE"}
      /\ level > k => blockState[1] \in {"INPROGRESS", "ABORT_PENDING"}
      /\ deferred => level = k
  BY UserFinds
<1>1. level >= 2
  BY <1>0
<1>2. StackShape' /\ Ancestry'
  BY <1>0, <1>1, PopStack
<1>3. /\ bstate' = blockState[level - 1] /\ blockState'[1] = blockState[1]
      /\ state'[1] = state[1]
  BY <1>0, <1>1 DEF bstate
<1>4. bstate' \in InternalStates
  BY <1>0, <1>1, <1>3 DEF StackShape, ParentsOf, LiveStates, InternalStates, bstate
<1>5. k > 2 => bstate' = "SUBINPROGRESS"
  <2>1. k > 2 => bstate' \in SubBlockStates
    BY <1>0, <1>3, EntryStates
  <2>2. QED
    BY <1>4, <2>1 DEF InternalStates, SubBlockStates
<1>6. /\ pc' \in {"exec", "catch", "error"} /\ (pc' = "catch" => k > 2)
      /\ (pc' = "error" => k = 2)
  BY <1>0
<1>7. Depth'
  BY <1>0, <1>1, <1>6 DEF Depth
<1>8. OpenBlock'
  BY <1>0, <1>1, <1>3 DEF OpenBlock
<1>9. PlaceStates'
  BY <1>0, <1>3, <1>4, <1>5, <1>6 DEF PlaceStates, InternalStates
<1>10. QED
  BY <1>2, <1>7, <1>8, <1>9 DEF StackInv

\* A procedure ends the transaction (SPI_commit, SPI_rollback).
LEMMA EndInProcedure ==
    ASSUME TypeOK, StackInv, pc = "exec", NEW commit, NEW ch, SPI_end(commit, ch)
    PROVE  StackInv' /\ pc' # "fatal"
<1>0. /\ StackType /\ StackShape /\ level \in 1..MaxSubId /\ MaxSubId \in Nat
      /\ Len(code) \in Nat /\ Len(code) >= 1 /\ Len(code) <= level
      /\ DOMAIN blockState = 1..MaxSubId
  BY UserFinds
<1>1. CASE Refused
  BY <1>1, RefusedStep DEF Refused, Raise
<1>2. CASE ~Refused
  <2>1. level = 1 /\ ~deferred
    BY <1>0, <1>2 DEF SPI_end
  <2>2. /\ StartTransaction("STARTED", IF ch THEN chars ELSE DefaultChars)
        /\ pc' \in {"exec", "error"} /\ code' = code /\ deferred' = deferred
    BY <1>2 DEF SPI_end
  <2>3. /\ level' = 1 /\ lastSubid' = 1 /\ blockState' = [blockState EXCEPT ![1] = "STARTED"]
    BY <2>1, <2>2 DEF StartTransaction
  <2>4. Len(code) = 1
    <3>1. \A n \in Nat : n >= 1 /\ n <= 1 => n = 1
      OBVIOUS
    <3>2. QED
      BY <1>0, <2>1, <3>1
  <2>5. blockState'[1] = "STARTED" /\ bstate' = "STARTED"
    BY <1>0, <2>1, <2>3 DEF bstate
  <2>6. PlaceStates'
    BY <2>2, <2>5 DEF PlaceStates, InternalStates
  <2>7. "STARTED" \in TopBlockStates /\ lastSubid' >= 1 /\ Len(code') = 1 /\ ~deferred'
    BY <2>1, <2>2, <2>3, <2>4 DEF TopBlockStates
  <2>8. QED
    BY <1>0, <2>1, <2>2, <2>3, <2>6, <2>7, TopStep
<1>3. QED
  BY <1>1, <1>2

\* What user code does.
LEMMA UserStep == ASSUME TypeOK, StackInv, UserCode PROVE StackInv' /\ pc' # "fatal"
<1>0. pc = "exec"
  BY DEF UserCode
<1>1. /\ ControlType /\ StackType /\ level \in 1..MaxSubId /\ MaxSubId \in Nat
      /\ Len(code) \in Nat /\ Len(code) >= 1 /\ Depth /\ PlaceStates
      /\ code \in Seq(Nat) /\ lastSubid \in Nat /\ DOMAIN state = 1..MaxSubId
      /\ bstate \in InternalStates
  BY <1>0, UserFinds DEF ControlType, StackInv, PlaceStates
<1>2. CASE Refused
  BY <1>0, <1>2, RefusedStep DEF Refused, Raise
<1>3. CASE /\ (\E r \in Rows : Write(r)) \/ SPI_connect \/ SPI_finish
           /\ ~Refused
  <2>1. /\ level' = level /\ blockState' = blockState /\ state' = state /\ pc' = pc
        /\ deferred' = deferred /\ lastSubid' = lastSubid
    BY <1>3 DEF Write, SPI_connect, SPI_finish, stack, control
  <2>2. Len(code') = Len(code)
    <3>1. CASE code' = code
      BY <3>1
    <3>2. CASE SPI_connect
      <4>1. code[inner] + 1 \in Nat /\ inner \in 1..Len(code)
        BY <1>1 DEF inner
      <4>2. QED
        BY <1>1, <3>2, <4>1, ExceptSeq DEF SPI_connect
    <3>3. CASE SPI_finish
      <4>1. code[inner] - 1 \in Nat /\ inner \in 1..Len(code)
        BY <1>1, <3>3 DEF inner, SPI_finish
      <4>2. QED
        BY <1>1, <3>3, <4>1, ExceptSeq DEF SPI_finish
    <3>4. QED
      BY <1>3, <3>1, <3>2, <3>3 DEF Write, control
  <2>3. PlaceStates'
    BY <1>0, <1>1, <2>1 DEF PlaceStates, bstate
  <2>4. QED
    BY <1>0, <1>1, <2>1, <2>2, <2>3, QuietStep
<1>4. CASE BeginInternalSubTransaction /\ ~Refused
  <2>1. /\ CanPush /\ level' = level + 1 /\ lastSubid' = lastSubid + 1 /\ deferred' = deferred
    BY <1>1, <1>4 DEF BeginInternalSubTransaction
  <2>2. CASE blockState' = [blockState EXCEPT ![level + 1] = "SUBINPROGRESS"]
             /\ code' = Append(code, 0) /\ pc' = pc
             /\ state' = [state EXCEPT ![level + 1] = "INPROGRESS"]
    <3>1. Len(code') = Len(code) + 1 /\ state'[1] = state[1]
      BY <1>1, <2>2, AppendProperties
    <3>2. QED
      BY <1>0, <2>1, <2>2, <3>1, PushStep
  <2>3. CASE /\ blockState' = [blockState EXCEPT ![level + 1] = "SUBBEGIN"]
             /\ code' = code /\ Raise
             /\ state' = [state EXCEPT ![level + 1] = "START"]
    <3>1. state'[1] = state[1]
      BY <1>1, <2>3
    <3>2. pc' = IF Len(code) > 1 THEN "catch" ELSE "error"
      BY <2>3 DEF Raise
    <3>3. QED
      BY <1>0, <2>1, <2>3, <3>1, <3>2, PushStep
  <2>4. QED
    BY <1>1, <1>4, <2>2, <2>3 DEF BeginInternalSubTransaction
<1>5. CASE ReleaseCurrentSubTransaction /\ ~Refused
  <2>1. /\ bstate = "SUBINPROGRESS" /\ CommitSubTransaction /\ code' = SubSeq(code, 1, inner - 1)
        /\ pc' = pc /\ deferred' = deferred /\ lastSubid' = lastSubid /\ inner > 1
    BY <1>5 DEF ReleaseCurrentSubTransaction
  <2>2. /\ level' = level - 1 /\ blockState' = [blockState EXCEPT ![level] = "FREE"]
        /\ state' = [state EXCEPT ![level] = "DEFAULT"]
    BY <2>1 DEF CommitSubTransaction, PopTransaction
  <2>3. Len(code') = Len(code) - 1
    <3>1. \A i \in 1..(inner - 1) : code[i] \in Nat
      BY <1>1 DEF inner
    <3>2. QED
      BY <1>1, <2>1, <3>1, SubSeqProperties DEF inner
  <2>4. QED
    BY <1>0, <2>1, <2>2, <2>3, PopStep DEF inner
<1>6. CASE \E commit \in Usable("procedure", BOOLEAN), ch \in Chained : SPI_end(commit, ch)
  BY <1>0, <1>6, EndInProcedure
<1>7. QED
  BY <1>2, <1>3, <1>4, <1>5, <1>6 DEF UserCode

\* The handler of an exception block; only here does a step die.
LEMMA CatchStep ==
    ASSUME TypeOK, StackInv, Catch
    PROVE  StackInv' /\ (pc' = "fatal" => bstate' = "SUBBEGIN")
<1>0. pc = "catch" /\ RollbackAndReleaseCurrentSubTransaction
  BY DEF Catch, RollbackAndReleaseCurrentSubTransaction
<1>1. /\ StackInv /\ Depth /\ PlaceStates /\ bstate \in {"SUBINPROGRESS", "SUBBEGIN"}
      /\ Len(code) \in Nat /\ Len(code) > 1 /\ code \in Seq(Nat) /\ StackShape /\ Ancestry
      /\ OpenBlock
  BY <1>0, UserFinds DEF StackInv, PlaceStates, Depth, ControlType
<1>2. CASE bstate = "SUBBEGIN"
  <2>1. /\ level' = level /\ blockState' = blockState /\ state' = state /\ pc' = "fatal"
        /\ code' = code /\ deferred' = deferred /\ lastSubid' = lastSubid
    BY <1>0, <1>2 DEF RollbackAndReleaseCurrentSubTransaction, Died, stack
  <2>2. bstate' = bstate
    BY <2>1 DEF bstate
  <2>3. FailedStart' <=> FailedStart
    BY <1>0, <2>1, <2>2 DEF FailedStart
  <2>4. StackShape' /\ Ancestry'
    BY <1>1, <2>1, SameStack
  <2>5. Depth'
    BY <1>0, <1>1, <2>1, <2>2, <2>3 DEF Depth
  <2>6. OpenBlock'
    BY <1>1, <2>1, <2>2, <2>3 DEF OpenBlock
  <2>7. PlaceStates'
    BY <1>1, <2>1 DEF PlaceStates
  <2>8. QED
    BY <1>2, <2>2, <2>4, <2>5, <2>6, <2>7 DEF StackInv
<1>3. CASE bstate = "SUBINPROGRESS"
  <2>1. /\ CleanupSubTransaction /\ code' = SubSeq(code, 1, inner - 1)
        /\ pc' = "exec" \/ pc' = IF inner > 2 THEN "catch" ELSE "error"
        /\ deferred' = deferred /\ lastSubid' = lastSubid
    BY <1>0, <1>3 DEF RollbackAndReleaseCurrentSubTransaction
  <2>2. /\ level' = level - 1 /\ blockState' = [blockState EXCEPT ![level] = "FREE"]
        /\ state' = [state EXCEPT ![level] = "DEFAULT"]
    BY <2>1 DEF CleanupSubTransaction, PopTransaction
  <2>3. Len(code') = Len(code) - 1
    <3>1. \A i \in 1..(inner - 1) : code[i] \in Nat
      BY <1>1 DEF inner
    <3>2. QED
      BY <1>1, <2>1, <3>1, SubSeqProperties DEF inner
  <2>4. pc' = "exec" \/ pc' = IF Len(code) > 2 THEN "catch" ELSE "error"
    BY <2>1 DEF inner
  <2>5. QED
    BY <1>0, <1>1, <1>3, <2>1, <2>2, <2>3, <2>4, PopStep
<1>4. QED
  BY <1>1, <1>2, <1>3

\* What they find.
LEMMA EndFinds ==
    ASSUME TypeOK, StackInv, pc \in {"commit", "loop", "chain", "error"}
    PROVE  /\ ControlType /\ StackType /\ StackShape /\ Ancestry /\ Depth /\ OpenBlock /\ PlaceStates
           /\ MaxSubId \in Nat /\ level \in 1..MaxSubId /\ DOMAIN blockState = 1..MaxSubId
           /\ DOMAIN state = 1..MaxSubId
           /\ lastSubid \in 1..MaxSubId /\ level <= lastSubid
           /\ Len(code) = 1
           /\ blockState[1] \in {"ABORT", "ABORT_END"} => state[1] = "ABORT"
           /\ bstate \notin SubBlockStates => level = 1 /\ bstate = blockState[1]
           /\ bstate \in SubBlockStates => level >= 2
<1>1. /\ ControlType /\ StackType /\ StackShape /\ Ancestry /\ Depth /\ OpenBlock /\ PlaceStates
  BY DEF TypeOK, StackInv
<1>2. /\ MaxSubId \in Nat /\ level \in 1..MaxSubId /\ DOMAIN blockState = 1..MaxSubId
      /\ DOMAIN state = 1..MaxSubId
      /\ lastSubid \in 1..MaxSubId /\ level <= lastSubid
  BY <1>1, SubIdAssumption DEF StackType, Levels, Depth
<1>3. Len(code) = 1
  BY <1>1 DEF Depth
<1>4. bstate \notin SubBlockStates => level = 1 /\ bstate = blockState[1]
  BY <1>1, EntryStates DEF bstate
<1>5. bstate \in SubBlockStates => level >= 2
  BY <1>1, <1>2 DEF StackShape, TopBlockStates, SubBlockStates, bstate
<1>6. QED
  BY <1>1, <1>2, <1>3, <1>4, <1>5 DEF PlaceStates

\* A step that works on the current subtransaction.
LEMMA LevelStep ==
    ASSUME TypeOK, StackInv, pc \in {"commit", "loop", "error"}, StackShape', Ancestry',
           level' \in Nat, level' >= 1, level' <= level, level' <= lastSubid',
           Len(code') = 1, ~deferred', pc' \notin {"chain", "catch"},
           blockState'[1] = blockState[1],
           level' > 1 => /\ ~FailedStart
                         /\ blockState[1] \in {"END", "PREPARE"} => bstate' = "SUBCOMMIT",
           PlaceStates'
    PROVE  StackInv'
<1>1. Depth'
  BY DEF Depth
<1>2. OpenBlock'
  <2>1. OpenBlock /\ Len(code) = 1 /\ level \in Nat
    BY EndFinds
  <2>2. level' > 1 => level > Len(code)
    BY <2>1
  <2>3. QED
    BY <2>1, <2>2 DEF OpenBlock
<1>3. QED
  BY <1>1, <1>2 DEF StackInv

\* A step that pops the current subtransaction.
LEMMA DropLevel ==
    ASSUME TypeOK, StackInv, pc \in {"commit", "loop", "error"}, bstate \in SubBlockStates,
           level' = level - 1, blockState' = [blockState EXCEPT ![level] = "FREE"],
           state' = [state EXCEPT ![level] = "DEFAULT"], lastSubid' = lastSubid,
           Len(code') = 1, ~deferred', pc' \in {"commit", "loop", "finished", "error", "fatal"},
           pc' = "finished" => blockState[level - 1] \in {"SUBINPROGRESS", "INPROGRESS"}
    PROVE  StackInv'
<1>0. /\ StackType /\ StackShape /\ Ancestry /\ OpenBlock
      /\ MaxSubId \in Nat /\ level \in 1..MaxSubId /\ DOMAIN blockState = 1..MaxSubId
      /\ DOMAIN state = 1..MaxSubId /\ lastSubid \in 1..MaxSubId /\ level <= lastSubid
      /\ Len(code) = 1 /\ level >= 2
      /\ blockState[1] \in {"ABORT", "ABORT_END"} => state[1] = "ABORT"
  BY EndFinds
<1>1. StackShape' /\ Ancestry'
  BY <1>0, PopStack
<1>2. /\ bstate' = blockState[level - 1] /\ blockState'[1] = blockState[1]
      /\ state'[1] = state[1]
  BY <1>0 DEF bstate
<1>3. level' > 1 => ~FailedStart
  BY <1>0 DEF FailedStart
<1>4. level' > 1 /\ blockState[1] \in {"END", "PREPARE"} => bstate' = "SUBCOMMIT"
  <2>1. SUFFICES ASSUME level' > 1, blockState[1] \in {"END", "PREPARE"}
                 PROVE  bstate' = "SUBCOMMIT"
    OBVIOUS
  <2>2. bstate = "SUBCOMMIT"
    BY <1>0, <1>3, <2>1 DEF OpenBlock
  <2>3. ParentsOf(bstate) = {"SUBCOMMIT", "END", "PREPARE"}
    BY <2>2 DEF ParentsOf
  <2>4. blockState[level - 1] \in {"SUBCOMMIT", "END", "PREPARE"}
    BY <1>0, <2>3 DEF StackShape, bstate
  <2>5. blockState[level - 1] \in SubBlockStates
    BY <1>0, <2>1, EntryStates
  <2>6. QED
    BY <1>2, <2>4, <2>5 DEF SubBlockStates
<1>5. PlaceStates'
  BY <1>0, <1>2 DEF PlaceStates, StatementStates, CommandStates
<1>6. level' \in Nat /\ level' >= 1 /\ level' <= level /\ level' <= lastSubid'
  BY <1>0
<1>7. QED
  BY <1>1, <1>2, <1>3, <1>4, <1>5, <1>6, LevelStep

\* CommitTransactionCommand outside the subtransactions.
LEMMA CommitTopStep ==
    ASSUME TypeOK, StackInv,
           CommitNothing \/ PreCommit \/ FinishCommit \/ FinishAbort \/ ChainStart
    PROVE  StackInv' /\ pc' # "fatal"
<1>1. CASE CommitNothing
  <2>0. pc = "commit" /\ Len(code) = 1 /\ ~deferred
    BY <1>1, EndFinds DEF CommitNothing, Depth
  <2>1. /\ level' = level /\ state' = state /\ code' = code /\ deferred' = deferred
        /\ lastSubid' = lastSubid /\ pc' \in {"finished", "error"}
        /\ SetBlockState(IF bstate = "BEGIN" THEN "INPROGRESS" ELSE bstate)
        /\ bstate \in CommandStates \cup {"BEGIN"}
    BY <1>1 DEF CommitNothing, CommitLeavesAlone, CommandStates
  <2>2. CASE bstate = "BEGIN"
    <3>1. level = 1
      BY <2>0, <2>2, EndFinds DEF SubBlockStates
    <3>2. blockState' = [blockState EXCEPT ![1] = "INPROGRESS"]
      BY <2>1, <2>2, <3>1 DEF SetBlockState
    <3>3. blockState'[1] = "INPROGRESS" /\ bstate' = "INPROGRESS"
      BY <2>0, <2>1, <3>1, <3>2, EndFinds DEF bstate
    <3>4. PlaceStates'
      BY <2>1, <3>3 DEF PlaceStates, StatementStates, CommandStates
    <3>5. "INPROGRESS" \in TopBlockStates /\ lastSubid' >= 1 /\ Len(code') = 1 /\ ~deferred'
      BY <2>0, <2>1, EndFinds DEF TopBlockStates
    <3>6. QED
      BY <2>0, <2>1, <3>1, <3>2, <3>4, <3>5, EndFinds, TopStep
  <2>3. CASE bstate # "BEGIN"
    <3>1. blockState' = [blockState EXCEPT ![level] = blockState[level]]
      BY <2>1, <2>3 DEF SetBlockState, bstate
    <3>2. blockState' = blockState
      BY <2>0, <3>1, EndFinds DEF StackType
    <3>3. bstate' = bstate
      BY <2>1, <3>2 DEF bstate
    <3>4. PlaceStates'
      BY <2>0, <2>1, <2>3, <3>2, <3>3, EndFinds DEF PlaceStates, StatementStates
    <3>5. QED
      BY <2>0, <2>1, <3>2, <3>4, EndFinds, QuietStep
  <2>4. QED
    BY <2>2, <2>3
<1>2. CASE PreCommit
  <2>0. pc \in {"commit", "loop"} /\ bstate \in {"STARTED", "END", "PREPARE"}
    BY <1>2 DEF PreCommit
  <2>1. level = 1 /\ blockState[1] = bstate /\ Len(code) = 1
    BY <2>0, EndFinds DEF SubBlockStates
  <2>2. /\ level' = level /\ blockState' = blockState /\ state' = state /\ code' = code
        /\ lastSubid' = lastSubid /\ pc' = "exec" /\ deferred'
    BY <1>2 DEF PreCommit, stack
  <2>3. blockState' = [blockState EXCEPT ![1] = bstate]
    BY <2>0, <2>1, <2>2, EndFinds DEF StackType
  <2>4. PlaceStates'
    BY <2>0, <2>1, <2>2 DEF PlaceStates, InternalStates, bstate
  <2>5. bstate \in TopBlockStates /\ lastSubid' >= 1 /\ Len(code') = 1 /\ level' = 1
    BY <2>0, <2>1, <2>2, EndFinds DEF TopBlockStates
  <2>6. QED
    BY <2>0, <2>1, <2>2, <2>3, <2>4, <2>5, EndFinds, TopStep
<1>3. CASE FinishCommit
  <2>0. pc = "exec" /\ deferred /\ code = <<0>> /\ bstate \in InternalStates
    BY <1>3 DEF FinishCommit, StackInv, PlaceStates
  <2>a. bstate # "SUBBEGIN"
    BY <2>0 DEF InternalStates
  <2>1. level = 1 /\ StackType /\ DOMAIN blockState = 1..MaxSubId /\ MaxSubId >= 1
        /\ lastSubid >= 1 /\ MaxSubId \in Nat
    BY <2>0, <2>a, UserFinds
  <2>2. CASE /\ bstate = "PREPARE" /\ pc' = "error"
             /\ UNCHANGED <<deferred, level, blockState, code, lastSubid>>
    <3>1. blockState' = [blockState EXCEPT ![1] = "PREPARE"]
      BY <2>1, <2>2 DEF StackType, bstate
    <3>2. PlaceStates'
      BY <2>1, <2>2 DEF PlaceStates, bstate
    <3>3. "PREPARE" \in TopBlockStates /\ lastSubid' >= 1 /\ Len(code') = 1 /\ level' = 1
      BY <2>0, <2>1, <2>2 DEF TopBlockStates
    <3>4. QED
      BY <2>1, <2>2, <3>1, <3>2, <3>3, TopStep
  <2>3. CASE /\ CommitTransaction /\ deferred' = FALSE /\ pc' = AfterEnd(bstate)
             /\ UNCHANGED <<code, lastSubid>>
    <3>1. blockState' = [blockState EXCEPT ![1] = "DEFAULT"] /\ level' = 1
      BY <2>1, <2>3 DEF CommitTransaction, CleanupTransaction
    <3>2. pc' \in {"chain", "finished"}
      BY <2>3 DEF AfterEnd
    <3>3. bstate' = "DEFAULT" /\ blockState'[1] = "DEFAULT"
      BY <2>1, <3>1 DEF bstate
    <3>4. PlaceStates'
      BY <3>2, <3>3 DEF PlaceStates
    <3>5. "DEFAULT" \in TopBlockStates /\ lastSubid' >= 1 /\ Len(code') = 1 /\ ~deferred'
      BY <2>0, <2>1, <2>3 DEF TopBlockStates
    <3>6. QED
      BY <2>1, <3>1, <3>2, <3>4, <3>5, TopStep
  <2>4. QED
    BY <1>3, <2>2, <2>3 DEF FinishCommit
<1>4. CASE FinishAbort
  <2>0. pc = "commit" /\ bstate \in {"ABORT_END", "ABORT_PENDING"}
    BY <1>4 DEF FinishAbort
  <2>1. level = 1 /\ blockState[1] = bstate /\ Len(code) = 1 /\ ~deferred
    BY <2>0, EndFinds DEF SubBlockStates, Depth
  <2>2. bstate = "ABORT_PENDING" \/ state[1] = "ABORT"
    BY <2>0, <2>1, EndFinds
  <2>3. CleanupTransaction /\ pc' = AfterEnd(bstate) /\ UNCHANGED <<code, deferred, lastSubid>>
    BY <1>4, <2>2 DEF FinishAbort
  <2>4. /\ blockState' = [blockState EXCEPT ![1] = "DEFAULT"] /\ level' = 1
        /\ pc' \in {"chain", "finished"}
    BY <2>1, <2>3 DEF CleanupTransaction, AfterEnd
  <2>5. bstate' = "DEFAULT" /\ blockState'[1] = "DEFAULT"
    BY <2>0, <2>1, <2>4, EndFinds DEF bstate
  <2>6. PlaceStates'
    BY <2>4, <2>5 DEF PlaceStates
  <2>7. "DEFAULT" \in TopBlockStates /\ lastSubid' >= 1 /\ Len(code') = 1 /\ ~deferred'
    BY <2>0, <2>1, <2>3, EndFinds DEF TopBlockStates
  <2>8. QED
    BY <2>0, <2>1, <2>4, <2>6, <2>7, EndFinds, TopStep
<1>5. CASE ChainStart
  <2>0. pc = "chain" /\ level = 1 /\ bstate = "DEFAULT" /\ Len(code) = 1 /\ ~deferred
    BY <1>5, EndFinds DEF ChainStart, Depth
  <2>1. CASE StartTransactionFails
    BY <2>0, <2>1, StartFails DEF StartTransactionFails
  <2>2. CASE /\ StartTransaction("INPROGRESS", saved) /\ pc' = "finished"
             /\ UNCHANGED <<code, deferred>>
    <3>1. blockState' = [blockState EXCEPT ![1] = "INPROGRESS"] /\ level' = 1 /\ lastSubid' = 1
      BY <2>0, <2>2 DEF StartTransaction
    <3>2. bstate' = "INPROGRESS" /\ blockState'[1] = "INPROGRESS"
      BY <2>0, <3>1, EndFinds DEF bstate
    <3>3. PlaceStates'
      BY <2>2, <3>2 DEF PlaceStates, StatementStates, CommandStates
    <3>4. "INPROGRESS" \in TopBlockStates /\ lastSubid' >= 1 /\ Len(code') = 1 /\ ~deferred'
      BY <2>0, <2>2, <3>1 DEF TopBlockStates
    <3>5. QED
      BY <2>0, <2>2, <3>1, <3>3, <3>4, EndFinds, TopStep
  <2>3. QED
    BY <1>5, <2>1, <2>2 DEF ChainStart
<1>6. QED
  BY <1>1, <1>2, <1>3, <1>4, <1>5

\* CommitTransactionCommand on a subtransaction.
LEMMA CommitSubStep ==
    ASSUME TypeOK, StackInv, StartSub \/ CommitSub \/ AbortSub \/ RestartSub
    PROVE  StackInv' /\ pc' # "fatal"
<1>0. /\ pc \in {"commit", "loop"} /\ bstate \in SubBlockStates
      /\ code' = code /\ deferred' = deferred
  BY DEF StartSub, CommitSub, AbortSub, RestartSub, SubBlockStates, CommitLeavesAlone
<1>1. /\ Len(code) = 1 /\ ~deferred /\ level \in 2..MaxSubId /\ MaxSubId \in Nat
      /\ StackType /\ StackShape /\ Ancestry /\ OpenBlock /\ Depth /\ PlaceStates
      /\ DOMAIN blockState = 1..MaxSubId /\ DOMAIN state = 1..MaxSubId
      /\ lastSubid \in Nat /\ level <= lastSubid
  BY <1>0, EndFinds DEF Depth
<1>2. /\ Len(code') = 1 /\ ~deferred' /\ ~FailedStart
      /\ blockState[1] \in {"END", "PREPARE"} => bstate = "SUBCOMMIT"
      /\ blockState[1] \in {"ABORT", "ABORT_END"} => state[1] = "ABORT"
  BY <1>0, <1>1 DEF FailedStart, OpenBlock, PlaceStates
<1>3. CASE StartSub
  <2>1. bstate = "SUBBEGIN" /\ level' = level /\ lastSubid' = lastSubid
    BY <1>3 DEF StartSub
  <2>2. CASE StartSubTransaction /\ pc' = "finished"
    <3>1. /\ blockState' = [blockState EXCEPT ![level] = "SUBINPROGRESS"]
          /\ state' = [state EXCEPT ![level] = "INPROGRESS"]
      BY <2>2 DEF StartSubTransaction, SetBlockState
    <3>2. /\ ParentsOf(bstate) \subseteq ParentsOf("SUBINPROGRESS")
          /\ AncestorsOf(bstate) \subseteq AncestorsOf("SUBINPROGRESS")
      BY <2>1 DEF ParentsOf, AncestorsOf
    <3>3. StackShape' /\ Ancestry'
      <4>1. level >= 2
        BY <1>1
      <4>2. QED
        BY <1>1, <2>1, <3>1, <3>2, <4>1, SetSub
    <3>4. /\ blockState'[1] = blockState[1] /\ state'[1] = state[1]
          /\ bstate' = "SUBINPROGRESS"
      BY <1>1, <2>1, <3>1 DEF bstate
    <3>5. PlaceStates'
      BY <1>2, <2>2, <3>4 DEF PlaceStates, StatementStates, CommandStates
    <3>6. QED
      BY <1>0, <1>1, <1>2, <2>1, <2>2, <3>3, <3>4, <3>5, LevelStep
  <2>3. CASE StartSubTransactionFails /\ pc' = "error"
    <3>1. blockState' = blockState /\ state' = [state EXCEPT ![level] = "START"]
      BY <2>3 DEF StartSubTransactionFails
    <3>2. StackShape' /\ Ancestry'
      BY <1>1, <2>1, <3>1, SameStack
    <3>3. state'[1] = state[1]
      BY <1>1, <3>1
    <3>4. PlaceStates'
      BY <1>2, <2>3, <3>1, <3>3 DEF PlaceStates
    <3>5. QED
      BY <1>0, <1>1, <1>2, <2>1, <2>3, <3>1, <3>2, <3>4, LevelStep
  <2>4. QED
    BY <1>3, <2>2, <2>3 DEF StartSub
<1>4. CASE CommitSub
  <2>0. lastSubid' = lastSubid /\ bstate \in {"SUBRELEASE", "SUBCOMMIT"}
    BY <1>4 DEF CommitSub
  <2>1. CASE /\ CommitSubTransaction
             /\ pc' = IF blockState[level - 1] = bstate THEN "loop"
                      ELSE IF bstate = "SUBRELEASE" THEN "finished"
                      ELSE IF blockState[level - 1] \in {"END", "PREPARE"} THEN "loop"
                      ELSE "error"
    <3>1. /\ level' = level - 1 /\ blockState' = [blockState EXCEPT ![level] = "FREE"]
          /\ state' = [state EXCEPT ![level] = "DEFAULT"]
      BY <2>1 DEF CommitSubTransaction, PopTransaction
    <3>2. blockState[level - 1] \in ParentsOf(bstate)
      BY <1>1 DEF StackShape, bstate
    <3>3. /\ pc' \in {"loop", "finished", "error"}
          /\ pc' = "finished" => blockState[level - 1] \in {"SUBINPROGRESS", "INPROGRESS"}
      BY <2>1, <3>2 DEF ParentsOf
    <3>4. QED
      BY <1>0, <1>2, <2>0, <3>1, <3>3, DropLevel
  <2>2. CASE /\ \E st \in {"INPROGRESS", "COMMIT"} : state' = [state EXCEPT ![level] = st]
             /\ pc' = "error" /\ UNCHANGED <<level, blockState>>
    <3>1. StackShape' /\ Ancestry'
      BY <1>1, <2>2, SameStack
    <3>2. state'[1] = state[1] /\ bstate' = bstate
      BY <1>1, <2>2 DEF bstate
    <3>3. PlaceStates'
      BY <1>2, <2>2, <3>2 DEF PlaceStates
    <3>4. QED
      BY <1>0, <1>1, <1>2, <2>0, <2>2, <3>1, <3>2, <3>3, LevelStep
  <2>3. QED
    BY <1>4, <2>1, <2>2 DEF CommitSub
<1>5. CASE AbortSub
  <2>1. /\ level' = level - 1 /\ blockState' = [blockState EXCEPT ![level] = "FREE"]
        /\ state' = [state EXCEPT ![level] = "DEFAULT"] /\ lastSubid' = lastSubid
        /\ pc' = "commit"
    BY <1>5 DEF AbortSub, CleanupSubTransaction, PopTransaction
  <2>2. QED
    BY <1>0, <1>2, <2>1, DropLevel
<1>6. CASE RestartSub
  <2>0. /\ bstate \in {"SUBRESTART", "SUBABORT_RESTART"} /\ pc = "commit"
        /\ blockState[level - 1] \in {"INPROGRESS", "SUBINPROGRESS"}
    <3>1. bstate \in {"SUBRESTART", "SUBABORT_RESTART"} /\ pc = "commit"
      BY <1>6 DEF RestartSub
    <3>2. blockState[level - 1] \in ParentsOf(bstate)
      BY <1>1 DEF StackShape, bstate
    <3>3. QED
      BY <3>1, <3>2 DEF ParentsOf
  <2>1. CASE CanPush
    <3>1. /\ lastSubid' = lastSubid + 1 /\ level' = level /\ pc' = pc
          /\ blockState' = [blockState EXCEPT ![level] = "SUBBEGIN"]
          /\ state' = [state EXCEPT ![level] = "DEFAULT"]
      BY <1>6, <2>0, <2>1 DEF RestartSub
    <3>2. /\ ParentsOf(bstate) \subseteq ParentsOf("SUBBEGIN")
          /\ AncestorsOf(bstate) \subseteq AncestorsOf("SUBBEGIN")
      BY <2>0 DEF ParentsOf, AncestorsOf, LiveStates
    <3>3. StackShape' /\ Ancestry'
      <4>1. level >= 2
        BY <1>1
      <4>2. QED
        BY <1>1, <3>1, <3>2, <4>1, SetSub
    <3>4. blockState'[1] = blockState[1] /\ state'[1] = state[1]
      BY <1>1, <3>1
    <3>5. PlaceStates'
      BY <1>2, <2>0, <3>1, <3>4 DEF PlaceStates
    <3>6. level' \in Nat /\ level' >= 1 /\ level' <= level /\ level' <= lastSubid'
      BY <1>1, <3>1
    <3>7. blockState[1] \notin {"END", "PREPARE"}
      BY <1>2, <2>0
    <3>8. QED
      BY <1>2, <2>0, <3>1, <3>3, <3>4, <3>5, <3>6, <3>7, LevelStep
  <2>2. CASE ~CanPush
    <3>1. /\ level' = level - 1 /\ blockState' = [blockState EXCEPT ![level] = "FREE"]
          /\ state' = [state EXCEPT ![level] = "DEFAULT"] /\ lastSubid' = lastSubid
          /\ pc' = "error"
      BY <1>6, <2>2 DEF RestartSub, CleanupSubTransaction, PopTransaction
    <3>2. QED
      BY <1>0, <1>2, <3>1, DropLevel
  <2>3. QED
    BY <2>1, <2>2
<1>7. QED
  BY <1>3, <1>4, <1>5, <1>6

\* AbortCurrentTransaction.
LEMMA AbortStep ==
    ASSUME TypeOK, StackInv, AbortCurrentTransaction
    PROVE  StackInv' /\ pc' # "fatal"
<1>0. pc = "error" /\ code' = <<0>> /\ deferred' = FALSE /\ lastSubid' = lastSubid
      /\ pc' \in {"recovered", "error"}
  BY DEF AbortCurrentTransaction, AbortNothing, AbortToIdle, AbortBlock, CleanupBlock,
         AbortSubBlock, AbortParent, AbortEffect
<1>1. /\ level \in 1..MaxSubId /\ MaxSubId \in Nat
      /\ StackType /\ StackShape /\ Ancestry /\ OpenBlock /\ PlaceStates
      /\ DOMAIN blockState = 1..MaxSubId /\ DOMAIN state = 1..MaxSubId
      /\ lastSubid \in Nat /\ level <= lastSubid /\ Len(code) = 1
      /\ lastSubid' >= 1 /\ Len(code') = 1
      /\ bstate \notin SubBlockStates => level = 1 /\ bstate = blockState[1]
      /\ bstate \in SubBlockStates => level >= 2
      /\ blockState[1] \in {"ABORT", "ABORT_END"} => state[1] = "ABORT"
  BY <1>0, EndFinds
<1>2. CASE AbortNothing
  <2>1. /\ level' = level /\ blockState' = blockState /\ state' = state
        /\ bstate \in {"DEFAULT", "ABORT", "SUBABORT"}
    BY <1>2 DEF AbortNothing, stack
  <2>2. StackShape' /\ Ancestry'
    BY <1>1, <2>1, SameStack
  <2>3. bstate' = bstate
    BY <2>1 DEF bstate
  <2>4. PlaceStates'
    BY <1>0, <1>1, <2>1, <2>3, <1>2
    DEF PlaceStates, StatementStates, CommandStates, AbortNothing, AbortEffect
  <2>5. level' > 1 => ~FailedStart /\ blockState[1] \notin {"END", "PREPARE"}
    BY <1>1, <2>1 DEF OpenBlock, FailedStart
  <2>6. level' \in Nat /\ level' >= 1 /\ level' <= level /\ level' <= lastSubid'
    BY <1>0, <1>1, <2>1
  <2>7. QED
    BY <1>0, <1>1, <2>1, <2>2, <2>3, <2>4, <2>5, <2>6, LevelStep
<1>3. CASE AbortToIdle \/ AbortBlock \/ CleanupBlock
  <2>1. level = 1 /\ bstate = blockState[1]
    BY <1>1, <1>3 DEF AbortToIdle, AbortBlock, CleanupBlock, SubBlockStates
  <2>2. PICK b \in {"DEFAULT", "ABORT"} :
           /\ blockState' = [blockState EXCEPT ![1] = b]
           /\ b = "ABORT" => state' = [state EXCEPT ![1] = "ABORT"]
    BY <1>3, <2>1 DEF AbortToIdle, AbortBlock, CleanupBlock, CleanupTransaction, SetBlockState
  <2>3. level' = 1 /\ pc' = "recovered"
    BY <1>3, <2>1 DEF AbortToIdle, AbortBlock, CleanupBlock, CleanupTransaction, AbortEffect
  <2>4. bstate' = b /\ blockState'[1] = b /\ (b = "ABORT" => state'[1] = "ABORT")
    BY <1>1, <2>1, <2>2, <2>3 DEF bstate
  <2>5. PlaceStates'
    BY <2>3, <2>4 DEF PlaceStates, StatementStates, CommandStates
  <2>6. b \in TopBlockStates
    BY DEF TopBlockStates
  <2>7. QED
    BY <1>0, <1>1, <2>1, <2>2, <2>3, <2>5, <2>6, TopStep
<1>4. CASE AbortSubBlock
  <2>1. /\ bstate = "SUBINPROGRESS" /\ level' = level /\ pc' = "recovered"
        /\ blockState' = [blockState EXCEPT ![level] = "SUBABORT"]
        /\ state' = [state EXCEPT ![level] = "ABORT"]
    BY <1>4 DEF AbortSubBlock, SetBlockState, AbortEffect
  <2>2. level >= 2
    BY <1>1, <2>1 DEF SubBlockStates
  <2>3. /\ ParentsOf(bstate) \subseteq ParentsOf("SUBABORT")
        /\ AncestorsOf(bstate) \subseteq AncestorsOf("SUBABORT")
    BY <2>1 DEF ParentsOf, AncestorsOf
  <2>4. StackShape' /\ Ancestry'
    BY <1>1, <2>1, <2>2, <2>3, SetSub
  <2>5. /\ blockState'[1] = blockState[1] /\ state'[1] = state[1]
        /\ bstate' = "SUBABORT"
    BY <1>1, <2>1, <2>2 DEF bstate
  <2>6. PlaceStates'
    BY <1>1, <2>1, <2>5 DEF PlaceStates, StatementStates, CommandStates
  <2>7. ~FailedStart /\ blockState[1] \notin {"END", "PREPARE"}
    BY <1>1, <2>1, <2>2 DEF OpenBlock, FailedStart
  <2>8. level' \in Nat /\ level' >= 1 /\ level' <= level /\ level' <= lastSubid'
    BY <1>0, <1>1, <2>1
  <2>9. QED
    BY <1>0, <1>1, <2>1, <2>4, <2>5, <2>6, <2>7, <2>8, LevelStep
<1>5. CASE AbortParent
  <2>1. /\ level' = level - 1 /\ blockState' = [blockState EXCEPT ![level] = "FREE"]
        /\ state' = [state EXCEPT ![level] = "DEFAULT"] /\ pc' = "error"
        /\ bstate \in SubBlockStates
    BY <1>5 DEF AbortParent, CleanupSubTransaction, PopTransaction, AbortEffect, SubBlockStates
  <2>2. QED
    BY <1>0, <1>1, <2>1, DropLevel
<1>6. QED
  BY <1>2, <1>3, <1>4, <1>5 DEF AbortCurrentTransaction
=============================================================================
