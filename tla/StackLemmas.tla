---------------------------- MODULE StackLemmas -----------------------------
(***************************************************************************)
(* How the marks on the transaction stack of module Backend change, and that *)
(* each kind of change keeps them fitting together, for every value of the *)
(* constants.                                                              *)
(***************************************************************************)
EXTENDS Backend, TLAPS

\* A top-level state is met at level 1 only, and no entry of the stack is free.
LEMMA EntryStates ==
    ASSUME StackType, StackShape
    PROVE  /\ \A i \in 2..level : blockState[i] \in SubBlockStates
           /\ bstate \notin SubBlockStates => level = 1
           /\ bstate # "FREE"
<1>1. \A b \in TopBlockStates \cup {"FREE"} : ParentsOf(b) = {}
  BY DEF ParentsOf, TopBlockStates
<1>3. /\ level \in 1..MaxSubId
      /\ MaxSubId \in Nat
      /\ blockState \in [1..MaxSubId -> TopBlockStates \cup SubBlockStates \cup {"FREE"}]
  BY SubIdAssumption DEF StackType, BlockStates, Levels
<1>2. \A i \in 2..level : blockState[i] \in SubBlockStates
  <2>1. TAKE i \in 2..level
  <2>2. blockState[i] \in TopBlockStates \cup SubBlockStates \cup {"FREE"}
    BY <1>3
  <2>3. QED
    BY <1>1, <2>2 DEF StackShape
<1>4. QED
  BY <1>2, <1>3, SubIdAssumption DEF bstate, StackShape, TopBlockStates, SubBlockStates

\* Nothing happens to the stack.
LEMMA SameStack ==
    ASSUME StackShape, Ancestry, level' = level, blockState' = blockState
    PROVE  StackShape' /\ Ancestry'
BY DEF StackShape, Ancestry, Levels

\* The current entry is popped (PopTransaction).
LEMMA PopStack ==
    ASSUME StackType, StackShape, Ancestry, level >= 2, level' = level - 1,
           blockState' = [blockState EXCEPT ![level] = "FREE"]
    PROVE  StackShape' /\ Ancestry'
<1>1. level \in 2..MaxSubId /\ MaxSubId \in Nat /\ DOMAIN blockState = 1..MaxSubId
  BY SubIdAssumption DEF StackType, Levels
<1>2. \A i \in 1..MaxSubId : blockState'[i] = IF i = level THEN "FREE" ELSE blockState[i]
  BY <1>1
<1>3. StackShape'
  BY <1>1, <1>2 DEF StackShape, Levels
<1>4. Ancestry'
  BY <1>1, <1>2 DEF Ancestry
<1>5. QED
  BY <1>3, <1>4

\* The only entry gets another top-level state.
LEMMA SetTop ==
    ASSUME StackType, StackShape, level = 1, level' = 1, NEW b \in TopBlockStates,
           blockState' = [blockState EXCEPT ![1] = b]
    PROVE  StackShape' /\ Ancestry'
<1>1. MaxSubId \in Nat /\ MaxSubId >= 1 /\ DOMAIN blockState = 1..MaxSubId
  BY SubIdAssumption DEF StackType, Levels
<1>2. \A i \in 1..MaxSubId : blockState'[i] = IF i = 1 THEN b ELSE blockState[i]
  BY <1>1
<1>3. QED
  BY <1>1, <1>2 DEF StackShape, Ancestry, Levels

\* The current subtransaction gets a mark that asks no more of those below it.
LEMMA SetSub ==
    ASSUME StackType, StackShape, Ancestry, level >= 2, level' = level, NEW b,
           ParentsOf(bstate) \subseteq ParentsOf(b),
           AncestorsOf(bstate) \subseteq AncestorsOf(b),
           blockState' = [blockState EXCEPT ![level] = b]
    PROVE  StackShape' /\ Ancestry'
<1>1. level \in 2..MaxSubId /\ MaxSubId \in Nat /\ DOMAIN blockState = 1..MaxSubId
  BY SubIdAssumption DEF StackType, Levels
<1>2. \A i \in 1..MaxSubId : blockState'[i] = IF i = level THEN b ELSE blockState[i]
  BY <1>1
<1>3. StackShape'
  BY <1>1, <1>2 DEF StackShape, Levels, bstate
<1>4. Ancestry'
  BY <1>1, <1>2 DEF Ancestry, bstate
<1>5. QED
  BY <1>3, <1>4

\* A subtransaction is pushed on a live entry.
LEMMA PushStack ==
    ASSUME StackType, StackShape, Ancestry, bstate \in LiveStates, level < MaxSubId,
           level' = level + 1, NEW b \in {"SUBBEGIN", "SUBINPROGRESS"},
           blockState' = [blockState EXCEPT ![level + 1] = b]
    PROVE  StackShape' /\ Ancestry'
<1>1. level \in 1..MaxSubId /\ MaxSubId \in Nat /\ DOMAIN blockState = 1..MaxSubId
  BY SubIdAssumption DEF StackType, Levels
<1>2. \A i \in 1..MaxSubId : blockState'[i] = IF i = level + 1 THEN b ELSE blockState[i]
  BY <1>1
<1>3. ParentsOf(b) = LiveStates /\ AncestorsOf(b) = LiveStates
  BY DEF ParentsOf, AncestorsOf
<1>4. \A i \in 1..level : blockState[i] \in LiveStates
  <2>1. CASE bstate = "SUBINPROGRESS"
    <3>1. AncestorsOf(bstate) = LiveStates
      BY <2>1 DEF ParentsOf, AncestorsOf
    <3>2. QED
      BY <1>1, <3>1 DEF Ancestry, bstate
  <2>2. CASE bstate # "SUBINPROGRESS"
    <3>1. bstate \notin SubBlockStates
      BY <2>2 DEF LiveStates, SubBlockStates
    <3>2. level = 1
      BY <3>1, EntryStates
    <3>3. QED
      BY <3>2 DEF bstate
  <2>3. QED
    BY <2>1, <2>2
<1>5. StackShape'
  BY <1>1, <1>2, <1>3, <1>4 DEF StackShape, Levels
<1>6. Ancestry'
  BY <1>1, <1>2, <1>3, <1>4 DEF Ancestry
<1>7. QED
  BY <1>5, <1>6

\* Under a live or aborted subtransaction lie live ones, and a live transaction.
LEMMA LiveBelow ==
    ASSUME StackType, StackShape, Ancestry,
           bstate \in {"SUBBEGIN", "SUBINPROGRESS", "SUBABORT"}
    PROVE  /\ level >= 2
           /\ \A i \in 2..(level - 1) : blockState[i] = "SUBINPROGRESS"
           /\ blockState[1] \in LiveStates
<1>1. level \in 1..MaxSubId /\ MaxSubId \in Nat
  BY SubIdAssumption DEF StackType, Levels
<1>2. level >= 2
  BY <1>1 DEF bstate, StackShape, TopBlockStates
<1>3. AncestorsOf(bstate) = LiveStates
  BY DEF ParentsOf, AncestorsOf
<1>4. \A i \in 1..(level - 1) : blockState[i] \in LiveStates
  BY <1>1, <1>3 DEF Ancestry, bstate
<1>5. \A i \in 2..level : blockState[i] \in SubBlockStates
  BY EntryStates
<1>6. QED
  BY <1>1, <1>2, <1>4, <1>5 DEF LiveStates, SubBlockStates

\* COMMIT or PREPARE marks every entry.
LEMMA MarkCommit ==
    ASSUME StackType, StackShape, level' = level, NEW end \in {"END", "PREPARE"},
           blockState' = [i \in Levels |-> IF i = 1 THEN end
                                          ELSE IF i <= level THEN "SUBCOMMIT"
                                          ELSE blockState[i]]
    PROVE  StackShape' /\ Ancestry'
<1>1. level \in 1..MaxSubId /\ MaxSubId \in Nat /\ MaxSubId >= 1
  BY SubIdAssumption DEF StackType, Levels
<1>2. \A i \in 1..MaxSubId : blockState'[i] = IF i = 1 THEN end
                                               ELSE IF i <= level THEN "SUBCOMMIT"
                                               ELSE blockState[i]
  BY DEF Levels
<1>3. ParentsOf("SUBCOMMIT") = {"SUBCOMMIT", "END", "PREPARE"}
      /\ AncestorsOf("SUBCOMMIT") = {"SUBCOMMIT", "END", "PREPARE"}
  BY DEF ParentsOf, AncestorsOf
<1>4. StackShape'
  BY <1>1, <1>2, <1>3 DEF StackShape, Levels, TopBlockStates
<1>5. Ancestry'
  BY <1>1, <1>2, <1>3 DEF Ancestry
<1>6. QED
  BY <1>4, <1>5

DropMark(b) == IF b = "SUBABORT" THEN "SUBABORT_END" ELSE "SUBABORT_PENDING"

\* ROLLBACK, or COMMIT of a failed transaction, marks every entry.
LEMMA MarkDrop ==
    ASSUME StackType, StackShape, Ancestry, level' = level,
           level > 1 => bstate \in {"SUBINPROGRESS", "SUBABORT"},
           NEW top \in TopBlockStates, level > 1 => top = "ABORT_PENDING",
           blockState' = [i \in Levels |-> IF i = 1 THEN top
                                          ELSE IF i <= level THEN DropMark(blockState[i])
                                          ELSE blockState[i]]
    PROVE  StackShape' /\ Ancestry'
<1>1. level \in 1..MaxSubId /\ MaxSubId \in Nat /\ MaxSubId >= 1
  BY SubIdAssumption DEF StackType, Levels
<1>2. \A i \in 1..MaxSubId : blockState'[i] = IF i = 1 THEN top
                                               ELSE IF i <= level THEN DropMark(blockState[i])
                                               ELSE blockState[i]
  BY DEF Levels
<1>3. CASE level = 1
  BY <1>1, <1>2, <1>3 DEF StackShape, Ancestry, Levels
<1>4. CASE level > 1
  <2>1. \A i \in 2..(level - 1) : blockState'[i] = "SUBABORT_PENDING"
    BY <1>1, <1>2, <1>4, LiveBelow DEF DropMark
  <2>2. blockState'[level] \in {"SUBABORT_PENDING", "SUBABORT_END"}
    BY <1>1, <1>2, <1>4 DEF DropMark
  <2>3. blockState'[1] = "ABORT_PENDING"
    BY <1>1, <1>2, <1>4
  <2>4. \A b \in {"SUBABORT_PENDING", "SUBABORT_END"} :
           /\ {"SUBABORT_PENDING", "ABORT_PENDING"} \subseteq ParentsOf(b)
           /\ {"SUBABORT_PENDING", "ABORT_PENDING"} \subseteq AncestorsOf(b)
    BY DEF ParentsOf, AncestorsOf
  <2>5. StackShape'
    <3>1. \A i \in 2..level : /\ blockState'[i] \in {"SUBABORT_PENDING", "SUBABORT_END"}
                              /\ blockState'[i - 1] \in {"SUBABORT_PENDING", "ABORT_PENDING"}
      BY <1>1, <2>1, <2>2, <2>3
    <3>2. \A i \in 1..MaxSubId : i > level => blockState'[i] = "FREE"
      BY <1>1, <1>2 DEF StackShape, Levels
    <3>3. QED
      BY <2>3, <2>4, <3>1, <3>2 DEF StackShape, Levels, TopBlockStates
  <2>6. Ancestry'
    BY <1>1, <1>2, <1>4, <2>1, <2>2, <2>3, <2>4 DEF Ancestry
  <2>7. QED
    BY <2>5, <2>6
<1>5. QED
  BY <1>1, <1>3, <1>4

\* RELEASE marks the named savepoint and those inside it.
LEMMA MarkRelease ==
    ASSUME StackType, StackShape, Ancestry, level' = level, bstate = "SUBINPROGRESS",
           blockState[1] = "INPROGRESS", NEW t \in 2..level,
           blockState' = [i \in Levels |-> IF i \in t..level THEN "SUBRELEASE"
                                          ELSE blockState[i]]
    PROVE  StackShape' /\ Ancestry'
<1>1. level \in 1..MaxSubId /\ MaxSubId \in Nat /\ MaxSubId >= 1
  BY SubIdAssumption DEF StackType, Levels
<1>2. \A i \in 1..MaxSubId : blockState'[i] = IF i \in t..level THEN "SUBRELEASE"
                                               ELSE blockState[i]
  BY DEF Levels
<1>3. \A i \in 2..level : blockState[i] = "SUBINPROGRESS"
  BY <1>1, LiveBelow DEF bstate
<1>4. \A S \in {{"SUBRELEASE", "SUBINPROGRESS", "INPROGRESS"}} :
         ParentsOf("SUBRELEASE") = S /\ AncestorsOf("SUBRELEASE") = S
  BY DEF ParentsOf, AncestorsOf
<1>5. StackShape'
  BY <1>1, <1>2, <1>3, <1>4 DEF StackShape, Levels
<1>6. Ancestry'
  BY <1>1, <1>2, <1>3, <1>4 DEF Ancestry
<1>7. QED
  BY <1>5, <1>6

\* ROLLBACK TO marks the named savepoint to restart and those inside it to go.
LEMMA MarkRollbackTo ==
    ASSUME StackType, StackShape, Ancestry, level' = level,
           bstate \in {"SUBINPROGRESS", "SUBABORT"},
           blockState[1] = "INPROGRESS", NEW t \in 2..level,
           blockState' = [i \in Levels |->
                            IF i \notin t..level THEN blockState[i]
                            ELSE IF i > t THEN DropMark(blockState[i])
                            ELSE IF blockState[i] = "SUBABORT" THEN "SUBABORT_RESTART"
                            ELSE "SUBRESTART"]
    PROVE  StackShape' /\ Ancestry'
<1>1. level \in 1..MaxSubId /\ MaxSubId \in Nat /\ MaxSubId >= 1
  BY SubIdAssumption DEF StackType, Levels
<1>2. \A i \in 1..MaxSubId :
         blockState'[i] = IF i \notin t..level THEN blockState[i]
                          ELSE IF i > t THEN DropMark(blockState[i])
                          ELSE IF blockState[i] = "SUBABORT" THEN "SUBABORT_RESTART"
                          ELSE "SUBRESTART"
  BY DEF Levels
<1>3. \A i \in 2..(level - 1) : blockState[i] = "SUBINPROGRESS"
  BY LiveBelow
<1>4. /\ \A i \in 2..(t - 1) : blockState'[i] = "SUBINPROGRESS"
      /\ blockState'[t] \in {"SUBRESTART", "SUBABORT_RESTART"}
      /\ t < level => blockState'[t] = "SUBRESTART"
      /\ \A i \in (t + 1)..(level - 1) : blockState'[i] = "SUBABORT_PENDING"
      /\ t < level => blockState'[level] \in {"SUBABORT_PENDING", "SUBABORT_END"}
      /\ blockState'[1] = "INPROGRESS"
  BY <1>1, <1>2, <1>3 DEF DropMark
<1>5. /\ \A b \in {"SUBRESTART", "SUBABORT_RESTART"} :
           /\ ParentsOf(b) = {"SUBINPROGRESS", "INPROGRESS"}
           /\ AncestorsOf(b) = {"SUBINPROGRESS", "INPROGRESS"}
      /\ \A b \in {"SUBABORT_PENDING", "SUBABORT_END"} :
           /\ {"SUBABORT_PENDING", "SUBRESTART"} \subseteq ParentsOf(b)
           /\ {"SUBABORT_PENDING", "SUBRESTART", "SUBINPROGRESS", "INPROGRESS"}
                 \subseteq AncestorsOf(b)
      /\ ParentsOf("SUBINPROGRESS") = LiveStates /\ AncestorsOf("SUBINPROGRESS") = LiveStates
      /\ {"SUBINPROGRESS", "INPROGRESS"} \subseteq LiveStates
  BY DEF ParentsOf, AncestorsOf, LiveStates
<1>6. StackShape'
  <2>1. \A i \in 2..level : blockState'[i - 1] \in ParentsOf(blockState'[i])
    <3>1. TAKE i \in 2..level
    <3>2. CASE i < t
      <4>1. blockState'[i] = "SUBINPROGRESS"
        BY <1>4, <3>2
      <4>2. blockState'[i - 1] \in {"SUBINPROGRESS", "INPROGRESS"}
        BY <1>4, <3>2
      <4>3. ParentsOf(blockState'[i]) = LiveStates
        BY <4>1 DEF ParentsOf
      <4>4. QED
        BY <4>2, <4>3 DEF LiveStates
    <3>3. CASE i = t
      <4>1. blockState'[i] \in {"SUBRESTART", "SUBABORT_RESTART"}
        BY <1>4, <3>3
      <4>2. blockState'[i - 1] \in {"SUBINPROGRESS", "INPROGRESS"}
        BY <1>4, <3>3
      <4>3. QED
        BY <4>1, <4>2, <1>5
    <3>4. CASE i > t
      <4>1. blockState'[i] \in {"SUBABORT_PENDING", "SUBABORT_END"}
        BY <1>1, <1>4, <3>4
      <4>2. blockState'[i - 1] \in {"SUBABORT_PENDING", "SUBRESTART"}
        BY <1>1, <1>4, <3>4
      <4>3. QED
        BY <4>1, <4>2, <1>5
    <3>5. QED
      BY <1>1, <3>2, <3>3, <3>4
  <2>2. \A i \in 1..MaxSubId : i > level => blockState'[i] = "FREE"
    BY <1>1, <1>2 DEF StackShape, Levels
  <2>3. QED
    BY <1>4, <2>1, <2>2 DEF StackShape, Levels, TopBlockStates
<1>7. Ancestry'
  BY <1>1, <1>2, <1>4, <1>5 DEF Ancestry
<1>8. QED
  BY <1>6, <1>7

\* There is always a frame of user code to return to.
LEMMA CodeLength ==
    ASSUME ControlType
    PROVE  Len(code) \in Nat /\ (Len(code) = 1 \/ Len(code) > 1)
<1>1. Len(code) \in Nat /\ Len(code) >= 1
  BY DEF ControlType
<1>2. \A n \in Nat : n >= 1 => n = 1 \/ n > 1
  OBVIOUS
<1>3. QED
  BY <1>1, <1>2

\* A step that leaves the stack and the nesting of user code alone.
LEMMA QuietStep ==
    ASSUME ControlType, StackInv, level' = level, blockState' = blockState,
           state' = state, Len(code') = Len(code), deferred' = deferred,
           lastSubid' = lastSubid, pc \notin {"catch", "error", "fatal"}, pc' # "chain",
           deferred => pc' \in {"exec", "catch", "error", "fatal"},
           pc' = "catch" => Len(code) > 1,
           pc' \notin {"exec", "catch", "fatal"} => Len(code) = 1,
           PlaceStates'
    PROVE  StackInv'
<1>1. StackShape' /\ Ancestry'
  BY SameStack DEF StackInv
<1>2. Depth'
  <2>1. level' <= lastSubid' /\ Len(code') <= level'
    BY DEF StackInv, Depth
  <2>2. pc' = "catch" => Len(code') > 1
    OBVIOUS
  <2>3. pc' \notin {"exec", "catch", "fatal"} => Len(code') = 1
    OBVIOUS
  <2>4. deferred' => /\ pc' \in {"exec", "catch", "error", "fatal"}
                     /\ level' = Len(code')
    BY DEF StackInv, Depth, FailedStart
  <2>5. QED
    BY <2>1, <2>2, <2>3, <2>4 DEF Depth
<1>3. OpenBlock'
  BY DEF StackInv, OpenBlock, bstate, FailedStart
<1>4. QED
  BY <1>1, <1>2, <1>3 DEF StackInv

\* An error raised by a statement, a command or user code.
LEMMA RefusedStep ==
    ASSUME TypeOK, StackInv, pc \in {"top", "stmt", "query", "exec", "done"}, Refused
    PROVE  StackInv'
<1>0. ControlType /\ PlaceStates /\ Depth /\ StackType /\ StackShape
  BY DEF TypeOK, StackInv
<1>1. /\ level' = level /\ blockState' = blockState /\ state' = state
      /\ code' = code /\ deferred' = deferred /\ lastSubid' = lastSubid
      /\ pc' = IF Len(code) > 1 THEN "catch" ELSE "error"
  BY DEF Refused, Raise, stack
<1>2. Len(code) = 1 \/ Len(code) > 1
  BY <1>0, CodeLength
<1>3. Len(code) > 1 => pc = "exec" /\ bstate = "SUBINPROGRESS"
  <2>1. SUFFICES ASSUME Len(code) > 1 PROVE pc = "exec" /\ bstate = "SUBINPROGRESS"
    OBVIOUS
  <2>2. level \in Nat /\ level > 1 /\ pc = "exec"
    <3>1. \A n \in Nat, m \in Nat : n > 1 /\ n <= m => m > 1 /\ n # 1
      OBVIOUS
    <3>2. Len(code) \in Nat /\ level \in Nat /\ Len(code) <= level
      BY <1>0, CodeLength, SubIdAssumption DEF Depth, StackType, Levels
    <3>3. level > 1 /\ Len(code) # 1
      BY <2>1, <3>1, <3>2
    <3>4. QED
      BY <1>0, <3>2, <3>3 DEF Depth
  <2>3. bstate \in SubBlockStates
    BY <1>0, <2>2, EntryStates DEF bstate
  <2>4. QED
    BY <1>0, <2>2, <2>3 DEF PlaceStates, InternalStates, SubBlockStates
<1>4. PlaceStates'
  BY <1>0, <1>1, <1>3 DEF PlaceStates, bstate
<1>5. QED
  BY <1>0, <1>1, <1>2, <1>4, QuietStep

\* A step that gives the only entry of the stack another state, outside any
\* exception block.
LEMMA TopStep ==
    ASSUME StackType, StackInv, level = 1, level' = 1, NEW b \in TopBlockStates,
           blockState' = [blockState EXCEPT ![1] = b], Len(code') = 1, lastSubid' >= 1,
           deferred' => pc' \in {"exec", "error", "fatal"}, pc' # "catch",
           pc' = "chain" => b = "DEFAULT", PlaceStates'
    PROVE  StackInv'
<1>1. StackShape' /\ Ancestry'
  BY SetTop DEF StackInv
<1>2. bstate' = b
  BY SubIdAssumption DEF bstate, StackType, Levels
<1>3. Depth'
  BY <1>2 DEF Depth
<1>4. OpenBlock'
  BY DEF OpenBlock
<1>5. QED
  BY <1>1, <1>3, <1>4 DEF StackInv

\* A transaction start that fails (StartTransactionFails).
LEMMA StartFails ==
    ASSUME TypeOK, StackInv, pc \in {"top", "stmt", "chain"}, bstate = "DEFAULT",
           StartTransactionFails
    PROVE  StackInv'
<1>0. StackType /\ PlaceStates /\ Depth /\ StackShape
  BY DEF TypeOK, StackInv
<1>1. level = 1 /\ Len(code) = 1 /\ ~deferred
  BY <1>0, EntryStates DEF Depth, SubBlockStates
<1>2. /\ level' = 1 /\ code' = code /\ deferred' = deferred /\ lastSubid' = 1
      /\ blockState' = blockState /\ pc' = "error"
  BY <1>1 DEF StartTransactionFails
<1>3. blockState' = [blockState EXCEPT ![1] = "DEFAULT"]
  BY <1>0, <1>1, <1>2 DEF bstate, StackType
<1>4. PlaceStates'
  BY <1>1, <1>2, blockState'[1] = "DEFAULT" DEF PlaceStates, bstate
<1>5. "DEFAULT" \in TopBlockStates /\ lastSubid' >= 1 /\ Len(code') = 1 /\ ~deferred'
  BY <1>1, <1>2 DEF TopBlockStates
<1>6. QED
  BY <1>0, <1>1, <1>2, <1>3, <1>4, <1>5, TopStep

\* The tables of marks.
LEMMA DropTables ==
    /\ DOMAIN DropSub = {"SUBINPROGRESS", "SUBABORT"}
    /\ \A b \in {"SUBINPROGRESS", "SUBABORT"} : DropSub[b] = DropMark(b)
    /\ DOMAIN DropTop = {"INPROGRESS", "ABORT", "STARTED", "IMPLICIT_INPROGRESS"}
    /\ DropTop["ABORT"] = "ABORT_END"
    /\ \A b \in {"INPROGRESS", "STARTED", "IMPLICIT_INPROGRESS"} : DropTop[b] = "ABORT_PENDING"
BY DEF DropSub, DropTop, DropMark
=============================================================================
