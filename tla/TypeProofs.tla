----------------------------- MODULE TypeProofs -----------------------------
(***************************************************************************)
(* The messages and transaction commands of module Backend keep the types  *)
(* of Xact's variables.                                                    *)
(***************************************************************************)
EXTENDS StackLemmas, FiniteSetTheorems, SequenceTheorems

(* The operators of Xact.                                                  *)

\* The values that entries and characteristics are made of.
LEMMA Values ==
    /\ DefaultChars \in Chars
    /\ NoPrior \in PriorType
    /\ NoFrame \in FrameType
    /\ \A o \in BOOLEAN : [NoFrame EXCEPT !.owner = o, !.subid = 1] \in FrameType
<1>1. DefaultChars \in Chars /\ NoPrior \in PriorType
  BY IsoAssumption DEF DefaultChars, Chars, Access, NoPrior, PriorType
<1>2. NoFrame \in FrameType
  BY <1>1, SubIdAssumption DEF NoFrame, FrameType, Access
<1>3. \A o \in BOOLEAN : [NoFrame EXCEPT !.owner = o, !.subid = 1] \in FrameType
  <2>1. 1 \in 0..MaxSubId
    BY SubIdAssumption
  <2>2. \A f \in FrameType, o \in BOOLEAN : [f EXCEPT !.owner = o, !.subid = 1] \in FrameType
    BY <2>1 DEF FrameType
  <2>3. QED
    BY <1>2, <2>2
<1>4. QED
  BY <1>1, <1>2, <1>3

\* Settings laid over characteristics are characteristics, over settings settings.
LEMMA OverlayType ==
    ASSUME NEW a \in PriorType
    PROVE  /\ \A c \in Chars : Overlay(a, c) \in Chars
           /\ \A c \in PriorType : Overlay(a, c) \in PriorType
BY DEF Overlay, PriorType, Chars, Access

\* The options of BEGIN and SET are settings.
LEMMA OptionType == \A o \in Options \cup {NoOption} : o \in PriorType
BY DEF Options, NoOption, NoPrior, PriorType, Access

\* StartTransaction, whether it succeeds or fails.
LEMMA StartType ==
    ASSUME StackType, ModeType,
           NEW b \in TopBlockStates, NEW c \in Chars,
           StartTransaction(b, c) \/ StartTransactionFails
    PROVE  /\ StackType' /\ frame' \in [Levels -> FrameType] /\ chars' \in Chars
           /\ flags' = {}
<1>0. 1 \in Levels
  BY SubIdAssumption DEF Levels
<1>1. CASE StartTransaction(b, c)
  <2>1. StackType'
    BY <1>0, <1>1 DEF StartTransaction, StackType, BlockStates, TransStates
  <2>2. frame' \in [Levels -> FrameType]
    BY <1>0, <1>1, Values DEF StartTransaction, ModeType
  <2>3. QED
    BY <1>1, <2>1, <2>2 DEF StartTransaction
<1>2. CASE StartTransactionFails
  <2>1. StackType'
    BY <1>0, <1>2 DEF StartTransactionFails, StackType, TransStates
  <2>2. frame' \in [Levels -> FrameType]
    BY <1>0, <1>2, Values DEF StartTransactionFails, ModeType
  <2>3. QED
    BY <1>2, <2>1, <2>2, Values DEF StartTransactionFails
<1>3. QED
  BY <1>1, <1>2

\* The end of the transaction.
LEMMA AbortType ==
    ASSUME ModeType, DataType, AbortTransaction \/ AtEOXact
    PROVE  chars' \in Chars /\ spi' \in Seq(0..MaxSubId)
<1>1. frame[1].prior \in PriorType
  BY SubIdAssumption DEF ModeType, FrameType, Levels
<1>2. CASE AtEOXact
  BY <1>1, <1>2, OverlayType DEF AtEOXact, ModeType
<1>3. CASE UNCHANGED <<chars, spi>>
  BY <1>3 DEF ModeType, DataType
<1>4. QED
  BY <1>2, <1>3 DEF AbortTransaction

\* CleanupTransaction.
LEMMA CleanupType ==
    ASSUME StackType, ModeType, CleanupTransaction, lastSubid' = lastSubid
    PROVE  StackType' /\ frame' \in [Levels -> FrameType] /\ snapshot' \in BOOLEAN
<1>1. 1 \in Levels
  BY SubIdAssumption DEF Levels
<1>2. StackType'
  BY <1>1 DEF CleanupTransaction, StackType, BlockStates, TopBlockStates, TransStates
<1>3. frame' \in [Levels -> FrameType]
  BY <1>1, Values DEF CleanupTransaction, ModeType
<1>4. snapshot' \in BOOLEAN
  BY DEF CleanupTransaction
<1>5. QED
  BY <1>2, <1>3, <1>4

\* PopTransaction.
LEMMA PopType ==
    ASSUME StackType, ModeType, NEW p \in FrameType, level >= 2, PopTransaction(p),
           lastSubid' = lastSubid
    PROVE  StackType' /\ frame' \in [Levels -> FrameType]
<1>1. level \in Levels /\ level - 1 \in Levels
  BY SubIdAssumption DEF StackType, Levels
<1>2. StackType'
  BY <1>1 DEF PopTransaction, StackType, BlockStates, TransStates
<1>3. frame' \in [Levels -> FrameType]
  BY <1>1, Values DEF PopTransaction, ModeType
<1>4. QED
  BY <1>2, <1>3

\* Popping connections leaves a sequence of connections.
LEMMA SpiType ==
    ASSUME DataType, NEW id, AtEOSubXact_SPI(id)
    PROVE  spi' \in Seq(0..MaxSubId)
<1> DEFINE kept == {i \in 1..Len(spi) : \E j \in i..Len(spi) : spi[j] # id}
<1>1. spi \in Seq(0..MaxSubId) /\ Len(spi) \in Nat
  BY DEF DataType
<1>2. IsFiniteSet(1..Len(spi)) /\ Cardinality(1..Len(spi)) = Len(spi)
  <2>1. \A n \in Nat : /\ IsFiniteSet(1..n)
                      /\ Cardinality(1..n) = IF 1 > n THEN 0 ELSE n - 1 + 1
    BY FS_Interval
  <2>2. QED
    BY <1>1, <2>1
<1>3. kept \subseteq 1..Len(spi)
  OBVIOUS
<1>4. Cardinality(kept) \in Nat /\ Cardinality(kept) <= Len(spi)
  <2> HIDE DEF kept
  <2>1. IsFiniteSet(kept) /\ Cardinality(kept) <= Cardinality(1..Len(spi))
    BY <1>2, <1>3, FS_Subset
  <2>2. Cardinality(kept) \in Nat
    BY <2>1, FS_CardinalityType
  <2>3. QED
    BY <1>2, <2>1, <2>2
<1>5. \A i \in 1..Cardinality(kept) : spi[i] \in 0..MaxSubId
  <2> HIDE DEF kept
  <2>1. \A n \in Nat, m \in Nat : n <= m => 1..n \subseteq 1..m
    OBVIOUS
  <2>2. 1..Cardinality(kept) \subseteq 1..Len(spi)
    BY <1>1, <1>4, <2>1
  <2>3. \A i \in 1..Len(spi) : spi[i] \in 0..MaxSubId
    BY <1>1, ElementOfSeq
  <2>4. QED
    BY <2>2, <2>3
<1>6. SubSeq(spi, 1, Cardinality(kept)) \in Seq(0..MaxSubId)
  <2> HIDE DEF kept
  <2> QED
    BY <1>4, <1>5, SubSeqProperties
<1>7. QED
  BY <1>6 DEF AtEOSubXact_SPI

\* CommitSubTransaction and AbortSubTransaction.
LEMMA SubEndType ==
    ASSUME StackType, ModeType, DataType, level >= 2
    PROVE  /\ CommitSubTransaction /\ lastSubid' = lastSubid =>
                 /\ StackType' /\ frame' \in [Levels -> FrameType] /\ chars' \in Chars
                 /\ spi' \in Seq(0..MaxSubId)
           /\ AbortSubTransaction \/ UNCHANGED <<chars, spi>> =>
                 chars' \in Chars /\ spi' \in Seq(0..MaxSubId)
           /\ CleanupSubTransaction /\ lastSubid' = lastSubid =>
                 StackType' /\ frame' \in [Levels -> FrameType]
<1>1. level \in Levels /\ level - 1 \in Levels
  BY SubIdAssumption DEF StackType, Levels
<1>2. frame[level] \in FrameType /\ frame[level - 1] \in FrameType /\ chars \in Chars
  BY <1>1 DEF ModeType
<1>3. /\ frame[level].prevAcc \in Access /\ frame[level].prior \in PriorType
      /\ frame[level - 1].prior \in PriorType
  BY <1>2 DEF FrameType
<1>4. \A c \in Chars, a \in Access : [c EXCEPT !.acc = a] \in Chars
  BY DEF Chars
<1>5. Overlay(frame[level].prior, chars) \in Chars
      /\ Overlay(frame[level - 1].prior, frame[level].prior) \in PriorType
  BY <1>2, <1>3, OverlayType
<1>6. ASSUME CommitSubTransaction, lastSubid' = lastSubid
      PROVE  /\ StackType' /\ frame' \in [Levels -> FrameType] /\ chars' \in Chars
             /\ spi' \in Seq(0..MaxSubId)
  <2> DEFINE p == [frame[level - 1] EXCEPT !.work = @ \cup frame[level].work,
                                           !.prior = Overlay(@, frame[level].prior)]
  <2>1. p \in FrameType
    BY <1>2, <1>5 DEF FrameType
  <2>2. PopTransaction(p) /\ chars' = [chars EXCEPT !.acc = frame[level].prevAcc]
        /\ AtEOSubXact_SPI(frame[level].subid)
    BY <1>6 DEF CommitSubTransaction
  <2>3. StackType' /\ frame' \in [Levels -> FrameType]
    <3> HIDE DEF p
    <3> QED
      BY <1>6, <2>1, <2>2, PopType
  <2>4. QED
    BY <1>2, <1>3, <1>4, <2>2, <2>3, SpiType
<1>7. ASSUME AbortSubTransaction \/ UNCHANGED <<chars, spi>>
      PROVE  chars' \in Chars /\ spi' \in Seq(0..MaxSubId)
  <2>1. CASE /\ chars' = [Overlay(frame[level].prior, chars) EXCEPT !.acc = frame[level].prevAcc]
             /\ AtEOSubXact_SPI(frame[level].subid)
    BY <1>3, <1>4, <1>5, <2>1, SpiType
  <2>2. CASE chars' = [chars EXCEPT !.acc = frame[level].prevAcc] /\ spi' = spi
    BY <1>2, <1>3, <1>4, <2>2 DEF DataType
  <2>3. CASE UNCHANGED <<chars, spi>>
    BY <1>2, <2>3 DEF DataType
  <2>4. QED
    BY <1>7, <2>1, <2>2, <2>3 DEF AbortSubTransaction
<1>8. ASSUME CleanupSubTransaction, lastSubid' = lastSubid
      PROVE  StackType' /\ frame' \in [Levels -> FrameType]
  BY <1>2, <1>8, PopType DEF CleanupSubTransaction
<1>9. QED
  BY <1>6, <1>7, <1>8

\* A new entry.
LEMMA NewFrameType ==
    ASSUME StackType, ModeType, NEW n \in Names \cup {"none"}, CanPush
    PROVE  /\ NewFrame(n) \in FrameType
           /\ \A o \in BOOLEAN : [NewFrame(n) EXCEPT !.owner = o] \in FrameType
           /\ \A a \in Access : [NewFrame(n) EXCEPT !.prevAcc = a] \in FrameType
           /\ lastSubid + 1 \in Levels
<1>1. lastSubid + 1 \in Levels /\ lastSubid + 1 \in 0..MaxSubId
  BY SubIdAssumption DEF StackType, Levels, CanPush
<1>2. chars.acc \in Access
  BY DEF ModeType, Chars
<1>3. \A f \in FrameType, a \in Access :
         [f EXCEPT !.name = n, !.subid = lastSubid + 1, !.prevAcc = a] \in FrameType
  BY <1>1 DEF FrameType
<1>4. NewFrame(n) \in FrameType
  BY <1>2, <1>3, Values DEF NewFrame
<1>5. \A f \in FrameType : /\ \A o \in BOOLEAN : [f EXCEPT !.owner = o] \in FrameType
                           /\ \A a \in Access : [f EXCEPT !.prevAcc = a] \in FrameType
  BY DEF FrameType
<1>6. QED
  BY <1>1, <1>4, <1>5

\* An option of BEGIN or SET is set.
LEMMA SetOptionType ==
    ASSUME StackType, ModeType, NEW o \in Options \cup {NoOption}, SetOption(o)
    PROVE  frame' \in [Levels -> FrameType] /\ chars' \in Chars
<1> DEFINE old == [iso |-> IF o.iso = "unset" THEN "unset" ELSE chars.iso,
                   acc |-> IF o.acc = "unset" THEN "unset" ELSE chars.acc]
<1>1. o \in PriorType /\ chars \in Chars
  BY OptionType DEF ModeType
<1>2. chars' \in Chars
  BY <1>1, OverlayType DEF SetOption
<1>3. old \in PriorType
  BY <1>1 DEF PriorType, Chars
<1>4. frame[level] \in FrameType /\ level \in Levels
  BY DEF StackType, ModeType
<1>5. Overlay(frame[level].prior, old) \in PriorType
  <2> HIDE DEF old
  <2> QED
    BY <1>3, <1>4, OverlayType DEF FrameType
<1>6. [frame[level] EXCEPT !.prior = Overlay(@, old)] \in FrameType
  <2> HIDE DEF old
  <2> QED
    BY <1>4, <1>5 DEF FrameType
<1>7. frame' = [frame EXCEPT ![level] = [frame[level] EXCEPT !.prior = Overlay(@, old)]]
  BY DEF SetOption
<1>8. QED
  <2> HIDE DEF old
  <2> QED
    BY <1>2, <1>4, <1>6, <1>7 DEF ModeType

-----------------------------------------------------------------------------
(* The variables of Xact, action by action.                                *)

XactType == ControlType /\ StackType /\ ModeType /\ DataType

\* The pieces of XactType for the next state, one variable at a time.
LEMMA XactTypeParts ==
    ASSUME pc' \in Places, code' \in Seq(Nat), code' # << >>, deferred' \in BOOLEAN,
           StackType', frame' \in [Levels -> FrameType], chain' \in BOOLEAN,
           chars' \in Chars, saved' \in Chars, snapshot' \in BOOLEAN,
           flags' \subseteq {"PIPELINING", "NEEDIMMEDIATECOMMIT"},
           spi' \in Seq(0..MaxSubId), db' \subseteq Rows, prepared' \subseteq SUBSET Rows
    PROVE  XactType'
<1>1. ControlType'
  BY Zenon DEF ControlType
<1>2. ModeType'
  BY Zenon DEF ModeType
<1>3. DataType'
  BY DEF DataType
<1>4. QED
  BY <1>1, <1>2, <1>3 DEF XactType

\* The same for the present state.
LEMMA TypeParts ==
    ASSUME TypeOK
    PROVE  /\ XactType /\ ControlType /\ StackType /\ ModeType /\ DataType /\ ProtocolType
           /\ pc \in Places /\ code \in Seq(Nat) /\ code # << >> /\ deferred \in BOOLEAN
           /\ level \in Levels /\ lastSubid \in Levels /\ blockState \in [Levels -> BlockStates]
           /\ state \in [Levels -> TransStates]
           /\ frame \in [Levels -> FrameType] /\ chain \in BOOLEAN
           /\ chars \in Chars /\ saved \in Chars /\ snapshot \in BOOLEAN
           /\ flags \subseteq {"PIPELINING", "NEEDIMMEDIATECOMMIT"}
           /\ spi \in Seq(0..MaxSubId) /\ db \subseteq Rows /\ prepared \subseteq SUBSET Rows
BY Zenon DEF TypeOK, XactType, ControlType, StackType, ModeType, DataType

\* The stack itself is left alone.
LEMMA SameLevels ==
    ASSUME TypeOK, level' = level, blockState' = blockState, state' = state,
           lastSubid' = lastSubid
    PROVE  StackType'
BY DEF TypeOK, StackType

\* Only control moves.
LEMMA SameXact ==
    ASSUME TypeOK, pc' \in Places, UNCHANGED xactRest
    PROVE  XactType'
<1>1. /\ code' = code /\ deferred' = deferred /\ level' = level /\ blockState' = blockState
      /\ state' = state /\ frame' = frame /\ chain' = chain /\ chars' = chars /\ saved' = saved
      /\ snapshot' = snapshot /\ flags' = flags /\ lastSubid' = lastSubid /\ spi' = spi
      /\ db' = db /\ prepared' = prepared
  BY DEF xactRest, modes, stack, durable
<1>2. StackType'
  BY <1>1, SameLevels
<1>3. QED
  BY <1>1, <1>2, TypeParts, XactTypeParts

\* An error, or a death.
LEMMA RefusedType == ASSUME TypeOK, Refused \/ Died PROVE XactType'
<1>1. UNCHANGED xactRest
  BY DEF Refused, Died, xactRest
<1>2. pc' \in Places
  BY DEF Refused, Died, Raise, Places
<1>3. QED
  BY <1>1, <1>2, SameXact

\* start_xact_command.
LEMMA StartXactType ==
    ASSUME TypeOK, NEW b \in {"STARTED", "IMPLICIT_INPROGRESS"},
           NEW next \in {"parse", "query"}, start_xact_command(b, next)
    PROVE  XactType'
<1>0. pc' \in Places /\ b \in TopBlockStates
  BY DEF start_xact_command, StartTransactionFails, Places, TopBlockStates
<1>1. CASE xactStarted
  <2>1. /\ code' = code /\ deferred' = deferred /\ level' = level
        /\ state' = state /\ frame' = frame /\ chain' = chain /\ chars' = chars /\ saved' = saved
        /\ snapshot' = snapshot /\ flags' = flags /\ lastSubid' = lastSubid /\ spi' = spi
        /\ db' = db /\ prepared' = prepared
    BY <1>1 DEF start_xact_command, modes, durable
  <2>2. blockState' \in [Levels -> BlockStates]
    <3>1. blockState' = blockState \/ SetBlockState("IMPLICIT_INPROGRESS")
      BY <1>1 DEF start_xact_command, BeginImplicitTransactionBlock
    <3>2. QED
      BY <3>1, TypeParts DEF SetBlockState, BlockStates, TopBlockStates
  <2>3. StackType'
    BY <2>1, <2>2, TypeParts DEF StackType
  <2>4. QED
    BY <1>0, <2>1, <2>3, TypeParts, XactTypeParts
<1>2. CASE UNCHANGED xactRest
  BY <1>0, <1>2, SameXact
<1>3. CASE /\ StartTransaction(b, DefaultChars) \/ StartTransactionFails
           /\ UNCHANGED <<code, deferred, chain, saved, snapshot, spi, durable>>
  <2>1. /\ StackType' /\ frame' \in [Levels -> FrameType] /\ chars' \in Chars
        /\ flags' = {}
    BY <1>0, <1>3, Values, StartType, TypeParts
  <2>2. /\ code' = code /\ deferred' = deferred /\ chain' = chain /\ saved' = saved
        /\ snapshot' = snapshot /\ spi' = spi /\ db' = db /\ prepared' = prepared
    BY <1>3 DEF durable
  <2>3. QED
    BY <1>0, <2>1, <2>2, TypeParts, XactTypeParts
<1>4. QED
  BY <1>1, <1>2, <1>3 DEF start_xact_command, StartTransactionCommand, StartTransactionFails,
                          xactRest

\* The messages and steps of the loop that only move control.
LEMMA ControlOnly ==
    ASSUME TypeOK,
           \/ ReadyForQuery \/ Skipped \/ CloseOrFlush \/ Sync \/ pg_parse_query \/ Fail
           \/ EndStatement \/ Finished \/ Recovered
    PROVE  XactType'
<1>1. CASE ReadyForQuery \/ Skipped
  <2>1. pc' = pc /\ UNCHANGED xactRest
    BY <1>1 DEF ReadyForQuery, Skipped, xactVars, control, xactRest
  <2>2. QED
    BY <2>1, SameXact, TypeParts
<1>2. CASE CloseOrFlush \/ Sync \/ pg_parse_query \/ EndStatement \/ Finished \/ Recovered
  <2>1. pc' \in Places
    BY <1>2 DEF CloseOrFlush, Sync, pg_parse_query, EndStatement, Finished, Recovered,
                finish_xact_command, Places
  <2>2. UNCHANGED xactRest
    BY <1>2 DEF CloseOrFlush, Sync, pg_parse_query, EndStatement, Finished, Recovered
  <2>3. QED
    BY <2>1, <2>2, SameXact
<1>3. CASE Fail
  BY <1>3, RefusedType DEF Fail
<1>4. QED
  BY <1>1, <1>2, <1>3

\* Messages that start a transaction command.
LEMMA StartingType ==
    ASSUME TypeOK,
           \/ exec_simple_query \/ exec_execute_message \/ exec_parse_message
           \/ HandleFunctionRequest \/ NextStatement
    PROVE  XactType'
<1>1. CASE \E b \in {"STARTED", "IMPLICIT_INPROGRESS"}, next \in {"parse", "query"} :
               start_xact_command(b, next)
  BY <1>1, StartXactType
<1>2. CASE pc' \in {"error", "top"} /\ UNCHANGED xactRest
  BY <1>2, SameXact DEF Places
<1>3. CASE NextStatement
  BY <1>1, <1>3 DEF NextStatement
<1>4. CASE exec_execute_message
  BY <1>1, <1>2, <1>4 DEF exec_execute_message
<1>5. CASE exec_simple_query \/ exec_parse_message \/ HandleFunctionRequest
  BY <1>1, <1>5 DEF exec_simple_query, exec_parse_message, HandleFunctionRequest
<1>6. QED
  BY <1>3, <1>4, <1>5

\* A declaration of a functional dependency.
LEMMA DeclareType == ASSUME TypeOK, add_trigger PROVE XactType'
<1>0. "STARTED" \in TopBlockStates
  BY DEF TopBlockStates
<1>1. CASE Refused
  BY <1>1, RefusedType
<1>2. CASE StartTransactionFails
  <2>1. /\ StackType' /\ frame' \in [Levels -> FrameType] /\ chars' \in Chars
        /\ flags' = {}
    BY <1>0, <1>2, Values, StartType, TypeParts
  <2>2. /\ code' = code /\ deferred' = deferred /\ chain' = chain /\ saved' = saved
        /\ snapshot' = snapshot /\ spi' = spi /\ db' = db /\ prepared' = prepared
        /\ pc' \in Places
    BY <1>2 DEF durable, StartTransactionFails, Places
  <2>3. QED
    BY <2>1, <2>2, TypeParts, XactTypeParts
<1>3. CASE /\ pc' = "error"
           /\ IF bstate = "DEFAULT"
              THEN StartTransaction("STARTED", DefaultChars)
              ELSE UNCHANGED <<stack, chars, flags, lastSubid>>
           /\ spi' = Append(spi, IF bstate = "DEFAULT" THEN 1 ELSE frame[level].subid)
           /\ snapshot' = TRUE
           /\ UNCHANGED <<code, deferred, chain, saved, durable>>
  <2>1. /\ StackType' /\ frame' \in [Levels -> FrameType] /\ chars' \in Chars
        /\ flags' \subseteq {"PIPELINING", "NEEDIMMEDIATECOMMIT"}
    <3>1. CASE bstate = "DEFAULT"
      <4>1. flags' = {}
        BY <1>3, <3>1 DEF StartTransaction
      <4>2. QED
        BY <1>0, <1>3, <3>1, <4>1, Values, StartType, TypeParts
    <3>2. CASE bstate # "DEFAULT"
      <4>1. /\ level' = level /\ blockState' = blockState /\ state' = state /\ frame' = frame
            /\ lastSubid' = lastSubid /\ chars' = chars /\ flags' = flags
        BY <1>3, <3>2 DEF stack
      <4>2. QED
        BY <4>1, SameLevels, TypeParts
    <3>3. QED
      BY <3>1, <3>2
  <2>2. spi' \in Seq(0..MaxSubId)
    <3>1. frame[level].subid \in 0..MaxSubId /\ 1 \in 0..MaxSubId
      BY TypeParts, SubIdAssumption DEF FrameType
    <3>2. QED
      BY <1>3, <3>1, TypeParts
  <2>3. /\ code' = code /\ deferred' = deferred /\ chain' = chain /\ saved' = saved
        /\ db' = db /\ prepared' = prepared /\ pc' \in Places
    BY <1>3 DEF durable, Places
  <2>4. snapshot' \in BOOLEAN
    BY <1>3, Zenon
  <2>5. QED
    BY <2>1, <2>2, <2>3, <2>4, TypeParts, XactTypeParts
<1>4. QED
  BY <1>1, <1>2, <1>3 DEF add_trigger

\* The process ends.
LEMMA ResetType == ASSUME TypeOK, AbortOutOfAnyTransaction PROVE XactType'
<1>1. StackType'
  BY SubIdAssumption, TypeParts
  DEF AbortOutOfAnyTransaction, StackType, BlockStates, TopBlockStates, TransStates, Levels
<1>2. frame' \in [Levels -> FrameType]
  BY Values DEF AbortOutOfAnyTransaction
<1>3. /\ chain' = chain /\ chars' = chars /\ saved' = saved /\ flags' = flags
      /\ db' = db /\ prepared' = prepared /\ pc' \in Places
  BY DEF AbortOutOfAnyTransaction, durable, Places
<1>4. code' \in Seq(Nat) /\ code' # << >> /\ spi' \in Seq(0..MaxSubId)
  BY DEF AbortOutOfAnyTransaction
<1>5. deferred' \in BOOLEAN /\ snapshot' \in BOOLEAN
  BY Zenon DEF AbortOutOfAnyTransaction
<1>6. QED
  BY <1>1, <1>2, <1>3, <1>4, <1>5, TypeParts, XactTypeParts

\* Steps that leave the stack alone and set a snapshot or a flag at most.
LEMMA LeafType ==
    ASSUME TypeOK,
           \/ Analyze \/ Plain \/ Suspend \/ CommandCounterIncrement \/ ImmediateStmt
           \/ FinishPreparedCmd
    PROVE  XactType'
<1>1. CASE Refused
  BY <1>1, RefusedType
<1>2. CASE ~Refused
  <2>1. /\ code' = code /\ deferred' = deferred /\ chain' = chain /\ chars' = chars
        /\ saved' = saved /\ level' = level /\ blockState' = blockState /\ state' = state
        /\ frame' = frame /\ lastSubid' = lastSubid /\ spi' = spi
    BY <1>2 DEF Analyze, Plain, Suspend, CommandCounterIncrement, ImmediateStmt,
                FinishPreparedCmd, stack
  <2>2. pc' \in Places
    BY <1>2 DEF Analyze, Plain, Suspend, CommandCounterIncrement, ImmediateStmt,
                FinishPreparedCmd, Places
  <2>3. flags' \subseteq {"PIPELINING", "NEEDIMMEDIATECOMMIT"}
    <3>1. flags' \in {flags, flags \cup {"PIPELINING"}, flags \cup {"NEEDIMMEDIATECOMMIT"}}
      BY <1>2 DEF Analyze, Plain, Suspend, CommandCounterIncrement, ImmediateStmt,
                  FinishPreparedCmd
    <3>2. QED
      BY <3>1, TypeParts
  <2>4. db' \subseteq Rows /\ prepared' \subseteq SUBSET Rows
    <3>1. /\ db' \in {db, db \cup UNION prepared} /\ prepared' \in {prepared, {}}
      BY <1>2 DEF Analyze, Plain, Suspend, CommandCounterIncrement, ImmediateStmt,
                  FinishPreparedCmd, durable
    <3>2. QED
      BY <3>1, TypeParts
  <2>5. snapshot' \in BOOLEAN
    <3>0. snapshot \in BOOLEAN /\ (snapshot \/ ~IsAbortedTransactionBlockState) \in BOOLEAN
      BY TypeParts, Zenon
    <3>1. CASE Analyze
      BY <3>0, <3>1 DEF Analyze
    <3>2. CASE Plain
      BY <3>0, <3>2 DEF Plain
    <3>3. CASE snapshot' = snapshot
      BY <3>0, <3>3
    <3>4. QED
      BY <1>2, <3>1, <3>2, <3>3 DEF Suspend, CommandCounterIncrement, ImmediateStmt,
                              FinishPreparedCmd
  <2>6. StackType'
    BY <2>1, SameLevels
  <2>7. QED
    BY <2>1, <2>2, <2>3, <2>4, <2>5, <2>6, TypeParts, XactTypeParts
<1>3. QED
  BY <1>1, <1>2

\* The stack of block states alone is changed.
LEMMA MarkType ==
    ASSUME TypeOK, pc' \in Places, blockState' \in [Levels -> BlockStates], chain' \in BOOLEAN,
           UNCHANGED Marked
    PROVE  XactType'
<1>1. /\ code' = code /\ deferred' = deferred /\ level' = level
      /\ state' = state /\ frame' = frame /\ chars' = chars /\ saved' = saved
      /\ snapshot' = snapshot /\ flags' = flags /\ lastSubid' = lastSubid /\ spi' = spi
      /\ db' = db /\ prepared' = prepared
  BY DEF Marked, durable
<1>2. StackType'
  BY <1>1, TypeParts DEF StackType
<1>3. QED
  BY <1>1, <1>2, TypeParts, XactTypeParts

\* BEGIN and SET TRANSACTION.
LEMMA OptionStep == ASSUME TypeOK, SetCmd \/ BeginCmd PROVE XactType'
<1>0. \A f, S, o : o \in Usable(f, S) => o \in S
  BY DEF Usable
<1>1. PICK o \in Options \cup {NoOption} : SetTransaction(o) \/ BeginTransactionBlock(o)
  BY <1>0 DEF SetCmd, BeginCmd
<1>2. CASE Refused
  BY <1>2, RefusedType
<1>3. CASE ~Refused
  <2>1. /\ code' = code /\ deferred' = deferred /\ level' = level /\ state' = state
        /\ chain' = chain /\ saved' = saved /\ snapshot' = snapshot /\ flags' = flags
        /\ lastSubid' = lastSubid /\ spi' = spi /\ db' = db /\ prepared' = prepared
    BY <1>1, <1>3 DEF SetTransaction, BeginTransactionBlock, durable
  <2>2. pc' \in Places
    BY <1>1, <1>3 DEF SetTransaction, BeginTransactionBlock, Places, Raise
  <2>3. frame' \in [Levels -> FrameType] /\ chars' \in Chars
    <3>1. SetOption(o) \/ UNCHANGED <<chars, frame>>
      BY <1>1, <1>3 DEF SetTransaction, BeginTransactionBlock
    <3>2. QED
      BY <3>1, SetOptionType, TypeParts
  <2>4. StackType'
    <3>1. blockState' = blockState \/ SetBlockState(bstate) \/ SetBlockState("BEGIN")
      BY <1>1, <1>3 DEF SetTransaction, BeginTransactionBlock
    <3>2. bstate \in BlockStates /\ "BEGIN" \in BlockStates
      BY TypeParts DEF bstate, BlockStates, TopBlockStates
    <3>3. blockState' \in [Levels -> BlockStates]
      BY <3>1, <3>2, TypeParts DEF SetBlockState
    <3>4. QED
      BY <2>1, <3>3, TypeParts DEF StackType
  <2>5. QED
    BY <2>1, <2>2, <2>3, <2>4, TypeParts, XactTypeParts
<1>4. QED
  BY <1>2, <1>3

\* The chain flag of a command.
LEMMA ChainedType == \A ch \in Chained : ch \in BOOLEAN
BY DEF Chained, Usable

\* A walk up the stack.
LEMMA WalkType ==
    ASSUME TypeOK, NEW sub, NEW top, NEW tops, NEW ch \in BOOLEAN,
           \A b \in DOMAIN sub : sub[b] \in SubBlockStates,
           \A b \in tops : top[b] \in TopBlockStates,
           Walk(sub, top, tops, ch)
    PROVE  XactType'
<1>1. CASE Died
  BY <1>1, RefusedType
<1>2. CASE ~Died
  <2>1. /\ \A i \in 2..level : blockState[i] \in DOMAIN sub
        /\ blockState[1] \in tops
        /\ MarkAll(sub, top) /\ chain' = ch /\ pc' = "done" /\ UNCHANGED Marked
    BY <1>2 DEF Walk
  <2>2. \A i \in Levels : i # 1 /\ i <= level => i \in 2..level
    BY TypeParts DEF Levels
  <2>3. blockState' \in [Levels -> BlockStates]
    BY <2>1, <2>2, TypeParts DEF MarkAll, BlockStates
  <2>4. pc' \in Places /\ chain' \in BOOLEAN
    BY <2>1 DEF Places
  <2>5. QED
    BY <2>1, <2>3, <2>4, MarkType
<1>3. QED
  BY <1>1, <1>2

\* COMMIT, PREPARE TRANSACTION and ROLLBACK.
LEMMA ExitType == ASSUME TypeOK, CommitCmd \/ PrepareCmd \/ RollbackCmd PROVE XactType'
<1>0. FALSE \in BOOLEAN
  OBVIOUS
<1>1. PICK ch \in BOOLEAN, end \in {"END", "PREPARE"} :
          EndTransactionBlock(end, ch) \/ UserAbortTransactionBlock(ch)
  BY <1>0, ChainedType DEF CommitCmd, PrepareCmd, RollbackCmd
<1>2. CASE Refused
  BY <1>2, RefusedType
<1>3. /\ \A b \in DOMAIN DropSub : DropSub[b] \in SubBlockStates
      /\ \A b \in DOMAIN DropTop : DropTop[b] \in TopBlockStates
      /\ {"INPROGRESS", "ABORT"} \subseteq DOMAIN DropTop
  BY DropTables DEF SubBlockStates, TopBlockStates, DropMark
<1>4. \A tops : tops \subseteq DOMAIN DropTop /\ Walk(DropSub, DropTop, tops, ch) => XactType'
  BY <1>3, WalkType
<1>5. CASE Walk(DropSub, DropTop, {"INPROGRESS", "ABORT"}, ch)
  BY <1>3, <1>4, <1>5
<1>6. CASE Walk(DropSub, DropTop,
                IF level = 1 THEN DOMAIN DropTop ELSE {"INPROGRESS", "ABORT"}, ch)
  BY <1>3, <1>4, <1>6
<1>7. CASE Walk([SUBINPROGRESS |-> "SUBCOMMIT"], [INPROGRESS |-> end], {"INPROGRESS"}, ch)
  <2>1. /\ \A b \in DOMAIN [SUBINPROGRESS |-> "SUBCOMMIT"] :
               [SUBINPROGRESS |-> "SUBCOMMIT"][b] \in SubBlockStates
        /\ \A b \in {"INPROGRESS"} : [INPROGRESS |-> end][b] \in TopBlockStates
    BY DEF SubBlockStates, TopBlockStates
  <2>2. QED
    BY <1>7, <2>1, WalkType
<1>8. CASE /\ SetBlockState(IF bstate = "STARTED" THEN bstate ELSE end)
           /\ chain' = ch /\ pc' = "done" /\ UNCHANGED Marked
  <2>1. bstate \in BlockStates /\ end \in BlockStates
    BY TypeParts DEF bstate, BlockStates, TopBlockStates
  <2>2. blockState' \in [Levels -> BlockStates]
    BY <1>8, <2>1, TypeParts DEF SetBlockState
  <2>3. pc' \in Places /\ chain' \in BOOLEAN
    BY <1>8 DEF Places
  <2>4. QED
    BY <1>8, <2>2, <2>3, MarkType
<1>9. QED
  BY <1>1, <1>2, <1>5, <1>6, <1>7, <1>8 DEF EndTransactionBlock, UserAbortTransactionBlock

\* RELEASE and ROLLBACK TO.
LEMMA SavepointMarkType == ASSUME TypeOK, ReleaseCmd \/ RollbackToCmd PROVE XactType'
<1>1. PICK n \in Names : ReleaseSavepoint(n) \/ RollbackToSavepoint(n)
  BY DEF ReleaseCmd, RollbackToCmd
<1>2. CASE Refused \/ Died
  BY <1>2, RefusedType
<1>3. CASE ~(Refused \/ Died)
  <2>1. pc' = "done" /\ chain' = chain /\ UNCHANGED Marked
    BY <1>1, <1>3 DEF ReleaseSavepoint, RollbackToSavepoint
  <2>2. blockState' \in [Levels -> BlockStates]
    <3>1. CASE ReleaseSavepoint(n)
      BY <1>3, <3>1, TypeParts DEF ReleaseSavepoint, BlockStates, SubBlockStates
    <3>2. CASE RollbackToSavepoint(n)
      <4>1. /\ \A i \in Target(n)..level : blockState[i] \in DOMAIN DropSub
            /\ blockState' = [i \in Levels |->
                    IF i \notin Target(n)..level THEN blockState[i]
                    ELSE IF i > Target(n) THEN DropSub[blockState[i]]
                    ELSE IF blockState[i] = "SUBABORT" THEN "SUBABORT_RESTART"
                    ELSE "SUBRESTART"]
        BY <1>3, <3>2 DEF RollbackToSavepoint
      <4>2. \A b \in DOMAIN DropSub : DropSub[b] \in BlockStates
        BY DropTables DEF BlockStates, SubBlockStates, DropMark
      <4>3. "SUBABORT_RESTART" \in BlockStates /\ "SUBRESTART" \in BlockStates
        BY DEF BlockStates, SubBlockStates
      <4>4. QED
        BY <4>1, <4>2, <4>3, TypeParts
    <3>3. QED
      BY <1>1, <3>1, <3>2
  <2>3. pc' \in Places /\ chain' \in BOOLEAN
    BY <2>1, TypeParts DEF Places
  <2>4. QED
    BY <2>1, <2>2, <2>3, MarkType
<1>4. QED
  BY <1>2, <1>3

\* A level that is pushed has an entry.
LEMMA NextLevel == ASSUME TypeOK, StackInv, CanPush PROVE level + 1 \in Levels
BY SubIdAssumption DEF TypeOK, StackType, StackInv, Depth, CanPush, Levels

\* SAVEPOINT.
LEMMA SavepointType == ASSUME TypeOK, StackInv, SavepointCmd PROVE XactType'
<1>1. PICK n \in Names : DefineSavepoint(n)
  BY DEF SavepointCmd
<1>2. CASE Refused
  BY <1>2, RefusedType
<1>3. CASE ~Refused
  <2>1. /\ PushTransaction(n) /\ pc' = "done"
        /\ UNCHANGED <<code, deferred, modes, durable, spi>>
    BY <1>1, <1>3 DEF DefineSavepoint
  <2>2. CanPush
    BY <2>1 DEF PushTransaction
  <2>3. level + 1 \in Levels /\ lastSubid + 1 \in Levels /\ NewFrame(n) \in FrameType
    BY <2>2, NextLevel, NewFrameType, TypeParts
  <2>4. StackType'
    BY <2>1, <2>3, TypeParts DEF PushTransaction, StackType, BlockStates, SubBlockStates
  <2>5. frame' \in [Levels -> FrameType]
    BY <2>1, <2>3, TypeParts DEF PushTransaction
  <2>6. /\ code' = code /\ deferred' = deferred /\ chain' = chain /\ chars' = chars
        /\ saved' = saved /\ snapshot' = snapshot /\ flags' = flags /\ spi' = spi
        /\ db' = db /\ prepared' = prepared /\ pc' \in Places
    BY <2>1 DEF modes, durable, Places
  <2>7. QED
    BY <2>4, <2>5, <2>6, TypeParts, XactTypeParts
<1>4. QED
  BY <1>2, <1>3

\* The end of a statement.
LEMMA FinishType == ASSUME TypeOK, FinishStatement PROVE XactType'
<1>1. blockState' = blockState \/ SetBlockState("STARTED")
  BY DEF FinishStatement, EndImplicitTransactionBlock
<1>2. blockState' \in [Levels -> BlockStates]
  BY <1>1, TypeParts DEF SetBlockState, BlockStates, TopBlockStates
<1>3. pc' \in Places
  BY DEF FinishStatement, finish_xact_command, Places
<1>4. chain' = chain /\ UNCHANGED Marked
  BY DEF FinishStatement, Marked, modes
<1>5. QED
  BY <1>2, <1>3, <1>4, MarkType, TypeParts
=============================================================================
