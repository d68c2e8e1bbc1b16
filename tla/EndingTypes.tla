---------------------------- MODULE EndingTypes -----------------------------
(***************************************************************************)
(* User code, CommitTransactionCommand and AbortCurrentTransaction keep    *)
(* the types of Xact's variables.                                          *)
(***************************************************************************)
EXTENDS TypeProofs

\* The frames of user code.
LEMMA CodeType ==
    ASSUME TypeOK, NEW k, Len(code) = k
    PROVE  /\ k \in Nat /\ k >= 1 /\ code[k] \in Nat
           /\ \A c \in Nat : [code EXCEPT ![k] = c] \in Seq(Nat) /\ [code EXCEPT ![k] = c] # << >>
           /\ Append(code, 0) \in Seq(Nat) /\ Append(code, 0) # << >>
           /\ k > 1 => SubSeq(code, 1, k - 1) \in Seq(Nat) /\ SubSeq(code, 1, k - 1) # << >>
<1>1. code \in Seq(Nat) /\ code # << >>
  BY TypeParts
<1>2. k \in Nat /\ k >= 1 /\ code[k] \in Nat
  <2>1. Len(code) \in Nat /\ Len(code) # 0
    BY <1>1, EmptySeq
  <2>2. QED
    BY <1>1, <2>1, ElementOfSeq
<1>3. ASSUME NEW c \in Nat
      PROVE  [code EXCEPT ![k] = c] \in Seq(Nat) /\ [code EXCEPT ![k] = c] # << >>
  <2>1. k \in 1..Len(code)
    BY <1>2
  <2>2. [code EXCEPT ![k] = c] \in Seq(Nat) /\ Len([code EXCEPT ![k] = c]) = Len(code)
    BY <1>1, <2>1, ExceptSeq
  <2>3. QED
    BY <1>2, <2>2, EmptySeq
<1>4. Append(code, 0) \in Seq(Nat) /\ Append(code, 0) # << >>
  BY <1>1, AppendProperties
<1>5. k > 1 => SubSeq(code, 1, k - 1) \in Seq(Nat) /\ SubSeq(code, 1, k - 1) # << >>
  <2>1. SUFFICES ASSUME k > 1
                 PROVE  SubSeq(code, 1, k - 1) \in Seq(Nat) /\ SubSeq(code, 1, k - 1) # << >>
    OBVIOUS
  <2>2. \A i \in 1..(k - 1) : code[i] \in Nat
    BY <1>1, <1>2, ElementOfSeq
  <2>3. SubSeq(code, 1, k - 1) \in Seq(Nat) /\ Len(SubSeq(code, 1, k - 1)) = k - 1
    BY <1>1, <1>2, <2>1, <2>2, SubSeqProperties
  <2>4. QED
    BY <1>2, <2>1, <2>3, EmptySeq
<1>6. QED
  BY <1>2, <1>3, <1>4, <1>5

\* A subtransaction entry has a parent.
LEMMA SubLevel ==
    ASSUME TypeOK, StackInv, bstate \in SubBlockStates
    PROVE  level >= 2 /\ StackType /\ ModeType /\ DataType
<1>1. blockState[1] \in TopBlockStates /\ level \in Levels
  BY DEF TypeOK, StackType, StackInv, StackShape
<1>2. level # 1
  BY <1>1 DEF bstate, SubBlockStates, TopBlockStates
<1>3. QED
  BY <1>1, <1>2, SubIdAssumption DEF Levels, TypeOK

\* Writing, and SPI connections.
LEMMA CallType ==
    ASSUME TypeOK, (\E r \in Rows : Write(r)) \/ SPI_connect \/ SPI_finish
    PROVE  XactType'
<1>0. frame[level] \in FrameType /\ frame[level].subid \in 0..MaxSubId
  BY TypeParts DEF FrameType
<1>1. ASSUME NEW r \in Rows, Write(r) PROVE XactType'
  <2>1. CASE Refused
    BY <2>1, RefusedType
  <2>2. CASE ~Refused
    <3>1. /\ pc' = pc /\ code' = code /\ deferred' = deferred /\ level' = level
          /\ blockState' = blockState
          /\ state' = state /\ chain' = chain /\ chars' = chars /\ saved' = saved
          /\ flags' = flags /\ lastSubid' = lastSubid /\ spi' = spi
          /\ db' = db /\ prepared' = prepared
      BY <1>1, <2>2 DEF Write, control, durable
    <3>2. frame' = [frame EXCEPT ![level].work = @ \cup {r}]
      BY <1>1, <2>2 DEF Write
    <3>3. [frame[level] EXCEPT !.work = @ \cup {r}] \in FrameType
      BY <1>0 DEF FrameType
    <3>4. frame' \in [Levels -> FrameType]
      BY <3>2, <3>3, TypeParts
    <3>5. snapshot' \in BOOLEAN
      BY <1>1, <2>2, Zenon DEF Write
    <3>6. StackType'
      BY <3>1, SameLevels
    <3>7. QED
      BY <3>1, <3>4, <3>5, <3>6, TypeParts, XactTypeParts
  <2>3. QED
    BY <2>1, <2>2
<1>2. CASE SPI_connect \/ SPI_finish
  <2>1. /\ pc' = pc /\ deferred' = deferred /\ level' = level /\ blockState' = blockState
        /\ state' = state /\ frame' = frame /\ chain' = chain /\ chars' = chars /\ saved' = saved
        /\ snapshot' = snapshot /\ flags' = flags /\ lastSubid' = lastSubid
        /\ db' = db /\ prepared' = prepared
    BY <1>2 DEF SPI_connect, SPI_finish, modes, stack, durable
  <2>2. code' \in Seq(Nat) /\ code' # << >>
    <3> DEFINE k == Len(code)
    <3>1. k \in Nat /\ code[k] \in Nat
      BY CodeType
    <3>2. PICK c \in Nat : code' = [code EXCEPT ![k] = c]
      <4>1. CASE SPI_connect
        <5>1. code' = [code EXCEPT ![k] = code[k] + 1]
          BY <4>1 DEF SPI_connect, inner
        <5>2. code[k] + 1 \in Nat
          BY <3>1
        <5>3. QED
          BY <5>1, <5>2
      <4>2. CASE SPI_finish
        <5>1. code[k] > 0 /\ code' = [code EXCEPT ![k] = code[k] - 1]
          BY <4>2 DEF SPI_finish, inner
        <5>2. code[k] - 1 \in Nat
          BY <3>1, <5>1
        <5>3. QED
          BY <5>1, <5>2
      <4>3. QED
        BY <1>2, <4>1, <4>2
    <3>3. QED
      BY <3>2, CodeType
  <2>3. spi' \in Seq(0..MaxSubId)
    <3>1. CASE SPI_connect
      BY <1>0, <3>1, TypeParts, AppendProperties DEF SPI_connect
    <3>2. CASE SPI_finish
      <4>1. spi \in Seq(0..MaxSubId) /\ Len(spi) \in Nat
        BY TypeParts
      <4>2. \A i \in 1..(Len(spi) - 1) : spi[i] \in 0..MaxSubId
        <5>1. \A n \in Nat : \A i \in 1..(n - 1) : i \in 1..n
          OBVIOUS
        <5>2. \A i \in 1..Len(spi) : spi[i] \in 0..MaxSubId
          BY <4>1, ElementOfSeq
        <5>3. QED
          BY <4>1, <5>1, <5>2
      <4>3. Len(spi) - 1 \in Int
        BY <4>1
      <4>4. SubSeq(spi, 1, Len(spi) - 1) \in Seq(0..MaxSubId)
        BY <4>2, <4>3, SubSeqProperties
      <4>5. QED
        BY <3>2, <4>4 DEF SPI_finish
    <3>3. QED
      BY <1>2, <3>1, <3>2
  <2>4. StackType'
    BY <2>1, SameLevels
  <2>5. QED
    BY <2>1, <2>2, <2>3, <2>4, TypeParts, XactTypeParts
<1>3. QED
  BY <1>1, <1>2

\* An exception block begins.
LEMMA BeginInternalType == ASSUME TypeOK, StackInv, pc = "exec", BeginInternalSubTransaction
                           PROVE  XactType'
<1>1. CASE Refused \/ Died
  BY <1>1, RefusedType
<1>2. CASE ~(Refused \/ Died)
  <2>1. /\ CanPush /\ level' = level + 1 /\ lastSubid' = lastSubid + 1
        /\ UNCHANGED <<deferred, modes, durable, spi>>
    BY <1>2 DEF BeginInternalSubTransaction
  <2>2. /\ level + 1 \in Levels /\ lastSubid + 1 \in Levels
        /\ \A o \in BOOLEAN : [NewFrame("none") EXCEPT !.owner = o] \in FrameType
    BY <2>1, NextLevel, NewFrameType, TypeParts
  <2>3. PICK o \in BOOLEAN, st \in TransStates, b \in BlockStates :
            /\ frame' = [frame EXCEPT ![level + 1] = [NewFrame("none") EXCEPT !.owner = o]]
            /\ state' = [state EXCEPT ![level + 1] = st]
            /\ blockState' = [blockState EXCEPT ![level + 1] = b]
    <3>1. /\ TRUE \in BOOLEAN /\ "INPROGRESS" \in TransStates /\ "START" \in TransStates
          /\ "SUBINPROGRESS" \in BlockStates /\ "SUBBEGIN" \in BlockStates
      BY DEF TransStates, BlockStates, SubBlockStates
    <3>2. QED
      BY <1>2, <3>1 DEF BeginInternalSubTransaction
  <2>4. frame' \in [Levels -> FrameType]
    BY <2>2, <2>3, TypeParts
  <2>5. StackType'
    BY <2>1, <2>2, <2>3, TypeParts DEF StackType
  <2>6. pc' \in Places
    BY <1>2, TypeParts DEF BeginInternalSubTransaction, Raise, Places
  <2>7. code' \in Seq(Nat) /\ code' # << >>
    <3>1. code' \in {code, Append(code, 0)}
      BY <1>2 DEF BeginInternalSubTransaction
    <3>2. QED
      BY <3>1, CodeType, TypeParts
  <2>8. /\ deferred' = deferred /\ chain' = chain /\ chars' = chars /\ saved' = saved
        /\ snapshot' = snapshot /\ flags' = flags /\ spi' = spi /\ db' = db
        /\ prepared' = prepared
    BY <2>1 DEF modes, durable
  <2>9. QED
    BY <2>4, <2>5, <2>6, <2>7, <2>8, TypeParts, XactTypeParts
<1>3. QED
  BY <1>1, <1>2

\* An exception block ends, normally or in its PG_CATCH.
LEMMA EndInternalType ==
    ASSUME TypeOK, StackInv, pc \in {"exec", "catch"},
           \/ ReleaseCurrentSubTransaction
           \/ RollbackAndReleaseCurrentSubTransaction
    PROVE  XactType'
<1>1. CASE Refused \/ Died
  BY <1>1, RefusedType
<1>2. CASE ~(Refused \/ Died)
  <2> DEFINE k == Len(code)
  <2>1. bstate \in SubBlockStates
    BY <1>2 DEF ReleaseCurrentSubTransaction, RollbackAndReleaseCurrentSubTransaction,
                SubBlockStates
  <2>2. level >= 2 /\ StackType /\ ModeType /\ DataType
    BY <2>1, SubLevel
  <2>3. code' = SubSeq(code, 1, k - 1) /\ k > 1
    <3>1. CASE ReleaseCurrentSubTransaction
      BY <1>2, <3>1 DEF ReleaseCurrentSubTransaction, inner
    <3>2. CASE RollbackAndReleaseCurrentSubTransaction
      BY <1>2, <3>2 DEF RollbackAndReleaseCurrentSubTransaction, inner, StackInv, Depth
    <3>3. QED
      BY <3>1, <3>2
  <2>4. code' \in Seq(Nat) /\ code' # << >>
    BY <2>3, CodeType
  <2>5. /\ deferred' = deferred /\ chain' = chain /\ saved' = saved /\ snapshot' = snapshot
        /\ flags' = flags /\ lastSubid' = lastSubid /\ db' = db /\ prepared' = prepared
    BY <1>2 DEF ReleaseCurrentSubTransaction, RollbackAndReleaseCurrentSubTransaction, durable
  <2>6. /\ StackType' /\ frame' \in [Levels -> FrameType] /\ chars' \in Chars
        /\ spi' \in Seq(0..MaxSubId)
    <3>1. CASE ReleaseCurrentSubTransaction
      <4>1. CommitSubTransaction
        BY <1>2, <3>1 DEF ReleaseCurrentSubTransaction
      <4>2. QED
        BY <2>2, <2>5, <4>1, SubEndType
    <3>2. CASE RollbackAndReleaseCurrentSubTransaction
      <4>1. (AbortSubTransaction \/ UNCHANGED <<chars, spi>>) /\ CleanupSubTransaction
        BY <1>2, <3>2 DEF RollbackAndReleaseCurrentSubTransaction
      <4>2. QED
        BY <2>2, <2>5, <4>1, SubEndType
    <3>3. QED
      BY <3>1, <3>2
  <2>7. pc' \in Places
    BY <1>2, TypeParts DEF ReleaseCurrentSubTransaction,
       RollbackAndReleaseCurrentSubTransaction, Places
  <2>8. QED
    BY <2>4, <2>5, <2>6, <2>7, TypeParts, XactTypeParts
<1>3. QED
  BY <1>1, <1>2

\* COMMIT or ROLLBACK in a procedure.
LEMMA SPI_endType ==
    ASSUME TypeOK, NEW commit \in BOOLEAN, NEW ch \in BOOLEAN, SPI_end(commit, ch)
    PROVE  XactType'
<1>1. CASE Refused
  BY <1>1, RefusedType
<1>2. CASE ~Refused
  <2>1. /\ saved' \in {chars, saved} /\ snapshot' = FALSE
        /\ UNCHANGED <<code, deferred, chain, spi, prepared>>
    BY <1>2 DEF SPI_end
  <2>2. pc' \in {pc, "error"} /\ db' \in {db, db \cup frame[1].work}
    BY <1>2 DEF SPI_end
  <2>3. StartTransaction("STARTED", IF ch THEN chars ELSE DefaultChars)
    BY <1>2 DEF SPI_end
  <2>4. /\ StackType' /\ frame' \in [Levels -> FrameType] /\ chars' \in Chars
        /\ flags' = {}
    <3>1. (IF ch THEN chars ELSE DefaultChars) \in Chars /\ "STARTED" \in TopBlockStates
      BY Values, TypeParts DEF TopBlockStates
    <3>2. QED
      BY <2>3, <3>1, StartType, TypeParts
  <2>5. db' \subseteq Rows
    <3>1. frame[1].work \subseteq Rows
      BY SubIdAssumption, TypeParts DEF Levels, FrameType
    <3>2. QED
      BY <2>2, <3>1, TypeParts
  <2>6. pc' \in Places
    BY <2>2, TypeParts DEF Places
  <2>7. saved' \in Chars
    BY <2>1, TypeParts
  <2>8. snapshot' \in BOOLEAN
    BY <2>1, Zenon
  <2>9. /\ code' = code /\ deferred' = deferred /\ chain' = chain /\ spi' = spi
        /\ prepared' = prepared
    BY <2>1
  <2>10. QED
    BY <2>4, <2>5, <2>6, <2>7, <2>8, <2>9, TypeParts, XactTypeParts
<1>3. QED
  BY <1>1, <1>2

\* User code, and the handlers of exception blocks.
LEMMA UserType == ASSUME TypeOK, StackInv, UserCode \/ Catch PROVE XactType'
<1>1. CASE Catch
  BY <1>1, EndInternalType DEF Catch, RollbackAndReleaseCurrentSubTransaction
<1>2. CASE UserCode
  <2>0. pc = "exec"
    BY <1>2 DEF UserCode
  <2>1. CASE (\E r \in Rows : Write(r)) \/ SPI_connect \/ SPI_finish
    BY <2>1, CallType
  <2>2. CASE BeginInternalSubTransaction
    BY <2>0, <2>2, BeginInternalType
  <2>3. CASE ReleaseCurrentSubTransaction
    BY <2>0, <2>3, EndInternalType
  <2>4. CASE \E commit \in Usable("procedure", BOOLEAN), ch \in Chained : SPI_end(commit, ch)
    <3>1. \A commit \in Usable("procedure", BOOLEAN) : commit \in BOOLEAN
      BY DEF Usable
    <3>2. QED
      BY <2>4, <3>1, ChainedType, SPI_endType
  <2>5. QED
    BY <1>2, <2>1, <2>2, <2>3, <2>4 DEF UserCode
<1>3. QED
  BY <1>1, <1>2

\* Saving the characteristics.
LEMMA SaveType == ASSUME TypeOK, SaveTransactionCharacteristics \/ UNCHANGED saved
                  PROVE  saved' \in Chars
BY TypeParts DEF SaveTransactionCharacteristics

\* CommitTransactionCommand, for the top-level transaction.
LEMMA CommitTopType ==
    ASSUME TypeOK, CommitNothing \/ PreCommit \/ FinishCommit \/ FinishAbort \/ ChainStart
    PROVE  XactType'
<1>1. CASE CommitNothing
  <2>1. /\ code' = code /\ deferred' = deferred /\ level' = level /\ state' = state
        /\ frame' = frame /\ chain' = chain /\ chars' = chars /\ snapshot' = snapshot
        /\ flags' = flags /\ lastSubid' = lastSubid /\ spi' = spi /\ db' = db
        /\ prepared' = prepared /\ pc' \in Places
    BY <1>1 DEF CommitNothing, CommitLeavesAlone, durable, Places
  <2>2. bstate \in BlockStates /\ "INPROGRESS" \in BlockStates
    BY TypeParts DEF bstate, BlockStates, TopBlockStates
  <2>3. StackType'
    BY <1>1, <2>1, <2>2, TypeParts DEF CommitNothing, SetBlockState, StackType
  <2>4. QED
    BY <1>1, <2>1, <2>3, SaveType, TypeParts, XactTypeParts DEF CommitNothing
<1>2. CASE PreCommit
  <2>1. /\ code' = code /\ level' = level /\ blockState' = blockState /\ state' = state
        /\ frame' = frame /\ chain' = chain /\ chars' = chars /\ snapshot' = snapshot
        /\ flags' = flags /\ lastSubid' = lastSubid /\ spi' = spi /\ db' = db
        /\ prepared' = prepared /\ pc' \in Places
    BY <1>2 DEF PreCommit, stack, durable, Places
  <2>2. saved' \in Chars
    BY <1>2, SaveType DEF PreCommit
  <2>3. deferred' \in BOOLEAN
    BY <1>2, Zenon DEF PreCommit
  <2>4. StackType'
    BY <2>1, SameLevels
  <2>5. QED
    BY <2>1, <2>2, <2>3, <2>4, TypeParts, XactTypeParts
<1>3. CASE FinishCommit
  <2>1. code' = code /\ chain' = chain /\ saved' = saved /\ flags' = flags /\ lastSubid' = lastSubid
    BY <1>3 DEF FinishCommit
  <2>2. CASE CommitTransaction /\ deferred' = FALSE /\ pc' = AfterEnd(bstate)
    <3>1. AtEOXact /\ CleanupTransaction
      BY <2>2 DEF CommitTransaction
    <3>2. chars' \in Chars /\ spi' \in Seq(0..MaxSubId)
      BY <3>1, AbortType, TypeParts
    <3>3. StackType' /\ frame' \in [Levels -> FrameType] /\ snapshot' \in BOOLEAN
      BY <2>1, <3>1, CleanupType, TypeParts
    <3>4. db' \subseteq Rows /\ prepared' \subseteq SUBSET Rows
      <4>1. frame[1].work \subseteq Rows
        BY SubIdAssumption, TypeParts DEF Levels, FrameType
      <4>2. QED
        BY <2>2, <4>1, TypeParts DEF CommitTransaction
    <3>5. pc' \in Places
      BY <2>2 DEF AfterEnd, Places
    <3>6. deferred' \in BOOLEAN
      BY <2>2, Zenon
    <3>7. QED
      BY <2>1, <3>2, <3>3, <3>4, <3>5, <3>6, TypeParts, XactTypeParts
  <2>3. CASE /\ state' = [state EXCEPT ![1] = "PREPARE"]
             /\ pc' = "error"
             /\ UNCHANGED <<deferred, chars, spi, snapshot, level, blockState, frame, durable>>
    <3>1. /\ deferred' = deferred /\ chars' = chars /\ spi' = spi /\ snapshot' = snapshot
          /\ level' = level /\ blockState' = blockState /\ frame' = frame /\ db' = db
          /\ prepared' = prepared /\ pc' \in Places
      BY <2>3 DEF durable, Places
    <3>2. StackType'
      BY <2>1, <2>3, <3>1, TypeParts DEF StackType, TransStates
    <3>3. QED
      BY <2>1, <3>1, <3>2, TypeParts, XactTypeParts
  <2>4. QED
    BY <1>3, <2>2, <2>3 DEF FinishCommit
<1>4. CASE FinishAbort
  <2>1. /\ code' = code /\ deferred' = deferred /\ chain' = chain /\ flags' = flags
        /\ lastSubid' = lastSubid /\ db' = db /\ prepared' = prepared
    BY <1>4 DEF FinishAbort, durable
  <2>2. saved' \in Chars
    BY <1>4, SaveType DEF FinishAbort
  <2>3. chars' \in Chars /\ spi' \in Seq(0..MaxSubId)
    <3>1. AbortTransaction \/ UNCHANGED <<chars, spi>>
      BY <1>4 DEF FinishAbort
    <3>2. QED
      BY <3>1, AbortType, TypeParts
  <2>4. StackType' /\ frame' \in [Levels -> FrameType] /\ snapshot' \in BOOLEAN
    <3>1. CASE CleanupTransaction
      BY <2>1, <3>1, CleanupType, TypeParts
    <3>2. CASE UNCHANGED <<stack, snapshot>>
      <4>1. /\ level' = level /\ blockState' = blockState /\ state' = state /\ frame' = frame
            /\ snapshot' = snapshot
        BY <3>2 DEF stack
      <4>2. QED
        BY <2>1, <4>1, SameLevels, TypeParts
    <3>3. QED
      BY <1>4, <3>1, <3>2 DEF FinishAbort
  <2>5. pc' \in Places
    BY <1>4 DEF FinishAbort, AfterEnd, Places
  <2>6. QED
    BY <2>1, <2>2, <2>3, <2>4, <2>5, TypeParts, XactTypeParts
<1>5. CASE ChainStart
  <2>1. /\ code' = code /\ deferred' = deferred /\ saved' = saved /\ snapshot' = snapshot
        /\ spi' = spi /\ db' = db /\ prepared' = prepared /\ pc' \in Places
    BY <1>5 DEF ChainStart, StartTransactionFails, durable, Places
  <2>2. chain' \in BOOLEAN
    <3>1. chain' = FALSE \/ chain' = chain
      BY <1>5 DEF ChainStart, StartTransactionFails
    <3>2. QED
      BY <3>1, TypeParts, Zenon
  <2>3. /\ StackType' /\ frame' \in [Levels -> FrameType] /\ chars' \in Chars
        /\ flags' = {}
    <3>1. "INPROGRESS" \in TopBlockStates
      BY DEF TopBlockStates
    <3>2. StartTransaction("INPROGRESS", saved) \/ StartTransactionFails
      BY <1>5 DEF ChainStart
    <3>3. QED
      BY <3>1, <3>2, StartType, TypeParts
  <2>4. QED
    BY <2>1, <2>2, <2>3, TypeParts, XactTypeParts
<1>6. QED
  BY <1>1, <1>2, <1>3, <1>4, <1>5

\* CommitTransactionCommand, for subtransactions.
LEMMA CommitSubType ==
    ASSUME TypeOK, StackInv, StartSub \/ CommitSub \/ AbortSub \/ RestartSub
    PROVE  XactType'
<1>0. bstate \in SubBlockStates
  BY DEF StartSub, CommitSub, AbortSub, RestartSub, SubBlockStates
<1>1. level >= 2 /\ StackType /\ ModeType /\ DataType
  BY <1>0, SubLevel
<1>2. /\ code' = code /\ deferred' = deferred /\ snapshot' = snapshot /\ flags' = flags
      /\ db' = db /\ prepared' = prepared /\ chain' = chain /\ saved' = saved
  BY DEF StartSub, CommitSub, AbortSub, RestartSub, CommitLeavesAlone, durable
<1>3. pc' \in Places
  BY TypeParts DEF StartSub, CommitSub, AbortSub, RestartSub, Places
<1>4. SUFFICES /\ StackType' /\ frame' \in [Levels -> FrameType] /\ chars' \in Chars
               /\ spi' \in Seq(0..MaxSubId)
  BY <1>2, <1>3, TypeParts, XactTypeParts
<1>5. frame[level] \in FrameType
  BY TypeParts
<1>6. CASE StartSub
  <2>1. level' = level /\ lastSubid' = lastSubid /\ chars' = chars /\ spi' = spi
    BY <1>6 DEF StartSub
  <2>2. PICK o \in BOOLEAN, st \in TransStates, b \in BlockStates :
            /\ frame' = [frame EXCEPT ![level] = [frame[level] EXCEPT !.owner = o]]
            /\ state' = [state EXCEPT ![level] = st]
            /\ blockState' = blockState \/ blockState' = [blockState EXCEPT ![level] = b]
    <3>1. /\ TRUE \in BOOLEAN /\ "INPROGRESS" \in TransStates /\ "START" \in TransStates
          /\ "SUBINPROGRESS" \in BlockStates
      BY DEF TransStates, BlockStates, SubBlockStates
    <3>2. QED
      BY <1>6, <3>1 DEF StartSub, StartSubTransaction, StartSubTransactionFails, SetBlockState
  <2>3. [frame[level] EXCEPT !.owner = o] \in FrameType
    BY <1>5 DEF FrameType
  <2>4. frame' \in [Levels -> FrameType]
    BY <2>2, <2>3, TypeParts
  <2>5. StackType'
    BY <2>1, <2>2, TypeParts DEF StackType
  <2>6. QED
    BY <2>1, <2>4, <2>5, TypeParts
<1>7. CASE CommitSub
  <2>1. lastSubid' = lastSubid
    BY <1>7 DEF CommitSub
  <2>2. CASE CommitSubTransaction
    BY <1>1, <2>1, <2>2, SubEndType
  <2>3. CASE /\ \E st \in {"INPROGRESS", "COMMIT"} : state' = [state EXCEPT ![level] = st]
             /\ UNCHANGED <<level, blockState, frame, chars, spi>>
    <3>1. StackType'
      BY <2>1, <2>3, TypeParts DEF StackType, TransStates
    <3>2. QED
      BY <2>3, <3>1, TypeParts
  <2>4. QED
    BY <1>7, <2>2, <2>3 DEF CommitSub
<1>8. CASE AbortSub
  BY <1>1, <1>8, SubEndType DEF AbortSub
<1>9. CASE RestartSub
  <2>1. chars' \in Chars /\ spi' \in Seq(0..MaxSubId)
    BY <1>1, <1>9, SubEndType DEF RestartSub
  <2>2. CASE CleanupSubTransaction /\ lastSubid' = lastSubid
    BY <1>1, <2>1, <2>2, SubEndType
  <2>3. CASE /\ CanPush
             /\ lastSubid' = lastSubid + 1
             /\ blockState' = [blockState EXCEPT ![level] = "SUBBEGIN"]
             /\ state' = [state EXCEPT ![level] = "DEFAULT"]
             /\ frame' = [frame EXCEPT ![level] =
                           [NewFrame(@.name) EXCEPT !.prevAcc = chars'.acc]]
             /\ level' = level
    <3>1. frame[level].name \in Names \cup {"none"} /\ chars'.acc \in Access
      BY <1>5, <2>1 DEF FrameType, Chars
    <3>2. /\ lastSubid + 1 \in Levels
          /\ [NewFrame(frame[level].name) EXCEPT !.prevAcc = chars'.acc] \in FrameType
      BY <2>3, <3>1, NewFrameType, TypeParts
    <3>3. frame' \in [Levels -> FrameType]
      BY <2>3, <3>2, TypeParts
    <3>4. StackType'
      BY <2>3, <3>2, TypeParts DEF StackType, BlockStates, SubBlockStates, TransStates
    <3>5. QED
      BY <2>1, <3>3, <3>4
  <2>4. QED
    BY <1>9, <2>2, <2>3 DEF RestartSub
<1>10. QED
  BY <1>6, <1>7, <1>8, <1>9

\* AbortCurrentTransaction.
LEMMA AbortCurrentType ==
    ASSUME TypeOK, StackInv, AbortCurrentTransaction
    PROVE  XactType'
<1>1. /\ pc' \in {"recovered", "error"} /\ code' = <<0>> /\ deferred' = FALSE
      /\ UNCHANGED <<chain, saved, flags, durable, lastSubid>>
  BY DEF AbortCurrentTransaction, AbortNothing, AbortToIdle, AbortBlock, CleanupBlock,
         AbortSubBlock, AbortParent, AbortEffect
<1>2. /\ chain' = chain /\ saved' = saved /\ flags' = flags /\ db' = db /\ prepared' = prepared
      /\ lastSubid' = lastSubid /\ pc' \in Places
  BY <1>1 DEF durable, Places
<1>3. code' \in Seq(Nat) /\ code' # << >>
  BY <1>1
<1>4. deferred' \in BOOLEAN
  BY <1>1, Zenon
<1>5. SUFFICES /\ StackType' /\ frame' \in [Levels -> FrameType] /\ chars' \in Chars
               /\ spi' \in Seq(0..MaxSubId) /\ snapshot' \in BOOLEAN
  BY <1>2, <1>3, <1>4, TypeParts, XactTypeParts
<1>6. \A i \in Levels : [frame[i] EXCEPT !.work = {}, !.prior = NoPrior] \in FrameType
  <2>1. \A f \in FrameType, p \in PriorType : [f EXCEPT !.work = {}, !.prior = p] \in FrameType
    BY DEF FrameType
  <2>2. QED
    BY <2>1, Values, TypeParts
<1>7. 1 \in Levels /\ level \in Levels
  BY SubIdAssumption, TypeParts DEF Levels
<1>8. CASE AbortNothing
  <2>1. /\ level' = level /\ blockState' = blockState /\ state' = state /\ frame' = frame
        /\ chars' = chars /\ snapshot' = snapshot /\ spi' = spi
    BY <1>8 DEF AbortNothing, stack
  <2>2. QED
    BY <1>2, <2>1, SameLevels, TypeParts
<1>9. CASE AbortToIdle \/ CleanupBlock
  <2>1. (AbortTransaction \/ UNCHANGED <<chars, spi>>) /\ CleanupTransaction
    BY <1>9 DEF AbortToIdle, CleanupBlock
  <2>2. QED
    BY <1>2, <2>1, AbortType, CleanupType, TypeParts
<1>10. CASE AbortBlock
  <2>1. /\ AbortTransaction /\ snapshot' = snapshot /\ level' = level
        /\ blockState' = [blockState EXCEPT ![level] = "ABORT"]
        /\ state' = [state EXCEPT ![1] = "ABORT"]
        /\ frame' = [frame EXCEPT ![1] = [@ EXCEPT !.work = {}, !.prior = NoPrior]]
    BY <1>10 DEF AbortBlock, SetBlockState
  <2>2. frame' \in [Levels -> FrameType]
    BY <1>6, <1>7, <2>1, TypeParts
  <2>3. StackType'
    BY <1>2, <1>7, <2>1, TypeParts DEF StackType, BlockStates, TopBlockStates, TransStates
  <2>4. QED
    BY <2>1, <2>2, <2>3, AbortType, TypeParts
<1>11. CASE AbortSubBlock
  <2>1. /\ AbortSubTransaction /\ snapshot' = snapshot /\ level' = level
        /\ blockState' = [blockState EXCEPT ![level] = "SUBABORT"]
        /\ state' = [state EXCEPT ![level] = "ABORT"]
        /\ frame' = [frame EXCEPT ![level] = [@ EXCEPT !.work = {}, !.prior = NoPrior]]
        /\ bstate \in SubBlockStates
    BY <1>11 DEF AbortSubBlock, SetBlockState, SubBlockStates
  <2>2. frame' \in [Levels -> FrameType]
    BY <1>6, <1>7, <2>1, TypeParts
  <2>3. StackType'
    BY <1>2, <1>7, <2>1, TypeParts DEF StackType, BlockStates, SubBlockStates, TransStates
  <2>4. chars' \in Chars /\ spi' \in Seq(0..MaxSubId)
    BY <2>1, SubLevel, SubEndType
  <2>5. QED
    BY <2>1, <2>2, <2>3, <2>4, TypeParts
<1>12. CASE AbortParent
  <2>1. /\ AbortSubTransaction \/ UNCHANGED <<chars, spi>>
        /\ CleanupSubTransaction /\ snapshot' = snapshot
        /\ bstate \in SubBlockStates
    BY <1>12 DEF AbortParent, SubBlockStates
  <2>2. QED
    BY <1>2, <2>1, SubLevel, SubEndType, TypeParts
<1>13. QED
  BY <1>8, <1>9, <1>10, <1>11, <1>12 DEF AbortCurrentTransaction
=============================================================================
