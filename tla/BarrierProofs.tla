---------------------------- MODULE BarrierProofs ----------------------------
(***************************************************************************)
(* What barriers promise, for any number of processes and of phases: the   *)
(* counters are true, the phase advances only with every participant, and  *)
(* one of those who arrived for a phase is elected.                        *)
(***************************************************************************)
EXTENDS Barrier, FiniteSetTheorems, TLAPS

barrierVars == <<participants, arrived, phase, elected, attached, waiting, start_phase,
                 came, chosen>>

(* Who waits for the phase to advance.                                     *)
Waiters == {p \in Procs : waiting[p] /\ start_phase[p] = phase}

BarrierType ==
  /\ attached \in SUBSET Procs
  /\ waiting \in [Procs -> BOOLEAN]
  /\ start_phase \in [Procs -> Nat]
  /\ phase \in 0 .. MaxPhase
  /\ came \in [1 .. MaxPhase -> SUBSET Procs]
  /\ chosen \in [1 .. MaxPhase -> SUBSET Procs]

(* Whoever waits is attached, and came for the phase it waits for or for   *)
(* the one just begun.                                                     *)
WaitersAttached == \A p \in Procs : waiting[p] => p \in attached

PartyInv == BarrierType /\ WaitersAttached /\ CountsAreTrue /\ PhaseIsNear

(* The history of elections: nobody is chosen for a phase to come, and the *)
(* variable elected tells whether somebody is for the current one.         *)
ElectionInv ==
  /\ elected \in 0 .. phase
  /\ \A n \in 1 .. MaxPhase : chosen[n] = {} \/ \E p \in Procs : chosen[n] = {p}
  /\ \A n \in 1 .. MaxPhase : n > phase => chosen[n] = {}
  /\ \A n \in 1 .. MaxPhase : n > phase + 1 => came[n] = {}
  /\ phase < MaxPhase => came[phase + 1] = Waiters
  /\ phase > 0 => (elected = phase <=> chosen[phase] # {})
  /\ \A n \in 1 .. phase :
       came[n] # {} /\ (\A p \in Procs : waiting[p] => start_phase[p] # n - 1)
         => chosen[n] # {}
-----------------------------------------------------------------------------
(* What the steps of the barrier do to it, five kinds in all.              *)

Free(p) == p \in attached /\ ~waiting[p]

Joins(p) ==
  /\ p \notin attached
  /\ participants' = participants + 1 /\ attached' = attached \union {p}
  /\ UNCHANGED <<arrived, phase, elected, waiting, start_phase, came, chosen>>

(* It arrives and has to wait for others.                                  *)
Arrives(p) ==
  /\ Free(p) /\ arrived + 1 # participants /\ phase < MaxPhase
  /\ arrived' = arrived + 1
  /\ waiting' = [waiting EXCEPT ![p] = TRUE]
  /\ start_phase' = [start_phase EXCEPT ![p] = phase]
  /\ came' = [came EXCEPT ![phase + 1] = @ \union {p}]
  /\ UNCHANGED <<participants, phase, elected, attached, chosen>>

(* It is the last one expected: the phase advances.                        *)
Advances(p) ==
  /\ Free(p) /\ arrived + 1 = participants /\ phase < MaxPhase
  /\ phase' = phase + 1 /\ arrived' = 0
  /\ \/ UNCHANGED <<participants, attached>>
     \/ participants' = participants - 1 /\ attached' = attached \ {p}
  /\ \/ UNCHANGED <<elected, came, chosen>>
     \/ /\ elected' = phase + 1
        /\ chosen' = [chosen EXCEPT ![phase + 1] = @ \union {p}]
        /\ came' = [came EXCEPT ![phase + 1] = @ \union {p}]
  /\ UNCHANGED <<waiting, start_phase>>

(* It finds the phase advanced, and may elect itself.                      *)
Leaves(p) ==
  /\ waiting[p] /\ phase = start_phase[p] + 1
  /\ waiting' = [waiting EXCEPT ![p] = FALSE]
  /\ IF elected # phase
     THEN elected' = phase /\ chosen' = [chosen EXCEPT ![phase] = @ \union {p}]
     ELSE UNCHANGED <<elected, chosen>>
  /\ UNCHANGED <<participants, arrived, phase, attached, start_phase, came>>

(* It detaches and the phase stays.                                        *)
Quits(p) ==
  /\ Free(p)
  /\ participants' = participants - 1 /\ attached' = attached \ {p}
  /\ UNCHANGED <<arrived, phase, elected, waiting, start_phase, came, chosen>>

KindOf(p) == Joins(p) \/ Arrives(p) \/ Advances(p) \/ Leaves(p) \/ Quits(p)

(* The counters are numbers of attached processes.                         *)
LEMMA PartyNumbers ==
  ASSUME PartyInv
  PROVE  /\ IsFiniteSet(attached) /\ participants = Cardinality(attached)
         /\ participants \in Nat
         /\ Waiters \in SUBSET attached /\ IsFiniteSet(Waiters)
         /\ arrived = Cardinality(Waiters) /\ arrived \in Nat
<1> USE DEF PartyInv
<1>1. IsFiniteSet(attached)
  BY FS_Subset, BarrierAssumption DEF BarrierType
<1>2. Waiters \in SUBSET attached
  BY DEF Waiters, WaitersAttached
<1>3. IsFiniteSet(Waiters)
  BY <1>1, <1>2, FS_Subset
<1>4. participants = Cardinality(attached) /\ arrived = Cardinality(Waiters)
  BY DEF CountsAreTrue, Waiters
<1>5. Cardinality(attached) \in Nat /\ Cardinality(Waiters) \in Nat
  BY <1>1, <1>3, FS_CardinalityType
<1>6. QED
  BY <1>1, <1>2, <1>3, <1>4, <1>5

(* A free participant is not counted among those who have arrived.         *)
LEMMA FreeNotCounted ==
  ASSUME PartyInv, NEW p \in Procs, Free(p)
  PROVE  /\ Cardinality(attached \ {p}) = participants - 1
         /\ IsFiniteSet(attached \ {p})
         /\ Waiters \in SUBSET (attached \ {p})
         /\ arrived <= participants - 1
<1>1. Waiters \in SUBSET (attached \ {p})
  BY PartyNumbers DEF Waiters, Free
<1>2. IsFiniteSet(attached \ {p}) /\ Cardinality(attached \ {p}) = participants - 1
  BY PartyNumbers, FS_RemoveElement DEF Free
<1>3. Cardinality(Waiters) <= Cardinality(attached \ {p})
  BY <1>1, <1>2, FS_Subset
<1>4. QED
  BY <1>1, <1>2, <1>3, PartyNumbers

(* When the last one arrives, all the others wait for this phase.          *)
LEMMA LastOne ==
  ASSUME PartyInv, NEW p \in Procs, Free(p), arrived + 1 = participants
  PROVE  /\ attached \ {p} = Waiters
         /\ \A q \in Procs : waiting[q] => start_phase[q] = phase
<1>1. Cardinality(attached \ {p}) = Cardinality(Waiters)
  BY FreeNotCounted, PartyNumbers
<1>2. attached \ {p} = Waiters
  BY <1>1, FreeNotCounted, FS_Subset
<1>3. QED
  BY <1>2 DEF Free, PartyInv, WaitersAttached, Waiters
-----------------------------------------------------------------------------
(* Every step is of one of the kinds, or leaves the barrier alone.         *)
LEMMA NextKinds ==
  ASSUME PartyInv, [Next]_vars
  PROVE  (\E p \in Procs : KindOf(p)) \/ UNCHANGED barrierVars
<1> USE DEF counts, barrierVars
<1>0. participants \in Nat /\ arrived \in Nat
  BY PartyNumbers
<1>1. ASSUME NEW p \in Procs, BarrierAttach(p) PROVE Joins(p)
  BY <1>1 DEF BarrierAttach, Joins
<1>2. ASSUME NEW p \in Procs, BarrierArriveAndWait(p) PROVE Arrives(p) \/ Advances(p)
  BY <1>2 DEF BarrierArriveAndWait, Ready, Free, NextPhase, Elect, Arrives, Advances
<1>3. ASSUME NEW p \in Procs, NEW arrive \in BOOLEAN, BarrierDetachImpl(p, arrive)
      PROVE  Advances(p) \/ Quits(p)
  <2>1. CASE Releases(arrive)
    <3>1. arrived + 1 = participants
      BY <1>0, <2>1 DEF Releases
    <3>2. QED
      BY <1>3, <2>1, <3>1 DEF BarrierDetachImpl, Ready, Free, NextPhase, Advances
  <2>2. CASE ~Releases(arrive)
    BY <1>3, <2>2 DEF BarrierDetachImpl, Ready, Free, Quits, cvVars
  <2>3. QED
    BY <2>1, <2>2
<1>4. ASSUME NEW p \in Procs, BarrierArriveAndDetachExceptLast(p)
      PROVE  Advances(p) \/ Quits(p)
  <2>1. Free(p) /\ arrived <= participants - 1
    BY <1>4, FreeNotCounted DEF BarrierArriveAndDetachExceptLast, Ready, Free
  <2>2. CASE participants > 1
    BY <1>0, <1>4, <2>1, <2>2 DEF BarrierArriveAndDetachExceptLast, Quits
  <2>3. CASE participants = 1
    <3>1. arrived = 0
      BY <1>0, <2>1, <2>3
    <3>2. QED
      BY <1>4, <2>1, <2>3, <3>1 DEF BarrierArriveAndDetachExceptLast, Advances
  <2>4. QED
    BY <1>4, <2>2, <2>3 DEF BarrierArriveAndDetachExceptLast
<1>5. ASSUME NEW p \in Procs, CheckPhase(p) PROVE Leaves(p) \/ UNCHANGED barrierVars
  BY <1>5 DEF CheckPhase, Leaves, ElectMyself, Elect
<1>6. ASSUME NEW p \in Procs, Sleeping(p) PROVE UNCHANGED barrierVars
  BY <1>6 DEF Sleeping
<1>7. CASE UNCHANGED vars
  BY <1>7 DEF vars
<1>8. QED
  BY <1>1, <1>2, <1>3, <1>4, <1>5, <1>6, <1>7
     DEF Next, TakePart, BarrierDetach, BarrierArriveAndDetach, KindOf

(* A new participant is counted, and does not wait.                        *)
LEMMA JoinsKeepsParty ==
  ASSUME PartyInv, NEW p \in Procs, Joins(p)
  PROVE  PartyInv'
<1>1. participants' = Cardinality(attached')
  BY PartyNumbers, FS_AddElement DEF Joins
<1>2. Waiters' = Waiters
  BY DEF Joins, Waiters
<1>3. CountsAreTrue'
  BY <1>1, <1>2, PartyNumbers DEF CountsAreTrue, Waiters, Joins, PartyInv
<1>4. BarrierType' /\ WaitersAttached' /\ PhaseIsNear'
  BY DEF PartyInv, BarrierType, WaitersAttached, PhaseIsNear, Joins
<1>5. QED
  BY <1>3, <1>4 DEF PartyInv

(* One more waits.                                                         *)
LEMMA ArrivesKeepsParty ==
  ASSUME PartyInv, NEW p \in Procs, Arrives(p)
  PROVE  PartyInv' /\ Waiters' = Waiters \union {p}
<1>1. BarrierType'
  BY BarrierAssumption DEF PartyInv, BarrierType, Arrives, Free
<1>2. WaitersAttached' /\ PhaseIsNear'
  BY DEF PartyInv, BarrierType, WaitersAttached, PhaseIsNear, Arrives, Free
<1>3. Waiters' = Waiters \union {p}
  BY DEF PartyInv, BarrierType, Waiters, Arrives
<1>4. p \notin Waiters
  BY DEF Waiters, Arrives, Free
<1>5. Cardinality(Waiters') = arrived + 1
  BY <1>3, <1>4, PartyNumbers, FS_AddElement
<1>6. arrived' = arrived + 1 /\ UNCHANGED <<participants, attached>>
  BY DEF Arrives
<1>7. CountsAreTrue'
  BY <1>5, <1>6, PartyNumbers DEF CountsAreTrue, Waiters
<1>8. QED
  BY <1>1, <1>2, <1>3, <1>7 DEF PartyInv

(* The others all waited for the phase, and nobody waits for the next one. *)
LEMMA AdvancesKeepsParty ==
  ASSUME PartyInv, NEW p \in Procs, Advances(p)
  PROVE  PartyInv' /\ Waiters' = {}
<1>1. /\ attached \ {p} = Waiters
      /\ \A q \in Procs : waiting[q] => start_phase[q] = phase
  BY LastOne DEF Advances
<1>2. phase \in Nat /\ phase' = phase + 1 /\ UNCHANGED <<waiting, start_phase>>
  BY BarrierAssumption DEF PartyInv, BarrierType, Advances
<1>3. Waiters' = {}
  BY <1>1, <1>2 DEF Waiters
<1>4. BarrierType'
  BY BarrierAssumption DEF PartyInv, BarrierType, Advances
<1>5. WaitersAttached' /\ PhaseIsNear'
  BY <1>1, <1>2 DEF PartyInv, WaitersAttached, PhaseIsNear, Advances, Free
<1>6. participants' = Cardinality(attached')
  BY FreeNotCounted, PartyNumbers DEF Advances
<1>7. arrived' = 0 /\ Cardinality({}) = 0
  BY FS_EmptySet DEF Advances
<1>8. CountsAreTrue'
  BY <1>3, <1>6, <1>7 DEF CountsAreTrue, Waiters
<1>9. QED
  BY <1>3, <1>4, <1>5, <1>8 DEF PartyInv

(* Whoever leaves had been released, and is not one of those who wait.     *)
LEMMA LeavesKeepsParty ==
  ASSUME PartyInv, NEW p \in Procs, Leaves(p)
  PROVE  PartyInv' /\ Waiters' = Waiters
<1>1. Waiters' = Waiters
  BY DEF PartyInv, BarrierType, Waiters, Leaves
<1>2. CountsAreTrue'
  BY <1>1 DEF CountsAreTrue, Waiters, Leaves, PartyInv
<1>3. BarrierType'
  <2>1. phase \in 1 .. MaxPhase
    BY BarrierAssumption DEF PartyInv, BarrierType, Leaves
  <2>2. chosen' \in [1 .. MaxPhase -> SUBSET Procs]
    <3>0. chosen \in [1 .. MaxPhase -> SUBSET Procs]
      BY DEF PartyInv, BarrierType
    <3>1. CASE elected # phase
      <4>1. chosen' = [chosen EXCEPT ![phase] = @ \union {p}]
        BY <3>1 DEF Leaves
      <4>2. QED
        BY <2>1, <3>0, <4>1
    <3>2. CASE elected = phase
      BY <3>2 DEF PartyInv, BarrierType, Leaves
    <3>3. QED
      BY <3>1, <3>2
  <2>3. waiting' \in [Procs -> BOOLEAN]
    BY DEF PartyInv, BarrierType, Leaves
  <2>4. UNCHANGED <<phase, attached, start_phase, came>>
    BY DEF Leaves
  <2>5. QED
    BY <2>2, <2>3, <2>4 DEF PartyInv, BarrierType
<1>4. WaitersAttached' /\ PhaseIsNear'
  BY DEF PartyInv, BarrierType, WaitersAttached, PhaseIsNear, Leaves
<1>5. QED
  BY <1>1, <1>2, <1>3, <1>4 DEF PartyInv

(* Who is not waiting is not counted as arrived, and goes without trace.   *)
LEMMA QuitsKeepsParty ==
  ASSUME PartyInv, NEW p \in Procs, Quits(p)
  PROVE  PartyInv'
<1>1. participants' = Cardinality(attached')
  BY FreeNotCounted DEF Quits
<1>2. participants' = participants - 1 /\ arrived' = arrived /\ Waiters' = Waiters
  BY DEF Quits, Waiters
<1>3. CountsAreTrue'
  BY <1>1, <1>2, PartyNumbers DEF CountsAreTrue, Waiters
<1>4. BarrierType' /\ WaitersAttached' /\ PhaseIsNear'
  BY DEF PartyInv, BarrierType, WaitersAttached, PhaseIsNear, Quits, Free
<1>5. QED
  BY <1>3, <1>4 DEF PartyInv

(* Every step keeps the counters true.                                     *)
LEMMA NextKeepsParty ==
  ASSUME PartyInv, [Next]_vars
  PROVE  PartyInv'
<1>1. ASSUME NEW p \in Procs, KindOf(p) PROVE PartyInv'
  BY <1>1, JoinsKeepsParty, ArrivesKeepsParty, AdvancesKeepsParty, LeavesKeepsParty,
     QuitsKeepsParty DEF KindOf
<1>2. CASE UNCHANGED barrierVars
  BY <1>2 DEF barrierVars, PartyInv, BarrierType, WaitersAttached, CountsAreTrue, PhaseIsNear
<1>3. QED
  BY <1>1, <1>2, NextKinds

(* At the beginning nobody waits.                                          *)
LEMMA InitParty == Init => PartyInv /\ ElectionInv
<1> SUFFICES ASSUME Init PROVE PartyInv /\ ElectionInv
  OBVIOUS
<1>1. Waiters = {}
  BY DEF Init, Waiters
<1>2. BarrierType /\ WaitersAttached /\ PhaseIsNear
  BY BarrierAssumption DEF Init, BarrierType, WaitersAttached, PhaseIsNear
<1>3. CountsAreTrue
  <2>1. participants = Cardinality(attached) /\ arrived = 0
    BY DEF Init
  <2>2. Cardinality(Waiters) = 0
    BY <1>1, FS_EmptySet
  <2>3. QED
    BY <2>1, <2>2 DEF CountsAreTrue, Waiters
<1>4. ElectionInv
  <2>1. /\ phase = 0 /\ elected = 0
        /\ \A n \in 1 .. MaxPhase : came[n] = {} /\ chosen[n] = {}
    BY DEF Init
  <2>2. phase < MaxPhase => phase + 1 \in 1 .. MaxPhase
    BY <2>1, BarrierAssumption
  <2>3. phase < MaxPhase => came[phase + 1] = Waiters
    BY <1>1, <2>1, <2>2
  <2>4. elected \in 0 .. phase /\ ~(phase > 0) /\ 1 .. phase = {}
    BY <2>1
  <2>5. QED
    BY <2>1, <2>3, <2>4 DEF ElectionInv
<1>5. QED
  BY <1>2, <1>3, <1>4 DEF PartyInv
-----------------------------------------------------------------------------
(* The counters of a barrier, participants and arrived, agree with who is  *)
(* attached and who waits (barrier.c:125, 216, 245, 307), for any number   *)
(* of processes and whatever calls they make.                              *)
THEOREM CountsHold == Spec => []CountsAreTrue
<1>1. PartyInv => CountsAreTrue
  BY DEF PartyInv
<1>2. QED
  BY <1>1, InitParty, NextKeepsParty, PTL DEF Spec

(* The assertion at barrier.c:174 holds for any number of processes: a     *)
(* waiter never misses a phase.                                            *)
THEOREM PhaseHolds == Spec => []PhaseIsNear
<1>1. PartyInv => PhaseIsNear
  BY DEF PartyInv
<1>2. QED
  BY <1>1, InitParty, NextKeepsParty, PTL DEF Spec

(* Only BarrierArriveAndDetachExceptLast can make the participants wait    *)
(* for nobody: whoever attaches is expected, whoever arrives last releases *)
(* the others, and so does whoever detaches last (barrier.c:312).          *)
LEMMA StrandedBy ==
  ASSUME PartyInv, [Next]_vars, Stranded', ~Stranded
  PROVE  \E p \in Droppers : BarrierArriveAndDetachExceptLast(p)
<1> USE DEF counts, Stranded
<1>0. participants \in Nat /\ arrived \in Nat
  BY PartyNumbers
<1>1. ASSUME NEW p \in Procs, BarrierAttach(p) PROVE FALSE
  <2>1. Cardinality(Waiters) <= Cardinality(attached)
    BY PartyNumbers, FS_Subset
  <2>2. QED
    BY <1>0, <1>1, <2>1, PartyNumbers DEF BarrierAttach
<1>2. ASSUME NEW p \in Procs, BarrierArriveAndWait(p) PROVE FALSE
  BY <1>0, <1>2 DEF BarrierArriveAndWait, NextPhase
<1>3. ASSUME NEW p \in Procs, NEW arrive \in BOOLEAN, BarrierDetachImpl(p, arrive)
      PROVE  FALSE
  <2>1. CASE Releases(arrive)
    BY <1>3, <2>1 DEF BarrierDetachImpl, NextPhase
  <2>2. CASE ~Releases(arrive)
    <3>1. arrived' = arrived /\ participants' = participants - 1
      BY <1>3, <2>2 DEF BarrierDetachImpl
    <3>2. arrived > 0 => arrived # participants - 1
      BY <1>0, <2>2 DEF Releases
    <3>3. QED
      BY <3>1, <3>2
  <2>3. QED
    BY <2>1, <2>2
<1>4. ASSUME UNCHANGED <<participants, arrived>> PROVE FALSE
  BY <1>4
<1>5. ASSUME NEW p \in Procs, CheckPhase(p) \/ Sleeping(p) PROVE FALSE
  BY <1>4, <1>5 DEF CheckPhase, Sleeping
<1>6. ASSUME NEW p \in Procs, BarrierArriveAndDetachExceptLast(p) PROVE p \in Droppers
  BY <1>6 DEF BarrierArriveAndDetachExceptLast
<1>7. QED
  BY <1>1, <1>2, <1>3, <1>4, <1>5, <1>6
     DEF Next, TakePart, BarrierDetach, BarrierArriveAndDetach, vars

(* The phase of a barrier advances by one, and with everybody: all the     *)
(* participants but the one that arrives or detaches last wait for it; and *)
(* they wait for nobody only if one of the Droppers left by                *)
(* BarrierArriveAndDetachExceptLast (barrier.c:130, 216, 312).             *)
THEOREM NobodyIsLeft == Spec => NobodyLeftBehind
<1> DEFINE Step == phase' # phase =>
                     /\ phase' = phase + 1
                     /\ \E p \in Procs : \A q \in attached \ {p} :
                          waiting[q] /\ start_phase[q] = phase
<1> DEFINE Strand == Stranded' /\ ~Stranded =>
                       \E p \in Droppers : BarrierArriveAndDetachExceptLast(p)
<1>1. ASSUME PartyInv, [Next]_vars PROVE Step
  <2>1. ASSUME NEW p \in Procs, Advances(p) PROVE Step
    BY <1>1, <2>1, LastOne DEF Advances, Waiters
  <2>2. ASSUME NEW p \in Procs, KindOf(p) PROVE Step
    BY <2>1, <2>2 DEF KindOf, Joins, Arrives, Leaves, Quits
  <2>3. CASE UNCHANGED barrierVars
    BY <2>3 DEF barrierVars
  <2>4. QED
    BY <1>1, <2>2, <2>3, NextKinds
<1>2. ASSUME PartyInv, [Next]_vars PROVE Strand
  BY <1>2, StrandedBy
<1>3. PartyInv /\ [Next]_vars => [Step /\ Strand]_vars
  BY <1>1, <1>2
<1>4. QED
  BY <1>3, InitParty, NextKeepsParty, PTL DEF Spec, NobodyLeftBehind
-----------------------------------------------------------------------------
(* Who is elected is not touched by those who join or quit.                *)
LEMMA MembersKeepElection ==
  ASSUME PartyInv, ElectionInv, NEW p \in Procs, Joins(p) \/ Quits(p)
  PROVE  ElectionInv'
<1>1. UNCHANGED <<phase, elected, waiting, start_phase, came, chosen>>
  BY DEF Joins, Quits
<1>2. Waiters' = Waiters
  BY <1>1 DEF Waiters
<1>3. QED
  BY <1>1, <1>2 DEF ElectionInv

(* Who arrives is recorded for the phase that it waits for.                *)
LEMMA ArrivesKeepsElection ==
  ASSUME PartyInv, ElectionInv, NEW p \in Procs, Arrives(p)
  PROVE  ElectionInv'
<1>0. /\ phase \in 0 .. MaxPhase /\ phase < MaxPhase /\ phase + 1 \in 1 .. MaxPhase
      /\ waiting \in [Procs -> BOOLEAN] /\ start_phase \in [Procs -> Nat]
      /\ came \in [1 .. MaxPhase -> SUBSET Procs]
  BY BarrierAssumption DEF PartyInv, BarrierType, Arrives
<1>1. UNCHANGED <<phase, elected, chosen>>
  BY DEF Arrives
<1>2. /\ came'[phase + 1] = came[phase + 1] \union {p}
      /\ \A n \in 1 .. MaxPhase : n # phase + 1 => came'[n] = came[n]
  BY <1>0 DEF Arrives
<1>3. came'[phase + 1] = Waiters'
  BY <1>0, <1>2, ArrivesKeepsParty DEF ElectionInv
<1>4. \A n \in 1 .. MaxPhase : n > phase + 1 => came'[n] = {}
  BY <1>0, <1>2 DEF ElectionInv
<1>5. ASSUME NEW n \in 1 .. phase, came'[n] # {},
             \A q \in Procs : waiting'[q] => start_phase'[q] # n - 1
      PROVE  chosen'[n] # {}
  <2>1. n \in 1 .. MaxPhase /\ n # phase + 1
    BY <1>0, BarrierAssumption
  <2>2. came[n] # {}
    BY <1>2, <1>5, <2>1
  <2>3. \A q \in Procs : waiting[q] => start_phase[q] # n - 1
    BY <1>0, <1>5 DEF Arrives, Free
  <2>4. QED
    BY <1>1, <2>2, <2>3 DEF ElectionInv
<1>6. QED
  BY <1>1, <1>3, <1>4, <1>5 DEF ElectionInv

(* The last to arrive is the one elected; if it detached instead, those    *)
(* who came for the phase still wait, and one of them will be.             *)
LEMMA AdvancesKeepsElection ==
  ASSUME PartyInv, ElectionInv, NEW p \in Procs, Advances(p)
  PROVE  ElectionInv'
<1>0. /\ phase \in Nat /\ MaxPhase \in Nat /\ phase < MaxPhase
      /\ phase + 1 \in 1 .. MaxPhase /\ phase' = phase + 1
      /\ UNCHANGED <<waiting, start_phase>>
      /\ came \in [1 .. MaxPhase -> SUBSET Procs]
      /\ chosen \in [1 .. MaxPhase -> SUBSET Procs]
  BY BarrierAssumption DEF PartyInv, BarrierType, Advances
<1>1. /\ elected \in 0 .. phase /\ chosen[phase + 1] = {}
      /\ came[phase + 1] = Waiters
  BY <1>0 DEF ElectionInv
<1>2. \A n \in 1 .. MaxPhase : n # phase + 1 => came'[n] = came[n] /\ chosen'[n] = chosen[n]
  BY <1>0 DEF Advances
<1>3. \/ /\ elected' = elected /\ chosen'[phase + 1] = {}
         /\ came'[phase + 1] = Waiters
      \/ elected' = phase + 1 /\ chosen'[phase + 1] = {p}
  BY <1>0, <1>1 DEF Advances
<1>4. elected' \in 0 .. phase' /\ (elected' = phase' <=> chosen'[phase'] # {})
  BY <1>0, <1>1, <1>3
<1>5. \A n \in 1 .. MaxPhase : chosen'[n] = {} \/ \E q \in Procs : chosen'[n] = {q}
  BY <1>2, <1>3 DEF ElectionInv
<1>6. \A n \in 1 .. MaxPhase :
        (n > phase' => chosen'[n] = {}) /\ (n > phase' => came'[n] = {})
  BY <1>0, <1>2 DEF ElectionInv
<1>7. phase' < MaxPhase => came'[phase' + 1] = Waiters'
  <2>1. phase' < MaxPhase => phase' + 1 \in 1 .. MaxPhase /\ phase' + 1 > phase'
    BY <1>0
  <2>2. Waiters' = {}
    BY AdvancesKeepsParty
  <2>3. QED
    BY <1>6, <2>1, <2>2
<1>8. ASSUME NEW n \in 1 .. phase', came'[n] # {},
             \A q \in Procs : waiting'[q] => start_phase'[q] # n - 1
      PROVE  chosen'[n] # {}
  <2>1. CASE n = phase + 1
    <3>1. n - 1 = phase
      BY <1>0, <2>1
    <3>2. Waiters = {}
      BY <1>0, <1>8, <3>1 DEF Waiters
    <3>3. QED
      BY <1>3, <1>8, <2>1, <3>2
  <2>2. CASE n # phase + 1
    <3>1. n \in 1 .. phase /\ n \in 1 .. MaxPhase
      BY <1>0, <2>2
    <3>2. QED
      BY <1>0, <1>2, <1>8, <2>2, <3>1 DEF ElectionInv
  <2>3. QED
    BY <2>1, <2>2
<1>9. \A n \in 1 .. MaxPhase : n > phase' + 1 => came'[n] = {}
  BY <1>0, <1>6
<1>10. QED
  BY <1>4, <1>5, <1>6, <1>7, <1>8, <1>9 DEF ElectionInv

(* The first to leave a phase without an elected one elects itself.        *)
LEMMA LeavesKeepsElection ==
  ASSUME PartyInv, ElectionInv, NEW p \in Procs, Leaves(p)
  PROVE  ElectionInv'
<1>0. /\ phase \in 1 .. MaxPhase /\ MaxPhase \in Nat
      /\ waiting \in [Procs -> BOOLEAN] /\ start_phase \in [Procs -> Nat]
      /\ chosen \in [1 .. MaxPhase -> SUBSET Procs]
  BY BarrierAssumption DEF PartyInv, BarrierType, Leaves
<1>1. UNCHANGED <<phase, came, start_phase>> /\ Waiters' = Waiters
  BY LeavesKeepsParty DEF Leaves
<1>2. /\ elected' = phase
      /\ \/ chosen'[phase] = {p}
         \/ chosen'[phase] = chosen[phase] /\ chosen[phase] # {}
      /\ \A n \in 1 .. MaxPhase : n # phase => chosen'[n] = chosen[n]
  <2>1. CASE elected # phase
    <3>1. chosen[phase] = {}
      BY <1>0, <2>1 DEF ElectionInv
    <3>2. elected' = phase /\ chosen' = [chosen EXCEPT ![phase] = @ \union {p}]
      BY <2>1 DEF Leaves
    <3>3. QED
      BY <1>0, <3>1, <3>2
  <2>2. CASE elected = phase
    BY <1>0, <2>2 DEF ElectionInv, Leaves
  <2>3. QED
    BY <2>1, <2>2
<1>3. \A n \in 1 .. MaxPhase : chosen'[n] = {} \/ \E q \in Procs : chosen'[n] = {q}
  BY <1>2 DEF ElectionInv
<1>4. \A n \in 1 .. MaxPhase : n > phase => chosen'[n] = {}
  BY <1>0, <1>2 DEF ElectionInv
<1>5. ASSUME NEW n \in 1 .. phase, came[n] # {},
             \A q \in Procs : waiting'[q] => start_phase[q] # n - 1
      PROVE  chosen'[n] # {}
  <2>1. CASE n = phase
    BY <1>2, <2>1
  <2>2. CASE n # phase
    <3>1. start_phase[p] # n - 1 /\ n \in 1 .. MaxPhase
      BY <1>0, <2>2 DEF Leaves
    <3>2. \A q \in Procs : waiting[q] => start_phase[q] # n - 1
      BY <1>0, <1>5, <3>1 DEF Leaves
    <3>3. QED
      BY <1>2, <1>5, <2>2, <3>1, <3>2 DEF ElectionInv
  <2>3. QED
    BY <2>1, <2>2
<1>6. elected' \in 0 .. phase /\ chosen'[phase] # {}
  <2>1. phase \in 0 .. phase
    BY <1>0
  <2>2. elected' \in 0 .. phase
    BY <1>2, <2>1, Zenon
  <2>3. chosen'[phase] # {}
    BY <1>2, Zenon
  <2>4. QED
    BY <2>2, <2>3
<1>7. QED
  <2>1. (phase < MaxPhase => came[phase + 1] = Waiters)
        /\ \A n \in 1 .. MaxPhase : n > phase + 1 => came[n] = {}
    BY DEF ElectionInv
  <2>2. phase > 0 => (elected' = phase <=> chosen'[phase] # {})
    BY <1>2, <1>6
  <2>3. QED
    BY <1>1, <1>3, <1>4, <1>5, <1>6, <2>1, <2>2 DEF ElectionInv

(* Every step keeps the record of elections in order.                      *)
LEMMA NextKeepsElection ==
  ASSUME PartyInv, ElectionInv, [Next]_vars
  PROVE  ElectionInv'
<1>1. ASSUME NEW p \in Procs, KindOf(p) PROVE ElectionInv'
  BY <1>1, MembersKeepElection, ArrivesKeepsElection, AdvancesKeepsElection,
     LeavesKeepsElection DEF KindOf
<1>2. CASE UNCHANGED barrierVars
  BY <1>2 DEF barrierVars, ElectionInv, Waiters
<1>3. QED
  BY <1>1, <1>2, NextKinds

(* "Return true in one arbitrarily chosen participant" (barrier.c:120):    *)
(* one is elected in every phase for which somebody came to wait, never    *)
(* two, whoever detaches meanwhile.                                        *)
THEOREM OneIsElected == Spec => []OneElected
<1>1. ASSUME PartyInv, ElectionInv PROVE OneElected
  <2> SUFFICES ASSUME NEW n \in 1 .. phase PROVE Cardinality(chosen[n]) <= 1
    BY <1>1 DEF ElectionInv, OneElected
  <2>1. n \in 1 .. MaxPhase
    BY <1>1, BarrierAssumption DEF PartyInv, BarrierType
  <2>2. chosen[n] = {} \/ \E p \in Procs : chosen[n] = {p}
    BY <1>1, <2>1 DEF ElectionInv
  <2>3. Cardinality({}) = 0 /\ \A p \in Procs : Cardinality({p}) = 1
    BY FS_EmptySet, FS_Singleton
  <2>4. QED
    BY <2>2, <2>3
<1>2. QED
  BY <1>1, InitParty, NextKeepsParty, NextKeepsElection, PTL DEF Spec
=============================================================================
