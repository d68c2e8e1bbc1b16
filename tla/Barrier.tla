------------------------------- MODULE Barrier -------------------------------
(***************************************************************************)
(* Barriers, storage/ipc/barrier.c, above the condition variable they wait *)
(* on.  A step is one critical section of barrier->mutex, or a step of the *)
(* condition variable.  A process is back from a call when waiting[p] is   *)
(* false and it has nothing left to do in the condition variable.          *)
(***************************************************************************)
EXTENDS ConditionVariable

CONSTANTS CV,          \* barrier->condition_variable
          Droppers,    \* who calls BarrierArriveAndDetachExceptLast
          MaxPhase,    \* bound: phases
          MaxAttach    \* bound: how often one process attaches

ASSUME BarrierAssumption ==
  /\ CVs = {CV} /\ Droppers \subseteq Procs
  /\ IsFiniteSet(Procs) /\ MaxPhase \in Nat

VARIABLES participants, arrived, phase, elected, static_party,
          attached,    \* the processes that are attached
          waiting,     \* p is in the loop of BarrierArriveAndWait
          start_phase, \* of that call
          attaches,    \* how often p has attached
          came,        \* history: who arrived to wait for phase n
          chosen       \* history: whom BarrierArriveAndWait told it was elected

counts == <<participants, arrived, phase, elected>>
vars == <<cvVars, counts, static_party, attached, waiting, start_phase,
          attaches, came, chosen>>

(* BarrierInit, for a dynamic party, or a static one of all processes.     *)
Init ==
  /\ CvInit
  /\ static_party \in BOOLEAN
  /\ attached = IF static_party THEN Procs ELSE {}
  /\ participants = Cardinality(attached)
  /\ arrived = 0 /\ phase = 0 /\ elected = 0
  /\ waiting = [p \in Procs |-> FALSE]
  /\ start_phase = [p \in Procs |-> 0]
  /\ attaches = [p \in Procs |-> 0]
  /\ came = [n \in 1 .. MaxPhase |-> {}]
  /\ chosen = [n \in 1 .. MaxPhase |-> {}]

(* An attached process that is in no call.                                 *)
Ready(p) == p \in attached /\ ~waiting[p] /\ todo[p] = <<>>

Elect(p, n) == chosen' = [chosen EXCEPT ![n] = @ \union {p}]

(* A bug that would go on counting those who arrived for the last phase.   *)
NextPhaseMutant == phase' = phase + 1 /\ arrived' = arrived + 1

NextPhase == phase' = phase + 1 /\ arrived' = 0
-----------------------------------------------------------------------------
BarrierAttach(p) ==
  /\ ~static_party
  /\ p \notin attached /\ todo[p] = <<>>
  /\ attaches[p] < MaxAttach
  /\ participants' = participants + 1
  /\ attached' = attached \union {p}
  /\ attaches' = [attaches EXCEPT ![p] = @ + 1]
  /\ UNCHANGED <<cvVars, arrived, phase, elected, static_party, waiting,
                 start_phase, came, chosen>>

(* The last to arrive releases the others and is elected; the others wait. *)
BarrierArriveAndWait(p) ==
  /\ Ready(p)
  /\ phase < MaxPhase
  /\ came' = [came EXCEPT ![phase + 1] = @ \union {p}]
  /\ \/ /\ arrived + 1 = participants
        /\ NextPhase
        /\ elected' = phase + 1
        /\ Elect(p, phase + 1)
        /\ Call(p, BroadcastSteps(p, CV))
        /\ UNCHANGED <<waiting, start_phase>>
     \/ /\ arrived + 1 # participants
        /\ arrived' = arrived + 1
        /\ waiting' = [waiting EXCEPT ![p] = TRUE]
        /\ start_phase' = [start_phase EXCEPT ![p] = phase]
        /\ Call(p, PrepareSteps(p, CV))
        /\ UNCHANGED <<phase, elected, chosen>>
  /\ UNCHANGED <<participants, static_party, attached, attaches>>

(* A bug that would make every waiter the elected one.                     *)
ElectMyselfMutant(next_phase) == TRUE

(* Whether nobody has been elected for the phase yet.                      *)
ElectMyself(next_phase) == elected # next_phase

(* The loop: look at the phase, and sleep if it has not advanced.          *)
CheckPhase(p) ==
  LET next_phase == start_phase[p] + 1
      release    == phase = next_phase
  IN /\ waiting[p]
     /\ \/ /\ release
           /\ waiting' = [waiting EXCEPT ![p] = FALSE]
           /\ IF ElectMyself(next_phase)
              THEN elected' = phase /\ Elect(p, phase)
              ELSE UNCHANGED <<elected, chosen>>
           /\ Call(p, CancelSteps(p))
        \/ /\ ~release
           /\ Call(p, SleepSteps(p, CV))
           /\ UNCHANGED <<waiting, elected, chosen>>
     /\ UNCHANGED <<participants, arrived, phase, static_party, attached,
                    start_phase, attaches, came>>

(* A bug that would count those who arrived before the participant is gone.*)
ReleasesMutant(arrive) == (arrive \/ participants > 1) /\ arrived = participants

(* A bug that would let the phase advance at any arrival that detaches.    *)
ReleasesMutant2(arrive) == arrive \/ arrived = participants - 1

(* Whether the process that detaches is the last one waited for.           *)
Releases(arrive) ==
  /\ arrive \/ participants > 1
  /\ arrived = participants - 1

BarrierDetachImpl(p, arrive) ==
  /\ ~static_party
  /\ Ready(p)
  /\ participants' = participants - 1
  /\ attached' = attached \ {p}
  /\ \/ /\ Releases(arrive)
        /\ phase < MaxPhase
        /\ NextPhase
        /\ Call(p, BroadcastSteps(p, CV))
     \/ /\ ~Releases(arrive)
        /\ UNCHANGED <<cvVars, arrived, phase>>
  /\ UNCHANGED <<elected, static_party, waiting, start_phase, attaches, came,
                 chosen>>

BarrierDetach(p) == BarrierDetachImpl(p, FALSE)

BarrierArriveAndDetach(p) == BarrierDetachImpl(p, TRUE)

(* All but the last one detach.  It looks neither at arrived nor at the    *)
(* kind of party, and releases nobody: those who wait already are left to  *)
(* wait for whoever attaches next.  No code of src/ calls it.              *)
BarrierArriveAndDetachExceptLast(p) ==
  /\ p \in Droppers /\ Ready(p)
  /\ \/ /\ participants > 1
        /\ participants' = participants - 1
        /\ attached' = attached \ {p}
        /\ UNCHANGED phase
     \/ /\ participants = 1
        /\ phase < MaxPhase
        /\ phase' = phase + 1
        /\ UNCHANGED <<participants, attached>>
  /\ UNCHANGED <<cvVars, arrived, elected, static_party, waiting, start_phase,
                 attaches, came, chosen>>
-----------------------------------------------------------------------------
TakePart(p) == BarrierArriveAndWait(p) \/ BarrierDetach(p) \/ BarrierArriveAndDetach(p)

Sleeping(p) ==
  /\ CvStep(p)
  /\ UNCHANGED <<counts, static_party, attached, waiting, start_phase, attaches,
                 came, chosen>>

Next == \E p \in Procs :
  \/ BarrierAttach(p) \/ TakePart(p) \/ BarrierArriveAndDetachExceptLast(p)
  \/ CheckPhase(p) \/ Sleeping(p)

Spec == Init /\ [][Next]_vars
-----------------------------------------------------------------------------
(* Every variable has its type.                                            *)
TypeOK ==
  /\ CvTypeOK
  /\ participants \in 0 .. Cardinality(Procs)
  /\ arrived \in 0 .. Cardinality(Procs)
  /\ {phase, elected} \subseteq 0 .. MaxPhase
  /\ static_party \in BOOLEAN
  /\ attached \subseteq Procs
  /\ waiting \in [Procs -> BOOLEAN]
  /\ start_phase \in [Procs -> 0 .. MaxPhase]
  /\ attaches \in [Procs -> 0 .. MaxAttach]
  /\ {came, chosen} \subseteq [1 .. MaxPhase -> SUBSET Procs]

(* A waiter finds the phase it arrived in or the next one, never a later   *)
(* one: the assertion at barrier.c:174 holds, because the phase cannot     *)
(* advance again without the waiters of the last one.                      *)
PhaseIsNear ==
  \A p \in Procs : waiting[p] => phase \in {start_phase[p], start_phase[p] + 1}

(* The counters agree with who is attached and who is waiting for the next *)
(* phase, whatever mix of arriving, attaching and detaching they come from.*)
CountsAreTrue ==
  /\ participants = Cardinality(attached)
  /\ arrived = Cardinality({p \in Procs : waiting[p] /\ start_phase[p] = phase})

(* "Return true in one arbitrarily chosen participant" (barrier.c:120):    *)
(* never in two, and when the last waiter of a phase has left, in one,     *)
(* also when the phase advanced because somebody detached.                 *)
OneElected ==
  \A n \in 1 .. phase :
    /\ Cardinality(chosen[n]) <= 1
    /\ came[n] # {} /\ (\A p \in Procs : waiting[p] => start_phase[p] # n - 1)
         => chosen[n] # {}

(* Every participant has arrived and waits, with nobody left to expect.    *)
Stranded == arrived > 0 /\ arrived = participants

(* The phase advances by one, and only when every participant but the one  *)
(* who makes it advance waits for that; and no step makes the participants *)
(* wait for nobody, with the one exception of                              *)
(* BarrierArriveAndDetachExceptLast while somebody waits (barrier.c:216).  *)
NobodyLeftBehind ==
  [][/\ phase' # phase =>
          /\ phase' = phase + 1
          /\ \E p \in Procs : \A q \in attached \ {p} :
               waiting[q] /\ start_phase[q] = phase
     /\ Stranded' /\ ~Stranded =>
          \E p \in Droppers : BarrierArriveAndDetachExceptLast(p)]_vars

=============================================================================
