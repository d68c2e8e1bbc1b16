-------------------------- MODULE ConditionVariable --------------------------
(***************************************************************************)
(* Condition variables, storage/lmgr/condition_variable.c.  A call runs in *)
(* several steps: one critical section of the spinlock cv->mutex, or one   *)
(* access to a latch, each.  todo[p] lists the steps that remain of the    *)
(* call that p is in; it is empty when p is in none.                       *)
(***************************************************************************)
EXTENDS Naturals, Sequences, FiniteSets

CONSTANTS Procs,       \* processes
          CVs,         \* condition variables
          NULL         \* no condition variable

VARIABLES wakeup,      \* cv->wakeup: processes, in order
          target,      \* cv_sleep_target of each process
          latch,       \* procLatch.is_set of each process
          todo         \* steps that remain of the call of each process

cvVars == <<wakeup, target, latch, todo>>

CvInit ==
  /\ wakeup = [cv \in CVs |-> <<>>]
  /\ target = [p \in Procs |-> NULL]
  /\ latch = [p \in Procs |-> FALSE]
  /\ todo = [p \in Procs |-> <<>>]

Members(s) == {s[i] : i \in DOMAIN s}

Contains(cv, p) == p \in Members(wakeup[cv])

Without(s, p) == SelectSeq(s, LAMBDA q : q # p)

(* p goes on with the steps `more', before the ones it already has to do.  *)
Then(p, more) == todo' = [todo EXCEPT ![p] = more \o Tail(@)]

(* The current step of p's call.                                           *)
At(p, step) == todo[p] # <<>> /\ Head(todo[p])[1] = step

(* The list of cv loses p or gains it at its tail.                         *)
Off(cv, p) == wakeup' = [wakeup EXCEPT ![cv] = Without(@, p)]

On(cv, p) == wakeup' = [wakeup EXCEPT ![cv] = Append(@, p)]
-----------------------------------------------------------------------------
(* The calls, as the steps they consist of.                                *)
CancelSteps(p) == IF target[p] = NULL THEN <<>> ELSE <<<<"remove">>>>

PrepareSteps(p, cv) == CancelSteps(p) \o <<<<"push", cv>>>>

(* A sleep that was not prepared is only prepared, and returns.            *)
SleepSteps(p, cv) ==
  IF target[p] # cv THEN PrepareSteps(p, cv) ELSE <<<<"wait", cv>>>>

SignalSteps(cv) == <<<<"pop", cv>>>>

BroadcastSteps(p, cv) == CancelSteps(p) \o <<<<"broadcast", cv>>>>

(* p, which is in no call, begins one.                                     *)
Call(p, steps) ==
  /\ todo[p] = <<>>
  /\ todo' = [todo EXCEPT ![p] = steps]
  /\ UNCHANGED <<wakeup, target, latch>>
-----------------------------------------------------------------------------
ConditionVariablePrepareToSleep(p) ==
  /\ At(p, "push")
  /\ LET cv == Head(todo[p])[2] IN
     /\ target' = [target EXCEPT ![p] = cv]
     /\ On(cv, p)
  /\ Then(p, <<>>)
  /\ UNCHANGED latch

(* ConditionVariableTimedSleep without a timeout: WaitLatch and            *)
(* ResetLatch, then a look at the list.                                    *)
ConditionVariableSleep(p) ==
  \/ /\ At(p, "wait")
     /\ latch[p]
     /\ latch' = [latch EXCEPT ![p] = FALSE]
     /\ Then(p, <<<<"recheck", Head(todo[p])[2]>>>>)
     /\ UNCHANGED <<wakeup, target>>
  \/ /\ At(p, "recheck")
     /\ LET cv == Head(todo[p])[2] IN
        IF Contains(cv, p)
        THEN /\ Then(p, <<<<"interrupts", cv, FALSE>>>>)
             /\ UNCHANGED wakeup
        ELSE /\ On(cv, p)
             /\ Then(p, <<<<"interrupts", cv, TRUE>>>>)
     /\ UNCHANGED <<target, latch>>
  \/ /\ At(p, "interrupts")      \* and if (cv != cv_sleep_target) return
     /\ LET cv   == Head(todo[p])[2]
            done == Head(todo[p])[3]
        IN Then(p, IF done \/ target[p] # cv THEN <<>> ELSE <<<<"wait", cv>>>>)
     /\ UNCHANGED <<wakeup, target, latch>>

(* Somebody who is no longer in the list has been signaled, and passes the *)
(* signal on.                                                              *)
ConditionVariableCancelSleep(p) ==
  /\ At(p, "remove")
  /\ target' = [target EXCEPT ![p] = NULL]
  /\ Off(target[p], p)
  /\ Then(p, IF Contains(target[p], p) THEN <<>> ELSE SignalSteps(target[p]))
  /\ UNCHANGED latch

(* Pop the head of the list and wake it: one step, then SetLatch.          *)
ConditionVariableSignal(p) ==
  /\ At(p, "pop")
  /\ LET cv == Head(todo[p])[2] IN
     IF wakeup[cv] = <<>>
     THEN Then(p, <<>>) /\ UNCHANGED wakeup
     ELSE Off(cv, Head(wakeup[cv])) /\ Then(p, <<<<"set", Head(wakeup[cv])>>>>)
  /\ UNCHANGED <<target, latch>>

SetLatch(p) ==
  /\ At(p, "set")
  /\ latch' = [latch EXCEPT ![Head(todo[p])[2]] = TRUE]
  /\ Then(p, <<>>)
  /\ UNCHANGED <<wakeup, target>>

(* The broadcaster goes on as long as its own entry is in the list: those  *)
(* behind it came later.                                                   *)
BroadcastGoesOn(p, cv, rest) == p \in Members(rest)

Sentinel(p, rest) == IF rest = <<>> THEN rest ELSE Append(rest, p)

ConditionVariableBroadcast(p) ==
  \/ /\ At(p, "broadcast")
     /\ LET cv   == Head(todo[p])[2]
            list == wakeup[cv]
        IN \/ /\ list = <<>>
              /\ Then(p, <<>>)
              /\ UNCHANGED wakeup
           \/ /\ list # <<>>
              /\ wakeup' = [wakeup EXCEPT ![cv] = Sentinel(p, Tail(list))]
              /\ Then(p, <<<<"set", Head(list)>>>> \o
                         IF Len(list) > 1 THEN <<<<"drain", cv>>>> ELSE <<>>)
     /\ UNCHANGED <<target, latch>>
  \/ /\ At(p, "drain")
     /\ LET cv   == Head(todo[p])[2]
            list == wakeup[cv]
        IN \/ /\ list = <<>>
              /\ Then(p, <<>>)
              /\ UNCHANGED wakeup
           \/ /\ list # <<>>
              /\ Off(cv, Head(list))
              /\ Then(p, (IF Head(list) = p THEN <<>> ELSE <<<<"set", Head(list)>>>>)
                         \o IF BroadcastGoesOn(p, cv, Tail(list))
                            THEN <<<<"drain", cv>>>> ELSE <<>>)
     /\ UNCHANGED <<target, latch>>

CvStep(p) ==
  \/ ConditionVariablePrepareToSleep(p)
  \/ ConditionVariableSleep(p)
  \/ ConditionVariableCancelSleep(p)
  \/ ConditionVariableSignal(p)
  \/ ConditionVariableBroadcast(p)
  \/ SetLatch(p)
-----------------------------------------------------------------------------
Steps == {<<"remove">>} \union
         ({"push", "wait", "recheck", "pop", "broadcast", "drain"} \X CVs) \union
         ({"set"} \X Procs) \union ({"interrupts"} \X CVs \X BOOLEAN)

CvTypeOK ==
  /\ wakeup \in [CVs -> Seq(Procs)]
  /\ target \in [Procs -> CVs \union {NULL}]
  /\ latch \in [Procs -> BOOLEAN]
  /\ todo \in [Procs -> Seq(Steps)]
=============================================================================
