------------------------------ MODULE DeadLock ------------------------------
(***************************************************************************)
(* The deadlock detector, storage/lmgr/deadlock.c, as operators on a       *)
(* configuration of the lock table:                                        *)
(*   held  : which modes of a lock a process holds                         *)
(*   queue : who waits for a lock, in order                                *)
(*   want  : the lock and the mode a process waits for, or NULL            *)
(*   order : the order in which PROCLOCKs and group members are listed     *)
(* A process that belongs to a lock group has its leader; all others lead  *)
(* themselves.  What is only for the report, and the look for autovacuum   *)
(* workers, is left out.                                                   *)
(***************************************************************************)
EXTENDS Naturals, Sequences, SequencesExt, FiniteSetsExt

CONSTANTS Procs, Locks, NULL,
          LockGroupLeader     \* the leader of each process's lock group

MaxBackends == Cardinality(Procs)
maxCurConstraints == MaxBackends
maxPossibleConstraints == MaxBackends * 4

(* LockConflicts: the table of lock.c.                                     *)
AllModes == <<"AccessShare", "RowShare", "RowExclusive", "ShareUpdateExclusive",
              "Share", "ShareRowExclusive", "Exclusive", "AccessExclusive">>
Strongest(n) == ToSet(SubSeq(AllModes, n, 8))
LockConflicts ==
  [AccessShare          |-> Strongest(8),
   RowShare             |-> Strongest(7),
   RowExclusive         |-> Strongest(5),
   ShareUpdateExclusive |-> Strongest(4),
   Share                |-> Strongest(3) \ {"Share"},
   ShareRowExclusive    |-> Strongest(3),
   Exclusive            |-> Strongest(2),
   AccessExclusive      |-> Strongest(1)]

Conflict(mode, modes) == LockConflicts[mode] \intersect modes # {}

Group(p) == {q \in Procs : LockGroupLeader[q] = LockGroupLeader[p]}
Members(c, p) ==
  <<LockGroupLeader[p]>>
  \o SelectSeq(c.order, LAMBDA q : q \in Group(p) \ {LockGroupLeader[p]})
-----------------------------------------------------------------------------
(* The edges of the waits-for graph that leave a waiting process p: to     *)
(* holders first, then to those in front of it in the queue.  A proposed   *)
(* order of the queue counts in place of the true one.                     *)
EdgesTo(c, p, qs, soft) ==
  [i \in DOMAIN qs |-> [to |-> qs[i], soft |-> soft, waiter |-> LockGroupLeader[p],
                        blocker |-> LockGroupLeader[qs[i]], lock |-> c.want[p].lock]]

HardBlockers(c, p) ==
  LET l == c.want[p].lock IN
  SelectSeq(c.order, LAMBDA q : q \notin Group(p) /\ Conflict(c.want[p].mode, c.held[l][q]))

AheadMutant(c, orders, p) == <<>>
Ahead(c, orders, p) ==
  LET l     == c.want[p].lock
      new   == l \in DOMAIN orders
      order == IF new THEN orders[l] ELSE c.queue[l]
      mine  == {i \in DOMAIN order : order[i] \in Group(p)}
  IN SubSeq(order, 1, (IF new THEN Min(mine) ELSE Max(mine)) - 1)

SoftBlockers(c, orders, p) ==
  SelectSeq(Ahead(c, orders, p),
            LAMBDA q : q \notin Group(p) /\ Conflict(c.want[p].mode, {c.want[q].mode}))

EdgesOf(c, orders, p) ==
  IF c.want[p] = NULL THEN <<>>
  ELSE EdgesTo(c, p, HardBlockers(c, p), FALSE) \o EdgesTo(c, p, SoftBlockers(c, orders, p), TRUE)

(* A process looked at before ends the way: in a cycle if it is the first  *)
(* of those visited.                                                       *)
ClosesCycleMutant(leader, visited) == TRUE
ClosesCycle(leader, visited) == leader = visited[1]

(* FindLockCycleRecurse: is there a way back to the first of those         *)
(* visited?  Who was seen on the way is not looked at again.  The soft     *)
(* edges of the cycle are collected on the way back.                       *)
FindLockCycle(c, orders, p) ==
  LET Recurse[q \in Procs, visited \in Seq(Procs)] ==
        LET leader  == LockGroupLeader[q]
            members == Members(c, q)
            Member(r, e) ==      \* FindLockCycleRecurseMember: one edge
              LET deeper == Recurse[e.to, r.visited] IN
              IF r.found THEN r
              ELSE IF deeper.found /\ e.soft THEN [deeper EXCEPT !.soft = Append(@, e)]
              ELSE deeper
        IN IF leader \in ToSet(visited)
           THEN [found |-> ClosesCycle(leader, visited), soft |-> <<>>, visited |-> visited]
           ELSE FoldLeft(Member, [found |-> FALSE, soft |-> <<>>, visited |-> Append(visited, leader)],
                  FlattenSeq([i \in DOMAIN members |-> EdgesOf(c, orders, members[i])]))
  IN Recurse[p, <<>>]
-----------------------------------------------------------------------------
(* TopoSort: a queue in which, for every constraint whose two groups both  *)
(* wait here, the waiter's group stands before the blocker's; otherwise    *)
(* from the back, in the present order, a group all at once (and the other *)
(* way round).  NULL if the constraints contradict each other.             *)
LastOf(queue, leader) ==
  Max({i \in DOMAIN queue : LockGroupLeader[queue[i]] = leader})

TopoSort(queue, constraints) ==
  LET waits(leader) == \E i \in DOMAIN queue : LockGroupLeader[queue[i]] = leader
      grp(i) == LockGroupLeader[queue[i]]
      Named == {e.waiter : e \in constraints}
               \union {e.blocker : e \in {f \in constraints : waits(f.waiter)}}
      Free(i, rest) == /\ grp(i) \in Named => i = LastOf(queue, grp(i))
                       /\ \A e \in constraints :
                            e.waiter = grp(i) /\ waits(e.blocker)
                              => LastOf(queue, e.blocker) \notin rest
      Emit[rest \in SUBSET DOMAIN queue] ==
        LET free == {i \in rest : Free(i, rest)}
            with == {i \in rest : grp(i) = grp(Max(free))}
            more == Emit[rest \ with]
        IN IF rest = {} THEN <<>>
           ELSE IF free = {} \/ more = NULL THEN NULL
           ELSE more \o [n \in 1..Cardinality(with) |->
                           queue[Reverse(SetToSortSeq(with, <))[n]]]
  IN Emit[DOMAIN queue]

(* ExpandConstraints: an order for each lock a constraint names, from the  *)
(* constraints up to the last that names it.                               *)
ExpandConstraints(c, constraints) ==
  [l \in {e.lock : e \in ToSet(constraints)} |->
     TopoSort(c.queue[l], ToSet(
       SubSeq(constraints, 1, Max({i \in DOMAIN constraints : constraints[i].lock = l}))))]

CyclesFrom(c, orders, starts) ==
  SelectSeq([i \in DOMAIN starts |-> FindLockCycle(c, orders, starts[i])], LAMBDA r : r.found)

Judged(bad, cycles) ==
  [good  |-> ~bad,
   edges |-> IF bad \/ cycles = <<>> THEN <<>> ELSE cycles[Len(cycles)].soft]

(* TestConfiguration: bad if it contradicts itself or has a cycle of hard  *)
(* edges only; or the soft edges of the last cycle found, none if there is *)
(* none.  nPossible is how much of possibleConstraints is in use.          *)
TestConfiguration(c, p, constraints, nPossible) ==
  LET starts == FlattenSeq([i \in DOMAIN constraints |->
                  <<constraints[i].waiter, constraints[i].blocker>>]) \o <<p>>
      Judge(orders, cycles) ==
        Judged(\/ nPossible + MaxBackends > maxPossibleConstraints
               \/ \E l \in DOMAIN orders : orders[l] = NULL
               \/ \E i \in DOMAIN cycles : cycles[i].soft = <<>>, cycles)
      Test(orders) == Judge(orders, CyclesFrom(c, orders, starts))
  IN Test(ExpandConstraints(c, constraints))

(* DeadLockCheckRecurse: the constraints of the first good configuration   *)
(* found by turning one soft edge after the other; NULL if there is none.  *)
Edges == [to : Procs, soft : BOOLEAN, waiter : Procs, blocker : Procs, lock : Locks]

DeadLockCheckRecurse(c, p) ==
  LET Recurse[constraints \in Seq(Edges), nPossible \in Nat] ==
        LET kept(n) == IF n + MaxBackends <= maxPossibleConstraints THEN n ELSE nPossible
            Turn(edges) ==
              FoldLeft(LAMBDA r, e : IF r # NULL THEN r
                         ELSE Recurse[Append(constraints, e), kept(nPossible + Len(edges))],
                       NULL, edges)
            Tested(t) ==
              IF ~t.good THEN NULL
              ELSE IF t.edges = <<>> THEN constraints
              ELSE IF Len(constraints) >= maxCurConstraints THEN NULL
              ELSE Turn(t.edges)
        IN Tested(TestConfiguration(c, p, constraints, nPossible))
  IN Recurse[<<>>, 0]

(* DeadLockCheck, up to the change of the queues: HARD, or the new orders. *)
DeadLockCheck(c, p) ==
  LET Verdict(r) ==
        IF r = NULL THEN [state |-> "DS_HARD_DEADLOCK", orders |-> <<>>]
        ELSE IF r = <<>> THEN [state |-> "DS_NO_DEADLOCK", orders |-> <<>>]
        ELSE [state |-> "DS_SOFT_DEADLOCK", orders |-> ExpandConstraints(c, r)]
  IN Verdict(DeadLockCheckRecurse(c, p))
=============================================================================
