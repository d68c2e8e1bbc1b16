----------------------------- MODULE MCFastPath -----------------------------
(* A small instance of FastPath: two backends, the first of which may      *)
(* prepare its transaction (d1 is then the dummy process).                 *)
EXTENDS FastPath

CONSTANTS p1, p2, d1, l1, l2

Alone == [p \in Procs |-> p]
OneOrder == {allProcs \o SetToSeq(Procs \ Backends)}
Two == <<p1, p2>>
FirstPrepares == p1 :> d1
OnePartition == [l \in Locks |-> 0]
TwoTwo == {[p \in Procs |-> IF p \in Backends THEN 2 ELSE 0]}

(* Either takes weak and strong locks; the second also looks for the       *)
(* transactions that conflict with a lock on the first relation.           *)
BothWays == p1 :> {<<l1, "RowExclusive">>, <<l1, "AccessExclusive">>, <<l2, "RowExclusive">>}
            @@ p2 :> {<<l1, "RowExclusive">>, <<l1, "Share">>, <<l2, "Share">>}
SecondScans == p1 :> {} @@ p2 :> {<<l1, "Share">>}
=============================================================================
