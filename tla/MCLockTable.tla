---------------------------- MODULE MCLockTable ----------------------------
(* A small instance of LockTable: three transactions of their own, or one  *)
(* beside a lock group of two, led by p3.                                  *)
EXTENDS LockTable

CONSTANTS p1, p2, p3, p4, l1, l2

OnePair == [p \in Procs |-> IF p = p4 THEN p3 ELSE p]
OneOrder == {<<p1, p2, p3, p4>>}
ThreeOrGroup == {p1 :> 2 @@ p2 :> 2 @@ p3 :> 1 @@ p4 :> 0,
                 p1 :> 2 @@ p2 :> 0 @@ p3 :> 1 @@ p4 :> 2}
=============================================================================
