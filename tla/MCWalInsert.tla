---------------------------- MODULE MCWalInsert -----------------------------
(* A small instance of WalInsert: one backend commits asynchronously with  *)
(* a record that does not fit in a page, or switches the segment; the      *)
(* other commits synchronously.                                            *)
EXTENDS WalInsert

CONSTANTS b1, b2, w

OwnLock == [p \in Backends |-> IF p = b1 THEN 0 ELSE LastLock]
OneEach == [p \in Backends |-> 1]
EveryRecord == [p \in Backends |-> IF p = b1 THEN {<<"async", 5>>, <<"switch", 1>>}
                                   ELSE {<<"sync", 1>>}]
=============================================================================
