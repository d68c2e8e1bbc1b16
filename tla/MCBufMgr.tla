------------------------------ MODULE MCBufMgr ------------------------------
(***************************************************************************)
(* A small instance of BufMgr.                                             *)
(***************************************************************************)
EXTENDS BufMgr

CONSTANTS b1, b2, t1, t2, p1, p2, ckpt, dropper

\* Pages in partitions of their own, so that two mapping locks are taken.
Apart == (t1 :> 0) @@ (t2 :> 1)

\* One page has been read in, the other buffer is free.
OnePage == (b1 :> t1) @@ (b2 :> NULL)
=============================================================================
