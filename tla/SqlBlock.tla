------------------------------ MODULE SqlBlock ------------------------------
(***************************************************************************)
(* What one session's transaction commands promise.  A transaction is a    *)
(* stack of row sets, one for the transaction itself and one for each open *)
(* savepoint or exception block.  Every command takes effect at once, and  *)
(* rows become durable all together or not at all.                         *)
(***************************************************************************)
EXTENDS Integers, Sequences

CONSTANTS Names, Rows

VARIABLES
    mode,      \* "idle"; "auto": no block; "block"; "committing" or
               \* "preparing": the block is being ended; "failed"
    txn,       \* the open frames, innermost last
    db,        \* durable rows
    prepared   \* row sets of prepared transactions

vars == <<mode, txn, db, prepared>>

Fresh(n) == [name |-> n, rows |-> {}]

top == txn[Len(txn)]

AllRows == UNION {txn[i].rows : i \in 1..Len(txn)}

\* The frames up to k, the k-th with rows r.
Cut(k, r) == [i \in 1..k |-> IF i = k THEN [txn[i] EXCEPT !.rows = r] ELSE txn[i]]

RowsFrom(k) == UNION {txn[i].rows : i \in k..Len(txn)}

\* k is the innermost frame named n.
Innermost(k, n) == /\ k \in 2..Len(txn)
                   /\ txn[k].name = n
                   /\ \A j \in (k + 1)..Len(txn) : txn[j].name # n

Usable == mode \in {"auto", "block", "committing", "preparing"}

Init == mode = "idle" /\ txn = << >> /\ db = {} /\ prepared = {}

\* A statement outside any block, or the transaction of AND CHAIN.
Begin ==
    /\ mode = "idle"
    /\ mode' \in {"auto", "block"}
    /\ txn' = <<Fresh("none")>>
    /\ UNCHANGED <<db, prepared>>

\* BEGIN; an implicit block keeps what it has done.
EnterBlock ==
    /\ mode = "auto"
    /\ mode' = "block"
    /\ UNCHANGED <<txn, db, prepared>>

Write(r) ==
    /\ Usable
    /\ r \notin AllRows \cup db \cup UNION prepared
    /\ txn' = Cut(Len(txn), top.rows \cup {r})
    /\ UNCHANGED <<mode, db, prepared>>

\* SAVEPOINT, and the start of an exception block.
Push(n) ==
    /\ Usable
    /\ n # "none" => mode = "block"
    /\ txn' = Append(txn, Fresh(n))
    /\ UNCHANGED <<mode, db, prepared>>

\* An exception block ends: its rows pass on, or are dropped.
Pop(keep) ==
    /\ Usable /\ Len(txn) > 1 /\ top.name = "none"
    /\ txn' = Cut(Len(txn) - 1,
                  IF keep THEN RowsFrom(Len(txn) - 1) ELSE txn[Len(txn) - 1].rows)
    /\ UNCHANGED <<mode, db, prepared>>

Release(n) ==
    /\ mode = "block"
    /\ \E k \in 2..Len(txn) : Innermost(k, n) /\ txn' = Cut(k - 1, RowsFrom(k - 1))
    /\ UNCHANGED <<mode, db, prepared>>

\* The one way out of a failed transaction that keeps anything.
RollbackTo(n) ==
    /\ mode \in {"block", "failed"}
    /\ \E k \in 2..Len(txn) : Innermost(k, n) /\ txn' = Cut(k, {})
    /\ mode' = "block"
    /\ UNCHANGED <<db, prepared>>

\* COMMIT or PREPARE of a block: the savepoints are gone.
EndBlock ==
    /\ mode \in {"auto", "block"}
    /\ mode' \in {"committing", "preparing"}
    /\ txn' = Cut(1, AllRows)
    /\ UNCHANGED <<db, prepared>>

\* Idle again, or on to the next transaction of a procedure.
Over ==
    \/ mode' = "idle" /\ txn' = << >>
    \/ mode = "auto" /\ mode' = "auto" /\ txn' = <<Fresh("none")>>

Commit ==
    /\ mode \in {"auto", "committing"}
    /\ Len(txn) = 1
    /\ db' = db \cup AllRows
    /\ Over
    /\ UNCHANGED prepared

Prepare ==
    /\ mode = "preparing"
    /\ Len(txn) = 1
    /\ prepared' = prepared \cup {AllRows}
    /\ mode' = "idle" /\ txn' = << >>
    /\ UNCHANGED db

\* ROLLBACK, COMMIT of a failed block, or the end of the session.
Rollback == Over /\ UNCHANGED <<db, prepared>>

\* An error nobody handles.  In a block the transaction stays, failed, without
\* the rows of its innermost frame; before that an exception block, or a savepoint
\* just being made, is gone altogether.
Fail ==
    /\ \/ /\ mode = "block"
          /\ mode' = "failed"
          /\ \/ txn' = Cut(Len(txn), {})
             \/ /\ Len(txn) > 1 /\ (top.name = "none" \/ top.rows = {})
                /\ txn' = Cut(Len(txn) - 1, {})
       \/ /\ mode \in {"auto", "committing", "preparing"}
          /\ mode' = "idle" /\ txn' = << >>
    /\ UNCHANGED <<db, prepared>>

\* COMMIT PREPARED or ROLLBACK PREPARED, outside any block.
FinishPrepared ==
    /\ mode = "auto" /\ AllRows = {}
    /\ \E p \in prepared : prepared' = prepared \ {p} /\ db' \in {db, db \cup p}
    /\ UNCHANGED <<mode, txn>>

Next ==
    \/ Begin \/ EnterBlock \/ EndBlock \/ Commit \/ Prepare \/ Rollback \/ Fail
    \/ FinishPrepared
    \/ \E r \in Rows : Write(r)
    \/ \E n \in Names \cup {"none"} : Push(n)
    \/ \E keep \in BOOLEAN : Pop(keep)
    \/ \E n \in Names : Release(n) \/ RollbackTo(n)

Spec == Init /\ [][Next]_vars
=============================================================================
