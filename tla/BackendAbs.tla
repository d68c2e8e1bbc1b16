----------------------------- MODULE BackendAbs -----------------------------
(***************************************************************************)
(* The backend implements SqlBlock.  A transaction command takes effect    *)
(* for the client when it marks the stack, long before CommitTransaction-  *)
(* Command acts on the marks, and an error takes effect when it reaches    *)
(* PostgresMain, before AbortCurrentTransaction has unwound anything.      *)
(***************************************************************************)
EXTENDS Backend

\* Entries that RELEASE, COMMIT, ROLLBACK or ROLLBACK TO has marked to go.
Merged  == {"SUBRELEASE", "SUBCOMMIT"}
Dropped == {"SUBABORT_PENDING", "SUBABORT_END"}

\* Entries that AbortCurrentTransaction drops on its way up.
Unwound == Merged \cup Dropped \cup {"SUBBEGIN", "SUBRESTART", "SUBABORT_RESTART"}

\* The innermost entry not marked with one of gone.
Innermost(gone) ==
    CHOOSE k \in 1..level : /\ blockState[k] \notin gone
                            /\ \A i \in (k + 1)..level : blockState[i] \in gone

aimed == Innermost(IF pc = "error" THEN Unwound ELSE Merged \cup Dropped)

MergedRows == UNION {frame[i].work : i \in {j \in aimed..level : blockState[j] \in Merged}}

absMode ==
    CASE blockState[1] \in {"DEFAULT", "ABORT_PENDING", "ABORT_END"} -> "idle"
      [] blockState[1] = "INPROGRESS" /\ pc = "error" -> "failed"
      [] blockState[1] = "ABORT" \/ blockState[aimed] = "SUBABORT" -> "failed"
      [] pc = "error" -> "idle"
      [] blockState[1] = "INPROGRESS" -> "block"
      [] blockState[1] = "END" -> "committing"
      [] blockState[1] = "PREPARE" -> "preparing"
      [] OTHER -> "auto"

absRows(i) ==
    IF i < aimed THEN frame[i].work
    ELSE IF pc = "error" \/ blockState[i] \in {"SUBRESTART", "SUBABORT_RESTART"} THEN {}
    ELSE frame[i].work \cup MergedRows

absTxn == IF absMode = "idle" THEN << >>
          ELSE [i \in 1..aimed |-> [name |-> frame[i].name, rows |-> absRows(i)]]

Abs == INSTANCE SqlBlock WITH mode <- absMode, txn <- absTxn

\* The backend does what SqlBlock promises, step by step: whatever the order of
\* marks, errors, retried commits and exception blocks, a client sees atomic
\* commits, atomic rollbacks, savepoints that keep exactly what came before them,
\* and no way out of a failed block but a rollback.
ImplementsSqlBlock == Abs!Spec
=============================================================================
