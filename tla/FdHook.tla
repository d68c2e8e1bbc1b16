------------------------------- MODULE FdHook -------------------------------
(***************************************************************************)
(* The scanner that exec_simple_query (tcop/postgres.c) runs over a query  *)
(* string that begins with                                                 *)
(*      insert into FD_table values ('                                     *)
(* It picks the name of the dependency, the relation and the two column    *)
(* lists out of the string by counting characters, with no parser behind   *)
(* it, and hands them to add_trigger.  The format is the one of the        *)
(* comment there:                                                          *)
(*      'fd1','relName','{"Al","Bl"}','{"Cr","Dr"}');                      *)
(* The string starts here after the prefix, and i counts from 1.  Module   *)
(* Backend has what add_trigger then does to the transaction.              *)
(***************************************************************************)
EXTENDS Integers, Sequences, SequencesExt

CONSTANTS
    Words,      \* identifiers: non-empty sequences of characters
    MaxColumns  \* bound: columns on each side (100 in the code)

ASSUME ColumnAssumption == MaxColumns \in Nat \ {0}

VARIABLES
    declared,   \* history: the declaration the client wrote
    query,      \* its text
    pc,         \* the scanning loop: fd_id, relation, lhs, rhs; then add_trigger
    i,          \* the position in the text
    fd_id, relation,
    ptr,        \* the buffer that holds the columns of both lists
    flag,       \* inside a column name
    start_idx,  \* where in ptr that name starts
    lhs, rhs    \* where in ptr each column starts

vars == <<declared, query, pc, i, fd_id, relation, ptr, flag, start_idx, lhs, rhs>>

Quote == "'"
DQuote == "\""

-----------------------------------------------------------------------------
(* Declarations and their text.  Array literals allow a blank after commas. *)

ColumnLists == UNION {[1..n -> Words] : n \in 1..MaxColumns}

Declarations == [id : Words, rel : Words, lhs : ColumnLists, rhs : ColumnLists,
                 gap : {<< >>, <<" ">>}]

ArrayText(cols, gap) ==
    <<"{">> \o FlattenSeq([k \in 1..Len(cols) |->
                  (IF k = 1 THEN << >> ELSE <<",">> \o gap)
                      \o <<DQuote>> \o cols[k] \o <<DQuote>>]) \o <<"}">>

Text(d) == d.id \o <<Quote, ",", Quote>> \o d.rel \o <<Quote, ",", Quote>>
              \o ArrayText(d.lhs, d.gap) \o <<Quote, ",", Quote>>
              \o ArrayText(d.rhs, d.gap) \o <<Quote, ")", ";">>

Init ==
    /\ declared \in Declarations
    /\ query = Text(declared)
    /\ pc = "fd_id" /\ i = 1
    /\ fd_id = << >> /\ relation = << >> /\ ptr = << >>
    /\ flag = FALSE /\ start_idx = 0
    /\ lhs = << >> /\ rhs = << >>

-----------------------------------------------------------------------------
(* One turn of a scanning loop each.                                       *)

char == query[i]

ScanId ==
    /\ pc = "fd_id"
    /\ IF char = Quote THEN i' = i + 3 /\ pc' = "relation" /\ UNCHANGED fd_id
       ELSE fd_id' = Append(fd_id, char) /\ i' = i + 1 /\ UNCHANGED pc
    /\ UNCHANGED <<declared, query, relation, ptr, flag, start_idx, lhs, rhs>>

ScanRelation ==
    /\ pc = "relation"
    /\ IF char = Quote THEN i' = i + 4 /\ pc' = "lhs" /\ UNCHANGED relation
       ELSE relation' = Append(relation, char) /\ i' = i + 1 /\ UNCHANGED pc
    /\ UNCHANGED <<declared, query, fd_id, ptr, flag, start_idx, lhs, rhs>>

\* Mutant: the start of a name is not remembered anew.
OpenNameMutant ==
    /\ pc \in {"lhs", "rhs"} /\ char = DQuote /\ ~flag
    /\ flag' = TRUE
    /\ i' = i + 1
    /\ UNCHANGED <<declared, query, pc, fd_id, relation, ptr, start_idx, lhs, rhs>>

OpenName ==
    /\ pc \in {"lhs", "rhs"} /\ char = DQuote /\ ~flag
    /\ start_idx' = Len(ptr)
    /\ flag' = TRUE
    /\ i' = i + 1
    /\ UNCHANGED <<declared, query, pc, fd_id, relation, ptr, lhs, rhs>>

\* Mutant: a blank is left out, and never stepped over.
CopyCharMutant ==
    /\ pc \in {"lhs", "rhs"} /\ char # DQuote
    /\ IF char = " " THEN UNCHANGED <<i, ptr>> ELSE ptr' = Append(ptr, char) /\ i' = i + 1
    /\ UNCHANGED <<declared, query, pc, fd_id, relation, flag, start_idx, lhs, rhs>>

\* Other characters go to the buffer, in a name or not.
CopyChar ==
    /\ pc \in {"lhs", "rhs"} /\ char # DQuote
    /\ ptr' = Append(ptr, char)
    /\ i' = i + 1
    /\ UNCHANGED <<declared, query, pc, fd_id, relation, flag, start_idx, lhs, rhs>>

\* The closing double quote is followed by a comma, which is stepped over, or by
\* the brace that ends the list.
AfterName(brace) ==
    CASE ~brace                -> i' = i + 2 /\ UNCHANGED pc
      [] brace /\ pc = "lhs"   -> i' = i + 6 /\ pc' = "rhs"
      [] brace /\ pc = "rhs"   -> i' = i + 1 /\ pc' = "add_trigger"

CloseName ==
    /\ pc \in {"lhs", "rhs"} /\ char = DQuote /\ flag
    /\ ptr' = Append(ptr, "nul")
    /\ IF pc = "lhs" THEN lhs' = Append(lhs, start_idx) /\ UNCHANGED rhs
                     ELSE rhs' = Append(rhs, start_idx) /\ UNCHANGED lhs
    /\ flag' = FALSE
    /\ AfterName(query[i + 1] = "}")
    /\ UNCHANGED <<declared, query, fd_id, relation, start_idx>>

Scanned == pc = "add_trigger" /\ UNCHANGED vars

Next == ScanId \/ ScanRelation \/ OpenName \/ CopyChar \/ CloseName \/ Scanned

\* The loops are straight-line code of one process.
Spec == Init /\ [][Next]_vars /\ WF_vars(Next)

-----------------------------------------------------------------------------
(* Properties.                                                             *)

\* The C string that starts at offset o of the buffer.
NameAt(o) ==
    LET end == CHOOSE k \in (o + 1)..Len(ptr) :
                  ptr[k] = "nul" /\ \A j \in (o + 1)..(k - 1) : ptr[j] # "nul"
    IN  SubSeq(ptr, o + 1, end - 1)

\* add_trigger gets what the client declared: the name, the relation, and both
\* column lists in order, read back through the pointers into the shared buffer.
DeclarationRead ==
    pc = "add_trigger" =>
        /\ fd_id = declared.id
        /\ relation = declared.rel
        /\ [k \in 1..Len(lhs) |-> NameAt(lhs[k])] = declared.lhs
        /\ [k \in 1..Len(rhs) |-> NameAt(rhs[k])] = declared.rhs

\* The scan of a declaration in the documented format comes to its end.
ScanEnds == <>(pc = "add_trigger")
=============================================================================
