---------------------------- MODULE BatchDelivery ----------------------------
(***************************************************************************)
(* What a batching sink promises to a loader: rows accepted one by one are *)
(* grouped into batches; a batch reaches the table as a whole or not at    *)
(* all, at most once; and the verdict "ok" on a batch is given only when   *)
(* the whole batch is in the table.  A batch reported as failed may still  *)
(* be in the table, or reach it later: its outcome is unknown.             *)
(* This is the abstract specification that SQLSink implements.             *)
(***************************************************************************)
EXTENDS FiniteSets, Naturals

CONSTANTS Rows,          \* the rows a loader may write
          MaxBatchRows   \* a full batch

VARIABLES stored,    \* the rows the table holds
          buffered,  \* the batch being filled or delivered
          verdicts   \* the verdicts returned: a set of [rows, ok]

vars == <<stored, buffered, verdicts>>

Judged == UNION {v.rows : v \in verdicts}

Init == /\ stored = {}
        /\ buffered = {}
        /\ verdicts = {}

(* The loader hands over a row it has not handed over before. *)
Accept(r) == /\ r \notin buffered \cup Judged
             /\ Cardinality(buffered) < MaxBatchRows
             /\ buffered' = buffered \cup {r}
             /\ UNCHANGED <<stored, verdicts>>

(* A batch reaches the table: the current one or, late, a failed one. *)
Store(batch) == /\ batch \in {buffered} \cup {v.rows : v \in verdicts}
                /\ batch \cap stored = {}
                /\ stored' = stored \cup batch
                /\ UNCHANGED <<buffered, verdicts>>

Judge(ok) == /\ buffered # {}
             /\ ok => buffered \subseteq stored
             /\ verdicts' = verdicts \cup {[rows |-> buffered, ok |-> ok]}
             /\ buffered' = {}
             /\ UNCHANGED stored

Next == \/ \E r \in Rows : Accept(r)
        \/ \E batch \in {buffered} \cup {v.rows : v \in verdicts} : Store(batch)
        \/ \E ok \in BOOLEAN : Judge(ok)

Spec == Init /\ [][Next]_vars
=============================================================================
