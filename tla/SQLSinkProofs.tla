---------------------------- MODULE SQLSinkProofs ----------------------------
(***************************************************************************)
(* What SQLSink guarantees for every set of rows, batch size and number of *)
(* retries, when the table has a key and prepare starts from empty tables. *)
(***************************************************************************)
EXTENDS SQLSink, FiniteSetTheorems, TLAPS

(* The table holds all of the rows, none of them; a set of rows is whole if either. *)
AllIn(rows) == \A r \in rows : table[r] > 0
NoneIn(rows) == \A r \in rows : table[r] = 0
Whole(rows) == AllIn(rows) \/ NoneIn(rows)

(* A call of Flush is in progress exactly while there is a batch to deliver. *)
ControlInv ==
  /\ pc # "idle" => buf # {}
  /\ pc = "exec" <=> request # "none"
  /\ pc = "idle" => attempt = 0 /\ unknown = FALSE

(* The batches are disjoint, and an orphan is an attempt of one of them. *)
BatchInv ==
  /\ buf \cap Reported = {}
  /\ \A s, t \in results : s.rows \cap t.rows # {} => s = t
  /\ \A o \in orphans : o.rows = buf \/ \E res \in results : res.rows = o.rows
  /\ \A o \in orphans : o.rows # {}

(* Batches are atomic, rows are stored once, and only rows that were sent. *)
TableInv ==
  /\ StoredOnce
  /\ Whole(buf)
  /\ \A res \in results : Whole(res.rows)
  /\ \A r \in Rows \ (buf \cup Reported) : table[r] = 0

(* What the sink may conclude from an answer and from outcomeUnknown. *)
OutcomeInv ==
  /\ request \in {"committed", "duplicate"} => AllIn(buf)
  /\ ~unknown /\ request # "committed" => /\ NoneIn(buf)
                                         /\ \A o \in orphans : o.rows # buf
  /\ \A res \in results : res.outcome = "ok" => AllIn(res.rows)
  /\ \A res \in results : res.outcome # "duplicateKey"

(* Between calls the buffer is short of a full batch: WriteRow flushes a full one. *)
RoomInv == /\ IsFiniteSet(buf)
           /\ pc = "idle" => Cardinality(buf) < MaxBatchRows

IInv == TypeOK /\ ControlInv /\ RoomInv /\ BatchInv /\ TableInv /\ OutcomeInv
------------------------------------------------------------------------------

(* What Flush returns is a result, and the attempt it gives up on an orphan. *)
LEMMA ReturnType == ASSUME TypeOK, NEW outcome \in Outcomes
                    PROVE  [rows |-> buf, outcome |-> outcome] \in Results
BY DEF TypeOK, Results

LEMMA OrphanType == ASSUME TypeOK
                    PROVE  [rows |-> buf, attempt |-> attempt] \in Attempts
BY DEF TypeOK, AttemptOK, Attempts

(* An error either ends the flush with a result or leads to the next attempt. *)
LEMMA HandleErrorEffect ==
  ASSUME NEW kind, HandleError(kind)
  PROVE  \/ \E outcome \in {"cancelled", "nonRetryable", "retryLimit"} : Return(outcome)
         \/ /\ attempt # RetryCount
            /\ unknown' = (unknown \/ classifyFailure(kind) = "retryOutcomeUnknown")
            /\ pc' = "sleep"
            /\ request' = "none"
            /\ UNCHANGED <<buf, attempt, results>>
BY DEF HandleError

(* Returning from Flush keeps the types of everything it touches. *)
LEMMA ReturnTypeOK ==
  ASSUME TypeOK, NEW outcome \in Outcomes, Return(outcome)
  PROVE  /\ buf' \subseteq Rows /\ pc' \in {"idle", "exec", "sleep"}
         /\ AttemptOK'
         /\ request' \in {"none", "sent", "committed", "duplicate", "refused"}
         /\ unknown' \in BOOLEAN
         /\ results' \subseteq Results
<1>1. AttemptOK'
  BY SinkAssumption DEF Return, AttemptOK, SinkAssumption
<1>2. QED
  BY <1>1, ReturnType DEF Return, TypeOK

LEMMA TypeInit == Init => TypeOK
<1> SUFFICES ASSUME Init  PROVE TypeOK
  OBVIOUS
<1>1. table \in [Rows -> Nat]
  BY DEF Init
<1>2. buf \subseteq Rows /\ orphans \subseteq Attempts /\ results \subseteq Results
  BY DEF Init
<1>3. AttemptOK
  BY SinkAssumption DEF Init, AttemptOK, SinkAssumption
<1>4. QED
  BY <1>1, <1>2, <1>3 DEF Init, TypeOK

LEMMA TypeStep == TypeOK /\ [Next]_vars => TypeOK'
<1> SUFFICES ASSUME TypeOK, [Next]_vars
             PROVE  TypeOK'
  OBVIOUS
<1> USE DEF TypeOK
<1>0. {"ok", "duplicateKey", "cancelled", "nonRetryable", "retryLimit"} \subseteq Outcomes
  BY DEF Outcomes
<1>a. Start \/ UNCHANGED <<pc, attempt>> => AttemptOK'
  BY SinkAssumption DEF Start, AttemptOK, SinkAssumption
<1>1. ASSUME NEW r \in Rows, WriteRow(r)  PROVE TypeOK'
  <2>1. buf' \subseteq Rows
    BY <1>1 DEF WriteRow
  <2>2. CASE Start
    BY <1>1, <1>a, <2>1, <2>2 DEF WriteRow, Start
  <2>3. CASE UNCHANGED <<pc, attempt, request, unknown>>
    BY <1>1, <1>a, <2>1, <2>3 DEF WriteRow
  <2>4. QED
    BY <1>1, <2>2, <2>3 DEF WriteRow
<1>2. CASE Flush
  BY <1>2, <1>a DEF Flush, Start
<1>3. CASE ExecSucceeded
  BY <1>0, <1>3, ReturnTypeOK DEF ExecSucceeded
<1>4. CASE ExecDuplicate
  BY <1>0, <1>4, ReturnTypeOK DEF ExecDuplicate
<1>5. ASSUME NEW kind, HandleError(kind)
      PROVE  /\ buf' \subseteq Rows /\ pc' \in {"idle", "exec", "sleep"}
             /\ AttemptOK'
             /\ request' \in {"none", "sent", "committed", "duplicate", "refused"}
             /\ unknown' \in BOOLEAN
             /\ results' \subseteq Results
  <2>1. CASE \E outcome \in {"cancelled", "nonRetryable", "retryLimit"} : Return(outcome)
    BY <1>0, <2>1, ReturnTypeOK
  <2>2. CASE /\ attempt # RetryCount
             /\ unknown' = (unknown \/ classifyFailure(kind) = "retryOutcomeUnknown")
             /\ pc' = "sleep"
             /\ request' = "none"
             /\ UNCHANGED <<buf, attempt, results>>
    <3>1. AttemptOK'
      BY <2>2, SinkAssumption DEF AttemptOK, SinkAssumption
    <3>2. QED
      BY <2>2, <3>1
  <2>3. QED
    BY <1>5, <2>1, <2>2, HandleErrorEffect
<1>6. ASSUME NEW kind \in ServerRefusals, ExecRefused(kind)  PROVE TypeOK'
  BY <1>5, <1>6 DEF ExecRefused
<1>7. ASSUME NEW kind \in Interruptions, ExecInterrupted(kind)  PROVE TypeOK'
  BY <1>5, <1>7, OrphanType DEF ExecInterrupted
<1>8. CASE SleepOver
  <2>1. AttemptOK'
    BY <1>8, SinkAssumption DEF SleepOver, AttemptOK, SinkAssumption
  <2>2. QED
    BY <1>8, <2>1 DEF SleepOver
<1>9. CASE SleepCancelled
  BY <1>0, <1>9, ReturnTypeOK DEF SleepCancelled
<1>10. ASSUME NEW rows, Insert(rows)  PROVE table' \in [Rows -> Nat]
  BY <1>10 DEF Insert
<1>11. CASE ServerCommit
  BY <1>10, <1>11, <1>a DEF ServerCommit
<1>12. CASE ServerDuplicate \/ ServerRefuse
  BY <1>12, <1>a DEF ServerDuplicate, ServerRefuse
<1>13. ASSUME NEW o \in orphans, OrphanCommit(o) \/ OrphanAbort(o)  PROVE TypeOK'
  BY <1>10, <1>13, <1>a DEF OrphanCommit, OrphanAbort
<1>14. CASE CtxCancel \/ Finished \/ UNCHANGED vars
  BY <1>14, <1>a DEF CtxCancel, Finished, vars
<1>15. QED
  BY <1>1, <1>2, <1>3, <1>4, <1>6, <1>7, <1>8, <1>9, <1>11, <1>12, <1>13, <1>14
     DEF Next, Sink, Server

(* Type correctness, for every value of the constants.  Flush's return and    *)
(* the start of an attempt are the only places that touch the locals.         *)
THEOREM TypeCorrect == Spec => []TypeOK
BY TypeInit, TypeStep, PTL DEF Spec

------------------------------------------------------------------------------

(* The rows of the batches judged so far. *)
LEMMA ReportedRows == ASSUME NEW r
                      PROVE  r \in Reported <=> \E res \in results : r \in res.rows
BY DEF Reported

LEMMA ReturnReported ==
  ASSUME NEW outcome, Return(outcome)
  PROVE  Reported' = Reported \cup buf
<1> DEFINE new == [rows |-> buf, outcome |-> outcome]
<1>1. results' = results \cup {new} /\ new.rows = buf
  BY DEF Return
<1> HIDE DEF new
<1>2. ASSUME NEW r  PROVE r \in Reported' <=> \E res \in results' : r \in res.rows
  BY DEF Reported
<1>3. ASSUME NEW r  PROVE r \in Reported' <=> r \in Reported \cup buf
  BY <1>1, <1>2, ReportedRows
<1>4. QED
  BY <1>3

(* A flush that returns a verdict other than "duplicateKey", and "ok" only   *)
(* for a stored batch, preserves the invariant, whatever attempts it orphans. *)
LEMMA ReturnInv ==
  ASSUME IInv, TypeOK', NEW outcome \in Outcomes, Return(outcome), outcome # "duplicateKey",
         buf # {}, UNCHANGED table,
         \A o \in orphans' : o \in orphans \/ o.rows = buf,
         outcome = "ok" => AllIn(buf)
  PROVE  IInv'
<1> DEFINE new == [rows |-> buf, outcome |-> outcome]
<1>1. results' = results \cup {new} /\ buf' = {} /\ pc' = "idle" /\ request' = "none"
      /\ attempt' = 0 /\ unknown' = FALSE /\ new.rows = buf /\ new.outcome = outcome
  BY DEF Return
<1> HIDE DEF new
<1>2. ControlInv'
  BY <1>1 DEF ControlInv
<1>3. BatchInv'
  <2>1. \A s, t \in results' : s.rows \cap t.rows # {} => s = t
    <3> SUFFICES ASSUME NEW s \in results', NEW t \in results', NEW r \in s.rows \cap t.rows
                 PROVE  s = t
      OBVIOUS
    <3>1. CASE s = new /\ t = new
      BY <3>1
    <3>2. CASE s = new /\ t \in results
      BY <1>1, <3>2, ReportedRows DEF IInv, BatchInv
    <3>3. CASE s \in results /\ t = new
      BY <1>1, <3>3, ReportedRows DEF IInv, BatchInv
    <3>4. CASE s \in results /\ t \in results
      BY <3>4 DEF IInv, BatchInv
    <3>5. QED
      BY <1>1, <3>1, <3>2, <3>3, <3>4
  <2>2. ASSUME NEW o \in orphans'  PROVE o.rows # {} /\ \E res \in results' : res.rows = o.rows
    <3>1. CASE o \in orphans /\ o.rows # buf
      BY <1>1, <3>1 DEF IInv, BatchInv
    <3>2. CASE o.rows = buf
      BY <1>1, <3>2
    <3>3. QED
      BY <3>1, <3>2
  <2>3. QED
    BY <1>1, <2>1, <2>2 DEF BatchInv
<1>4. TableInv'
  <2>1. \A b : Whole(b) => Whole(b)'
    BY DEF Whole, AllIn, NoneIn
  <2>2. Whole(buf) /\ \A res \in results : Whole(res.rows)
    BY DEF IInv, TableInv
  <2>3. \A res \in results' : Whole(res.rows)'
    BY <1>1, <2>1, <2>2
  <2>4. Whole({})
    BY DEF Whole, AllIn
  <2>5. StoredOnce' /\ \A r \in Rows \ (buf' \cup Reported') : table'[r] = 0
    BY <1>1, ReturnReported DEF IInv, TableInv, StoredOnce
  <2>6. QED
    BY <1>1, <2>1, <2>3, <2>4, <2>5 DEF TableInv
<1>5. OutcomeInv'
  <2>1. \A o \in orphans' : o.rows # {}
    BY DEF IInv, BatchInv
  <2>2. \A b : AllIn(b) => AllIn(b)'
    BY DEF AllIn
  <2>3. \A res \in results' : /\ res.outcome = "ok" => AllIn(res.rows)'
                             /\ res.outcome # "duplicateKey"
    BY <1>1, <2>2 DEF IInv, OutcomeInv
  <2>4. NoneIn({})
    BY DEF NoneIn
  <2>5. NoneIn(buf)'
    BY <1>1 DEF NoneIn
  <2>6. QED
    BY <1>1, <2>1, <2>3, <2>5 DEF OutcomeInv
<1>6. RoomInv'
  BY <1>1, FS_EmptySet, SinkAssumption DEF RoomInv, SinkAssumption
<1>7. QED
  BY <1>2, <1>3, <1>4, <1>5, <1>6 DEF IInv

(* The server executes an attempt: the batch was not in the table, now it is. *)
LEMMA InsertInv ==
  ASSUME IInv, NEW rows, Insert(rows), Keyed, ~Conflicts(rows), rows # {},
         rows = buf \/ \E res \in results : res.rows = rows,
         UNCHANGED <<buf, results>>
  PROVE  /\ TableInv'
         /\ AllIn(rows)'
         /\ \A other \in SUBSET Rows : AllIn(other) => AllIn(other)'
         /\ buf # rows /\ NoneIn(buf) => NoneIn(buf)'
<1>1. rows \subseteq Rows
  BY DEF IInv, TypeOK, Results
<1>2. \A r \in rows : table[r] = 0
  BY <1>1 DEF IInv, TypeOK, Conflicts
<1>3. \A r \in Rows : table'[r] = IF r \in rows THEN 1 ELSE table[r]
  BY <1>1, <1>2 DEF Insert, IInv, TypeOK
<1>4. AllIn(rows)'
  BY <1>1, <1>3 DEF AllIn
<1>5. ASSUME NEW other, other \subseteq Rows  PROVE AllIn(other) => AllIn(other)'
  BY <1>3, <1>5 DEF AllIn
<1>6. ASSUME NEW other, other \subseteq Rows, other \cap rows = {}
      PROVE  NoneIn(other) => NoneIn(other)'
  BY <1>3, <1>6 DEF NoneIn
<1>7. Reported' = Reported /\ rows \subseteq buf \cup Reported
  BY ReportedRows DEF Reported
<1>8. buf # rows => buf \cap rows = {}
  BY ReportedRows DEF IInv, BatchInv
<1>9. Whole(buf)'
  BY <1>4, <1>5, <1>6, <1>8 DEF IInv, TableInv, TypeOK, Whole
<1>10. ASSUME NEW res \in results  PROVE Whole(res.rows)'
  <2>1. res.rows = rows \/ res.rows \cap rows = {}
    BY ReportedRows DEF IInv, BatchInv
  <2>2. res.rows \subseteq Rows
    BY DEF IInv, TypeOK, Results
  <2>3. QED
    BY <2>1, <2>2, <1>4, <1>5, <1>6 DEF IInv, TableInv, Whole
<1>11. TableInv'
  BY <1>3, <1>7, <1>9, <1>10 DEF IInv, TableInv, StoredOnce
<1>12. QED
  BY <1>4, <1>5, <1>6, <1>8, <1>11 DEF IInv, TypeOK

------------------------------------------------------------------------------

LEMMA InitInv == Foreign = {} /\ Init => IInv
<1> SUFFICES ASSUME Foreign = {}, Init  PROVE IInv
  OBVIOUS
<1>1. \A r \in Rows : table[r] = 0
  BY DEF Init
<1>2. TypeOK
  BY TypeInit
<1>3. ControlInv /\ BatchInv
  BY DEF Init, ControlInv, BatchInv, Reported
<1>4. TableInv
  BY <1>1 DEF Init, TableInv, StoredOnce, Whole, NoneIn
<1>5. OutcomeInv
  BY DEF Init, OutcomeInv, NoneIn
<1>6. RoomInv
  BY FS_EmptySet, SinkAssumption DEF SinkAssumption, Init, RoomInv
<1>7. QED
  BY <1>2, <1>3, <1>4, <1>5, <1>6 DEF IInv

(* The loader: a new row joins the buffer, or a flush starts. *)
LEMMA LoaderInv ==
  ASSUME IInv, TypeOK', (\E r \in Rows : WriteRow(r)) \/ Flush
  PROVE  IInv'
<1>1. ASSUME NEW r \in Rows, WriteRow(r)  PROVE IInv'
  <2>1. /\ buf' = buf \cup {r} /\ r \notin buf /\ r \notin Reported /\ pc = "idle"
        /\ UNCHANGED <<table, orphans, results, Reported>>
    BY <1>1 DEF WriteRow, Reported
  <2>2. table[r] = 0 /\ NoneIn(buf) /\ unknown = FALSE /\ attempt = 0 /\ request = "none"
    BY <2>1 DEF IInv, TableInv, OutcomeInv, ControlInv
  <2>3. NoneIn(buf)'
    BY <2>1, <2>2 DEF NoneIn
  <2>4. /\ request' \in {"none", "sent"} /\ unknown' = FALSE /\ attempt' = 0
        /\ pc' \in {"idle", "exec"} /\ (pc' = "exec" <=> request' = "sent")
    BY <1>1, <2>1, <2>2 DEF WriteRow, Start
  <2>5. ControlInv'
    BY <2>1, <2>4, SinkAssumption DEF ControlInv, SinkAssumption
  <2>6. \A o \in orphans : o.rows # buf' /\ \E res \in results : res.rows = o.rows
    <3>1. ASSUME NEW o \in orphans  PROVE o.rows # buf /\ \E res \in results : res.rows = o.rows
      BY <2>1, <2>2 DEF IInv, BatchInv, OutcomeInv, ControlInv
    <3>2. QED
      BY <2>1, <3>1, ReportedRows
  <2>7. BatchInv'
    BY <2>1, <2>6 DEF IInv, BatchInv
  <2>8. \A b : Whole(b) <=> Whole(b)'
    BY <2>1 DEF Whole, AllIn, NoneIn
  <2>9. TableInv'
    BY <2>1, <2>3, <2>8 DEF IInv, TableInv, StoredOnce, Whole
  <2>10. \A b : AllIn(b) <=> AllIn(b)'
    BY <2>1 DEF AllIn
  <2>11. OutcomeInv'
    BY <2>1, <2>3, <2>4, <2>6, <2>10 DEF IInv, OutcomeInv
  <2>12. RoomInv'
    <3>1. IsFiniteSet(buf') /\ Cardinality(buf') \in Nat
      BY <2>1, FS_AddElement, FS_CardinalityType DEF IInv, RoomInv
    <3>2. pc' = "idle" => ~(Cardinality(buf') >= MaxBatchRows)
      BY <1>1 DEF WriteRow, Start
    <3>3. QED
      BY <3>1, <3>2, SinkAssumption DEF RoomInv, SinkAssumption
  <2>13. QED
    BY <2>5, <2>7, <2>9, <2>11, <2>12 DEF IInv
<1>2. CASE Flush
  <2>1. /\ buf # {} /\ pc = "idle" /\ pc' = "exec" /\ request' = "sent" /\ attempt' = 0
        /\ unknown' = FALSE /\ UNCHANGED <<table, buf, orphans, results, Reported>>
    BY <1>2 DEF Flush, Start, Reported
  <2>2. ControlInv'
    BY <2>1, SinkAssumption DEF ControlInv, SinkAssumption
  <2>3. BatchInv' /\ TableInv' /\ RoomInv'
    BY <2>1 DEF IInv, RoomInv, BatchInv, TableInv, StoredOnce, Whole, AllIn, NoneIn
  <2>4. NoneIn(buf)' /\ \A o \in orphans' : o.rows # buf'
    BY <2>1 DEF IInv, OutcomeInv, ControlInv, NoneIn
  <2>5. \A b : AllIn(b) <=> AllIn(b)'
    BY <2>1 DEF AllIn
  <2>6. OutcomeInv'
    BY <2>1, <2>4, <2>5 DEF IInv, OutcomeInv
  <2>7. QED
    BY <2>2, <2>3, <2>6 DEF IInv
<1>3. QED
  BY <1>1, <1>2

(* The server: the attempt that is out, or an orphan, is resolved. *)
LEMMA ServerInv ==
  ASSUME IInv, TypeOK', Keyed, Server
  PROVE  IInv'
<1>1. CASE ServerCommit
  <2>1. /\ request = "sent" /\ ~Conflicts(buf) /\ Insert(buf) /\ request' = "committed"
        /\ UNCHANGED <<buf, pc, attempt, unknown, orphans, results, Reported>>
    BY <1>1 DEF ServerCommit, Reported
  <2>2. pc = "exec" /\ buf # {}
    BY <2>1 DEF IInv, ControlInv
  <2>3. TableInv' /\ AllIn(buf)' /\ \A other \in SUBSET Rows : AllIn(other) => AllIn(other)'
    BY <2>1, <2>2, InsertInv
  <2>4. ControlInv' /\ RoomInv' /\ BatchInv'
    BY <2>1, <2>2 DEF IInv, ControlInv, RoomInv, BatchInv
  <2>5. \A res \in results : res.rows \in SUBSET Rows
    BY DEF IInv, TypeOK, Results
  <2>6. OutcomeInv'
    BY <2>1, <2>3, <2>5 DEF IInv, OutcomeInv
  <2>7. QED
    BY <2>3, <2>4, <2>6 DEF IInv
<1>2. CASE ServerDuplicate
  <2>1. /\ request = "sent" /\ Conflicts(buf) /\ request' = "duplicate"
        /\ UNCHANGED <<table, buf, pc, attempt, unknown, orphans, results, Reported>>
    BY <1>2 DEF ServerDuplicate, Reported
  <2>2. ControlInv' /\ RoomInv' /\ BatchInv'
    BY <2>1 DEF IInv, ControlInv, RoomInv, BatchInv
  <2>3. TableInv'
    BY <2>1 DEF IInv, TableInv, StoredOnce, Whole, AllIn, NoneIn
  <2>4. AllIn(buf) /\ ~NoneIn(buf)
    BY <2>1 DEF IInv, TableInv, Whole, AllIn, NoneIn, Conflicts
  <2>5. \A b : AllIn(b) <=> AllIn(b)'
    BY <2>1 DEF AllIn
  <2>6. AllIn(buf)' /\ unknown'
    BY <2>1, <2>4, <2>5 DEF IInv, OutcomeInv
  <2>7. OutcomeInv'
    BY <2>1, <2>5, <2>6 DEF IInv, OutcomeInv
  <2>8. QED
    BY <2>2, <2>3, <2>7 DEF IInv
<1>3. CASE ServerRefuse
  <2>1. /\ request = "sent" /\ request' = "refused"
        /\ UNCHANGED <<table, buf, pc, attempt, unknown, orphans, results, Reported>>
    BY <1>3 DEF ServerRefuse, Reported
  <2>2. ControlInv' /\ RoomInv' /\ BatchInv' /\ TableInv'
    BY <2>1 DEF IInv, ControlInv, RoomInv, BatchInv, TableInv, StoredOnce, Whole, AllIn, NoneIn
  <2>3. OutcomeInv'
    BY <2>1 DEF IInv, OutcomeInv, AllIn, NoneIn
  <2>4. QED
    BY <2>2, <2>3 DEF IInv
<1>4. ASSUME NEW o \in orphans, OrphanCommit(o)  PROVE IInv'
  <2>1. /\ ~Conflicts(o.rows) /\ Insert(o.rows) /\ orphans' \subseteq orphans
        /\ UNCHANGED <<buf, pc, attempt, request, unknown, results, Reported>>
    BY <1>4 DEF OrphanCommit, Reported
  <2>2. o.rows # {} /\ (o.rows = buf \/ \E res \in results : res.rows = o.rows)
    BY DEF IInv, BatchInv
  <2>3. /\ TableInv' /\ \A other \in SUBSET Rows : AllIn(other) => AllIn(other)'
        /\ buf # o.rows /\ NoneIn(buf) => NoneIn(buf)'
    BY <2>1, <2>2, InsertInv
  <2>4. ControlInv' /\ RoomInv' /\ BatchInv'
    BY <2>1 DEF IInv, ControlInv, RoomInv, BatchInv
  <2>5. buf \in SUBSET Rows /\ \A res \in results : res.rows \in SUBSET Rows
    BY DEF IInv, TypeOK, Results
  <2>6. AllIn(buf) => AllIn(buf)'
    BY <2>1, <2>3, <2>5 DEF AllIn
  <2>7. OutcomeInv'
    BY <2>1, <2>3, <2>5, <2>6 DEF IInv, OutcomeInv
  <2>8. QED
    BY <2>3, <2>4, <2>7 DEF IInv
<1>5. ASSUME NEW o \in orphans, OrphanAbort(o)  PROVE IInv'
  <2>1. /\ orphans' \subseteq orphans
        /\ UNCHANGED <<table, buf, pc, attempt, request, unknown, results, Reported>>
    BY <1>5 DEF OrphanAbort, Reported
  <2>2. ControlInv' /\ RoomInv' /\ BatchInv' /\ TableInv'
    BY <2>1 DEF IInv, ControlInv, RoomInv, BatchInv, TableInv, StoredOnce, Whole, AllIn, NoneIn
  <2>3. OutcomeInv'
    BY <2>1 DEF IInv, OutcomeInv, AllIn, NoneIn
  <2>4. QED
    BY <2>2, <2>3 DEF IInv
<1>6. QED
  BY <1>1, <1>2, <1>3, <1>4, <1>5 DEF Server

(* An error: the flush returns it, or the next attempt is due and, if the     *)
(* server may have committed this one, outcomeUnknown says so.                *)
LEMMA ErrorInv ==
  ASSUME IInv, TypeOK', NEW kind, HandleError(kind), buf # {}, pc = "exec", UNCHANGED table,
         \A o \in orphans' : o \in orphans \/ o.rows = buf,
         \/ request = "refused" /\ orphans' = orphans
         \/ classifyFailure(kind) = "retryOutcomeUnknown"
  PROVE  IInv'
<1>1. CASE \E outcome \in {"cancelled", "nonRetryable", "retryLimit"} : Return(outcome)
  BY <1>1, ReturnInv DEF Outcomes
<1>2. CASE /\ attempt # RetryCount
           /\ unknown' = (unknown \/ classifyFailure(kind) = "retryOutcomeUnknown")
           /\ pc' = "sleep"
           /\ request' = "none"
           /\ UNCHANGED <<buf, attempt, results>>
  <2>1. Reported' = Reported
    BY <1>2 DEF Reported
  <2>2. ControlInv' /\ RoomInv'
    BY <1>2, SinkAssumption DEF IInv, TypeOK, ControlInv, RoomInv, SinkAssumption
  <2>3. BatchInv'
    BY <1>2, <2>1 DEF IInv, BatchInv
  <2>4. TableInv'
    BY <1>2, <2>1 DEF IInv, TableInv, StoredOnce, Whole, AllIn, NoneIn
  <2>5. ~unknown' => NoneIn(buf)' /\ \A o \in orphans' : o.rows # buf'
    BY <1>2 DEF IInv, OutcomeInv, NoneIn
  <2>6. \A b : AllIn(b) <=> AllIn(b)'
    BY DEF AllIn
  <2>7. OutcomeInv'
    BY <1>2, <2>5, <2>6 DEF IInv, OutcomeInv
  <2>8. QED
    BY <2>2, <2>3, <2>4, <2>7 DEF IInv
<1>3. QED
  BY <1>1, <1>2, HandleErrorEffect

(* The sink: what it concludes from the answer to an attempt. *)
LEMMA SinkInv ==
  ASSUME IInv, TypeOK', Sink
  PROVE  IInv'
<1>0. {"ok", "duplicateKey", "cancelled"} \subseteq Outcomes
  BY DEF Outcomes
<1>1. CASE ExecSucceeded
  <2>1. Return("ok") /\ buf # {} /\ AllIn(buf) /\ UNCHANGED <<table, orphans>>
    BY <1>1 DEF ExecSucceeded, IInv, ControlInv, OutcomeInv
  <2>2. QED
    BY <1>0, <2>1, ReturnInv
<1>2. CASE ExecDuplicate
  <2>1. AllIn(buf) /\ ~NoneIn(buf)
    BY <1>2 DEF ExecDuplicate, IInv, TypeOK, ControlInv, OutcomeInv, AllIn, NoneIn
  <2>2. unknown
    BY <1>2, <2>1 DEF ExecDuplicate, IInv, OutcomeInv
  <2>3. Return("ok") /\ buf # {} /\ UNCHANGED <<table, orphans>>
    BY <1>2, <2>2 DEF ExecDuplicate, IInv, ControlInv
  <2>4. QED
    BY <1>0, <2>1, <2>3, ReturnInv
<1>3. ASSUME NEW kind \in ServerRefusals, ExecRefused(kind)  PROVE IInv'
  BY <1>3, ErrorInv DEF ExecRefused, IInv, ControlInv
<1>4. ASSUME NEW kind \in Interruptions, ExecInterrupted(kind)  PROVE IInv'
  <2>1. classifyFailure(kind) = "retryOutcomeUnknown"
    BY DEF classifyFailure, Interruptions
  <2>2. \A o \in orphans' : o \in orphans \/ o.rows = buf
    BY <1>4 DEF ExecInterrupted
  <2>3. QED
    BY <1>4, <2>1, <2>2, ErrorInv DEF ExecInterrupted, IInv, ControlInv
<1>5. CASE SleepOver
  <2>1. /\ pc = "sleep" /\ pc' = "exec" /\ attempt' = attempt + 1 /\ request' = "sent"
        /\ UNCHANGED <<table, buf, unknown, orphans, results, Reported>>
    BY <1>5 DEF SleepOver, Reported
  <2>2. ControlInv'
    BY <2>1, SinkAssumption DEF IInv, TypeOK, ControlInv, SinkAssumption
  <2>3. BatchInv' /\ TableInv' /\ RoomInv'
    BY <2>1 DEF IInv, RoomInv, BatchInv, TableInv, StoredOnce, Whole, AllIn, NoneIn
  <2>4. OutcomeInv'
    BY <2>1 DEF IInv, ControlInv, OutcomeInv, AllIn, NoneIn
  <2>5. QED
    BY <2>2, <2>3, <2>4 DEF IInv
<1>6. CASE SleepCancelled
  <2>1. Return("cancelled") /\ buf # {} /\ UNCHANGED <<table, orphans>>
    BY <1>6 DEF SleepCancelled, IInv, ControlInv
  <2>2. QED
    BY <1>0, <2>1, ReturnInv
<1>7. QED
  BY <1>1, <1>2, <1>3, <1>4, <1>5, <1>6 DEF Sink

LEMMA IInvStep == Keyed /\ IInv /\ [Next]_vars => IInv'
<1> SUFFICES ASSUME Keyed, IInv, [Next]_vars  PROVE IInv'
  OBVIOUS
<1>1. TypeOK'
  BY TypeStep DEF IInv
<1>2. CASE CtxCancel \/ Finished \/ UNCHANGED vars
  <2>1. UNCHANGED <<table, buf, pc, attempt, request, unknown, orphans, results>>
    BY <1>2 DEF CtxCancel, Finished, vars
  <2>2. QED
    BY <1>1, <2>1 DEF IInv, ControlInv, RoomInv, BatchInv, TableInv, OutcomeInv,
                      Reported, StoredOnce, Whole, AllIn, NoneIn
<1>3. QED
  BY <1>1, <1>2, LoaderInv, SinkInv, ServerInv DEF Next

(* A batch acknowledged with nil is in the table as a whole. *)
THEOREM AckedBatches == ASSUME Keyed, Foreign = {}
                        PROVE  Spec => []AckedBatchIsStored
<1>1. IInv => AckedBatchIsStored
  BY DEF IInv, OutcomeInv, AckedBatchIsStored, AllIn
<1>2. QED
  BY <1>1, InitInv, IInvStep, PTL DEF Spec

(* A failed batch is in the table as a whole or not at all. *)
THEOREM AtomicBatches == ASSUME Keyed, Foreign = {}
                         PROVE  Spec => []BatchIsAtomic
<1>1. IInv => BatchIsAtomic
  BY DEF IInv, TableInv, Whole, AllIn, NoneIn, BatchIsAtomic
<1>2. QED
  BY <1>1, InitInv, IInvStep, PTL DEF Spec

(* The two together: what the run checks of Flush's verdicts. *)
THEOREM WholeBatches == ASSUME Keyed, Foreign = {}
                        PROVE  Spec => []BatchesWhole
BY AckedBatches, AtomicBatches, PTL DEF BatchesWhole

(* No sink ever takes its own earlier attempt for foreign data. *)
THEOREM DuplicateReports == ASSUME Keyed, Foreign = {}
                            PROVE  Spec => []DuplicateReportIsReal
<1>1. IInv => DuplicateReportIsReal
  BY DEF IInv, OutcomeInv, DuplicateReportIsReal
<1>2. QED
  BY <1>1, InitInv, IInvStep, PTL DEF Spec

------------------------------------------------------------------------------

(* The refinement mapping of ImplementsDelivery, by name. *)
Stored == {r \in Rows : table[r] > 0}
Verdict(res) == [rows |-> res.rows, ok |-> res.outcome = "ok"]
Verdicts == {Verdict(res) : res \in results}

LEMMA VerdictRows == {v.rows : v \in Verdicts} = {res.rows : res \in results}
<1>1. \A res : Verdict(res).rows = res.rows
  BY DEF Verdict
<1>2. QED
  BY <1>1 DEF Verdicts

LEMMA JudgedRows == Delivery!Judged = Reported
<1>1. UNION {v.rows : v \in Verdicts} = Reported
  BY VerdictRows DEF Reported
<1>2. QED
  BY <1>1 DEF Delivery!Judged, Verdicts, Verdict

(* Only WriteRow, the server's commits and Flush's returns are visible steps. *)
LEMMA AcceptStep == ASSUME IInv, NEW r \in Rows, WriteRow(r)
                    PROVE  Delivery!Accept(r)
<1>1. r \notin buf \cup Reported /\ buf' = buf \cup {r} /\ Cardinality(buf) < MaxBatchRows
  BY DEF WriteRow, IInv, RoomInv
<1>2. UNCHANGED <<Stored, Verdicts>>
  BY DEF WriteRow, Stored, Verdicts, Verdict
<1>3. r \notin buf \cup Delivery!Judged
  BY <1>1, JudgedRows
<1>4. Delivery!Cardinality(buf) = Cardinality(buf)
  BY Zenon DEF Delivery!Cardinality, Cardinality
<1>5. QED
  BY <1>1, <1>2, <1>3, <1>4 DEF Delivery!Accept, Stored, Verdicts, Verdict

LEMMA StoreStep ==
  ASSUME IInv, Keyed, NEW rows, ~Conflicts(rows), Insert(rows), UNCHANGED <<buf, results>>,
         rows = buf \/ \E res \in results : rows = res.rows
  PROVE  Delivery!Store(rows)
<1>1. rows \subseteq Rows
  BY DEF IInv, TypeOK, Results
<1>2. rows \cap Stored = {} /\ Stored' = Stored \cup rows
  BY <1>1 DEF IInv, TypeOK, Conflicts, Insert, Stored
<1>3. rows \in {buf} \cup {v.rows : v \in Verdicts}
  BY VerdictRows
<1>4. Verdicts' = Verdicts
  BY DEF Verdicts, Verdict
<1>5. QED
  BY <1>2, <1>3, <1>4 DEF Delivery!Store, Stored, Verdicts, Verdict

LEMMA JudgeStep ==
  ASSUME IInv, NEW outcome, Return(outcome), buf # {}, UNCHANGED table,
         outcome = "ok" => AllIn(buf)
  PROVE  Delivery!Judge(outcome = "ok")
<1>1. buf' = {} /\ Stored' = Stored
  BY DEF Return, Stored
<1>2. outcome = "ok" => buf \subseteq Stored
  BY DEF IInv, TypeOK, AllIn, Stored
<1>3. Verdicts' = Verdicts \cup {[rows |-> buf, ok |-> outcome = "ok"]}
  <2> DEFINE new == [rows |-> buf, outcome |-> outcome]
  <2>1. results' = results \cup {new}
    BY DEF Return
  <2>2. Verdict(new) = [rows |-> buf, ok |-> outcome = "ok"]
    BY DEF Verdict
  <2>3. \A res : Verdict(res)' = Verdict(res)
    BY DEF Verdict
  <2>4. Verdicts' = {Verdict(res) : res \in results'}
    BY DEF Verdicts, Verdict
  <2> HIDE DEF new
  <2>5. QED
    BY <2>1, <2>2, <2>4 DEF Verdicts
<1>4. QED
  BY <1>1, <1>2, <1>3 DEF Delivery!Judge, Stored, Verdicts, Verdict

LEMMA DeliveryStutter ==
  ASSUME UNCHANGED <<table, buf, results>>
  PROVE  UNCHANGED Delivery!vars
BY DEF Delivery!vars

LEMMA HandleErrorStep ==
  ASSUME IInv, NEW kind, HandleError(kind), buf # {}, UNCHANGED table
  PROVE  Delivery!Judge(FALSE) \/ UNCHANGED Delivery!vars
<1>1. ASSUME NEW outcome \in {"cancelled", "nonRetryable", "retryLimit"}, Return(outcome)
      PROVE  Delivery!Judge(FALSE)
  <2>1. (outcome = "ok") = FALSE
    BY <1>1
  <2>2. Delivery!Judge(outcome = "ok")
    BY <1>1, <2>1, JudgeStep
  <2>3. QED
    BY <2>1, <2>2
<1>2. QED
  BY <1>1, HandleErrorEffect, DeliveryStutter

LEMMA DeliveryStep == Keyed /\ IInv /\ [Next]_vars => [Delivery!Next]_(Delivery!vars)
<1> SUFFICES ASSUME Keyed, IInv, [Next]_vars
             PROVE  Delivery!Next \/ UNCHANGED Delivery!vars
  OBVIOUS
<1>1. ASSUME NEW r \in Rows, WriteRow(r)  PROVE Delivery!Next
  BY <1>1, AcceptStep DEF Delivery!Next
<1>2. ASSUME NEW ok \in BOOLEAN, Delivery!Judge(ok)  PROVE Delivery!Next
  BY <1>2 DEF Delivery!Next
<1>3. ASSUME NEW rows, Delivery!Store(rows)  PROVE Delivery!Next
  BY <1>3 DEF Delivery!Next, Delivery!Store
<1>4. CASE Sink
  <2>1. CASE ExecSucceeded
    <3>1. Return("ok") /\ buf # {} /\ AllIn(buf) /\ UNCHANGED table
      BY <2>1 DEF ExecSucceeded, IInv, ControlInv, OutcomeInv
    <3>2. Delivery!Judge("ok" = "ok")
      BY <3>1, JudgeStep
    <3>3. QED
      BY <1>2, <3>2
  <2>2. CASE ExecDuplicate
    <3>1. AllIn(buf) /\ unknown /\ buf # {}
      BY <2>2 DEF ExecDuplicate, IInv, TypeOK, ControlInv, OutcomeInv, AllIn, NoneIn
    <3>2. Return("ok") /\ UNCHANGED table
      BY <2>2, <3>1 DEF ExecDuplicate
    <3>3. Delivery!Judge("ok" = "ok")
      BY <3>1, <3>2, JudgeStep
    <3>4. QED
      BY <1>2, <3>3
  <2>3. ASSUME NEW kind, HandleError(kind), pc = "exec", UNCHANGED table
        PROVE  Delivery!Next \/ UNCHANGED Delivery!vars
    BY <1>2, <2>3, HandleErrorStep DEF IInv, ControlInv
  <2>4. CASE SleepOver
    BY <2>4, DeliveryStutter DEF SleepOver
  <2>5. CASE SleepCancelled
    <3>1. Return("cancelled") /\ buf # {} /\ UNCHANGED table
      BY <2>5 DEF SleepCancelled, IInv, ControlInv
    <3>2. Delivery!Judge("cancelled" = "ok")
      BY <3>1, JudgeStep
    <3>3. QED
      BY <1>2, <3>2
  <2>6. QED
    BY <1>4, <2>1, <2>2, <2>3, <2>4, <2>5 DEF Sink, ExecRefused, ExecInterrupted
<1>5. CASE Server
  <2>1. CASE ServerCommit
    BY <1>3, <2>1, StoreStep DEF ServerCommit
  <2>2. CASE ServerDuplicate \/ ServerRefuse
    BY <2>2, DeliveryStutter DEF ServerDuplicate, ServerRefuse
  <2>3. ASSUME NEW o \in orphans, OrphanCommit(o)  PROVE Delivery!Next
    <3>1. o.rows = buf \/ \E res \in results : o.rows = res.rows
      BY DEF IInv, BatchInv
    <3>2. QED
      BY <1>3, <2>3, <3>1, StoreStep DEF OrphanCommit
  <2>4. ASSUME NEW o \in orphans, OrphanAbort(o)  PROVE UNCHANGED Delivery!vars
    BY <2>4, DeliveryStutter DEF OrphanAbort
  <2>5. QED
    BY <1>5, <2>1, <2>2, <2>3, <2>4 DEF Server
<1>6. CASE Flush \/ CtxCancel \/ Finished \/ UNCHANGED vars
  BY <1>6, DeliveryStutter DEF Flush, CtxCancel, Finished, vars
<1>7. QED
  BY <1>1, <1>4, <1>5, <1>6 DEF Next

(* SQLSink keeps the abstract promise: batches are delivered as a whole, at   *)
(* most once, and acknowledged only when delivered.                           *)
THEOREM Refinement == ASSUME Keyed, Foreign = {}
                      PROVE  Spec => ImplementsDelivery
<1>1. Init => Delivery!Init
  BY DEF Init, Delivery!Init
<1>2. QED
  BY <1>1, InitInv, IInvStep, DeliveryStep, PTL DEF Spec, ImplementsDelivery, Delivery!Spec
==============================================================================
