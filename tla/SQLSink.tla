------------------------------- MODULE SQLSink -------------------------------
(***************************************************************************)
(* pkg/sink/sql.go and pkg/sink/sqlstate.go: one SQLSink, the loader that  *)
(* owns it, and the database server its batches go to.                     *)
(*                                                                         *)
(* A batch is one INSERT statement, so the server commits all of its rows  *)
(* or none.  What the sink learns of an attempt is only the error that     *)
(* comes back: a connection that breaks hides whether the server committed *)
(* the batch, is still going to, or never will.  Such an attempt is kept   *)
(* in "orphans" until the server resolves it, possibly long after the sink *)
(* has sent the batch again or has given up.                               *)
(***************************************************************************)
EXTENDS Naturals, FiniteSets

CONSTANTS Rows,          \* rows the loader writes, each with a key of its own
          MaxBatchRows,  \* maxBatchRows, 1024 in the code
          RetryCount,    \* retryCount: extra attempts after the first
          Driver,        \* "mysql" or "postgres"
          Keyed,         \* the table has a unique key that the rows carry
          Foreign        \* rows whose keys other data already holds

ASSUME SinkAssumption == /\ MaxBatchRows \in Nat \ {0}
                         /\ RetryCount \in Nat
                         /\ Driver \in {"mysql", "postgres"}
                         /\ Keyed \in BOOLEAN
                         /\ Foreign \subseteq Rows

VARIABLES table,    \* [Rows -> Nat]: how many copies of a row the table holds
          buf,      \* the buffered rows (bufferedRows is their number)
          pc,       \* "idle", "exec" (an attempt is out) or "sleep" (between two)
          attempt,  \* i of execWithRetry
          request,  \* what the server did with the attempt that is out
          unknown,  \* outcomeUnknown of execWithRetry
          orphans,  \* attempts the sink gave up on and the server has not resolved
          ctxDone,  \* the loader's context is cancelled
          results   \* what Flush returned, per batch: a set of [rows, outcome]

vars == <<table, buf, pc, attempt, request, unknown, orphans, ctxDone, results>>

(***************************************************************************)
(* Errors of one attempt, by what the server did, as classifyFailure sorts *)
(* them.  "conflict": 40001, 40P01, 55P03; "rejected": refused before it   *)
(* ran (53300, 57P03, 08001, MTB01..); "interrupted": 08006, 57P01, 57014, *)
(* 40003..; "network": no server error; "data": 22, 23, 42, ..; "txstate": *)
(* class 25.  A MySQL SQLSTATE cannot tell these apart, except class 25.   *)
(***************************************************************************)
ServerRefusals == {"conflict", "rejected", "data", "txstate"}
Interruptions == {"interrupted", "network"}

classifyFailure(kind) ==
  IF Driver = "mysql"
  THEN IF kind = "txstate" THEN "failFatal" ELSE "retryOutcomeUnknown"
  ELSE IF kind \in Interruptions THEN "retryOutcomeUnknown"
  ELSE IF kind \in {"conflict", "rejected"} THEN "retryRolledBack"
  ELSE "failFatal"

Outcomes == {"ok", "duplicateKey", "cancelled", "nonRetryable", "retryLimit"}

Attempts == [rows : SUBSET Rows, attempt : Nat]
Results == [rows : SUBSET Rows, outcome : Outcomes]

Reported == UNION {res.rows : res \in results}

Conflicts(rows) == Keyed /\ \E r \in rows : table[r] > 0

Insert(rows) == table' = [r \in Rows |-> table[r] + (IF r \in rows THEN 1 ELSE 0)]

------------------------------------------------------------------------------

Init == /\ table = [r \in Rows |-> IF r \in Foreign THEN 1 ELSE 0]
        /\ buf = {}
        /\ pc = "idle"
        /\ attempt = 0
        /\ request = "none"
        /\ unknown = FALSE
        /\ orphans = {}
        /\ ctxDone = FALSE
        /\ results = {}

(* execWithRetry's first attempt: s.exec(ctx, query) is called. *)
Start == /\ pc' = "exec"
         /\ attempt' = 0
         /\ request' = "sent"
         /\ unknown' = FALSE

(* WriteRow: buffer the row, and flush as soon as the batch is full. *)
WriteRow(r) ==
  /\ pc = "idle"
  /\ r \notin buf \cup Reported
  /\ buf' = buf \cup {r}
  /\ IF Cardinality(buf') >= MaxBatchRows
     THEN Start
     ELSE UNCHANGED <<pc, attempt, request, unknown>>
  /\ UNCHANGED <<table, orphans, ctxDone, results>>

(* Flush and Close, called by the loader; an empty buffer returns nil at once. *)
Flush == /\ pc = "idle"
         /\ buf # {}
         /\ Start
         /\ UNCHANGED <<table, buf, orphans, ctxDone, results>>

\* Mutant: the buffer is reset only after a success.
ReturnKeepingFailed(outcome) ==
  /\ results' = results \cup {[rows |-> buf, outcome |-> outcome]}
  /\ buf' = IF outcome = "ok" THEN {} ELSE buf
  /\ pc' = "idle"
  /\ request' = "none"
  /\ attempt' = 0
  /\ unknown' = FALSE

(* Flush returns: whatever the outcome the buffer is reset, and the locals go. *)
Return(outcome) ==
  /\ results' = results \cup {[rows |-> buf, outcome |-> outcome]}
  /\ buf' = {}
  /\ pc' = "idle"
  /\ request' = "none"
  /\ attempt' = 0
  /\ unknown' = FALSE

(***************************************************************************)
(* The server.  It resolves the attempt that is out, and the orphaned ones *)
(* too, at any time: a unique key makes it refuse rows it already holds.   *)
(***************************************************************************)
ServerCommit == /\ request = "sent"
                /\ ~Conflicts(buf)
                /\ Insert(buf)
                /\ request' = "committed"
                /\ UNCHANGED <<buf, pc, attempt, unknown, orphans, ctxDone, results>>

ServerDuplicate == /\ request = "sent"
                   /\ Conflicts(buf)
                   /\ request' = "duplicate"
                   /\ UNCHANGED <<table, buf, pc, attempt, unknown, orphans, ctxDone, results>>

ServerRefuse == /\ request = "sent"
                /\ request' = "refused"
                /\ UNCHANGED <<table, buf, pc, attempt, unknown, orphans, ctxDone, results>>

OrphanCommit(o) == /\ o \in orphans
                   /\ ~Conflicts(o.rows)
                   /\ Insert(o.rows)
                   /\ orphans' = orphans \ {o}
                   /\ UNCHANGED <<buf, pc, attempt, request, unknown, ctxDone, results>>

OrphanAbort(o) == /\ o \in orphans
                  /\ orphans' = orphans \ {o}
                  /\ UNCHANGED <<table, buf, pc, attempt, request, unknown, ctxDone, results>>

CtxCancel == /\ ~ctxDone
             /\ ctxDone' = TRUE
             /\ UNCHANGED <<table, buf, pc, attempt, request, unknown, orphans, results>>

------------------------------------------------------------------------------
(* The sink learns how its attempt ended. *)

ExecSucceeded == /\ pc = "exec"
                 /\ request = "committed"
                 /\ Return("ok")
                 /\ UNCHANGED <<table, orphans, ctxDone>>

(* A duplicate key is success after an attempt of unknown outcome, an error otherwise. *)
ExecDuplicate == /\ pc = "exec"
                 /\ request = "duplicate"
                 /\ Return(IF unknown THEN "ok" ELSE "duplicateKey")
                 /\ UNCHANGED <<table, orphans, ctxDone>>

\* Mutant: one attempt too many.
HandleErrorOffByOne(kind) ==
  IF ctxDone
  THEN Return("cancelled")
  ELSE IF classifyFailure(kind) = "failFatal"
  THEN Return("nonRetryable")
  ELSE IF attempt > RetryCount
  THEN Return("retryLimit")
  ELSE /\ unknown' = (unknown \/ classifyFailure(kind) = "retryOutcomeUnknown")
       /\ pc' = "sleep"
       /\ request' = "none"
       /\ UNCHANGED <<buf, attempt, results>>

\* Mutant: out of retries, a batch of unknown outcome is taken to be committed.
HandleErrorHopeful(kind) ==
  IF attempt = RetryCount /\ classifyFailure(kind) = "retryOutcomeUnknown"
  THEN Return("ok")
  ELSE /\ unknown' = TRUE
       /\ pc' = "sleep"
       /\ request' = "none"
       /\ UNCHANGED <<buf, attempt, results>>

\* Mutant: outcomeUnknown is that of the last attempt only.
HandleErrorForgetful(kind) ==
  IF ctxDone \/ classifyFailure(kind) = "failFatal" \/ attempt = RetryCount
  THEN Return("cancelled")
  ELSE /\ unknown' = (classifyFailure(kind) = "retryOutcomeUnknown")
       /\ pc' = "sleep"
       /\ request' = "none"
       /\ UNCHANGED <<buf, attempt, results>>

(* The rest of an iteration of execWithRetry, after an error of the given kind. *)
HandleError(kind) ==
  IF ctxDone
  THEN Return("cancelled")
  ELSE IF classifyFailure(kind) = "failFatal"
  THEN Return("nonRetryable")
  ELSE IF attempt = RetryCount
  THEN Return("retryLimit")
  ELSE /\ unknown' = (unknown \/ classifyFailure(kind) = "retryOutcomeUnknown")
       /\ pc' = "sleep"
       /\ request' = "none"
       /\ UNCHANGED <<buf, attempt, results>>

ExecRefused(kind) == /\ pc = "exec"
                     /\ request = "refused"
                     /\ kind \in ServerRefusals
                     /\ HandleError(kind)
                     /\ UNCHANGED <<table, orphans, ctxDone>>

(* The answer is lost, whatever the server did or is still going to do. *)
ExecInterrupted(kind) ==
  /\ pc = "exec"
  /\ kind \in Interruptions
  /\ HandleError(kind)
  /\ orphans' = orphans \cup (IF request = "sent"
                              THEN {[rows |-> buf, attempt |-> attempt]} ELSE {})
  /\ UNCHANGED <<table, ctxDone>>

\* Mutant: the loop variable is not advanced.
SleepOverWithoutCount ==
  /\ pc = "sleep"
  /\ pc' = "exec"
  /\ request' = "sent"
  /\ UNCHANGED <<table, buf, attempt, unknown, orphans, ctxDone, results>>

(* select: the retry interval has passed, or the context is cancelled. *)
SleepOver == /\ pc = "sleep"
             /\ pc' = "exec"
             /\ attempt' = attempt + 1
             /\ request' = "sent"
             /\ UNCHANGED <<table, buf, unknown, orphans, ctxDone, results>>

SleepCancelled == /\ pc = "sleep"
                  /\ ctxDone
                  /\ Return("cancelled")
                  /\ UNCHANGED <<table, orphans, ctxDone>>

(* The loader has written everything and has closed the sink. *)
Finished == /\ pc = "idle"
            /\ buf = {}
            /\ Reported = Rows
            /\ UNCHANGED vars

Sink == \/ ExecSucceeded
        \/ ExecDuplicate
        \/ \E kind \in ServerRefusals : ExecRefused(kind)
        \/ \E kind \in Interruptions : ExecInterrupted(kind)
        \/ SleepOver
        \/ SleepCancelled

Server == \/ ServerCommit
          \/ ServerDuplicate
          \/ ServerRefuse
          \/ \E o \in orphans : OrphanCommit(o)
          \/ \E o \in orphans : OrphanAbort(o)

Next == \/ \E r \in Rows : WriteRow(r)
        \/ Flush
        \/ Sink
        \/ Server
        \/ CtxCancel
        \/ Finished

Spec == Init /\ [][Next]_vars

(***************************************************************************)
(* Fairness: the sink's goroutine runs, and a statement ends in an answer  *)
(* or in an error.  The loader and cancellation are not fair.              *)
(***************************************************************************)
FairSpec == Spec /\ WF_vars(Sink) /\ WF_vars(ServerCommit \/ ServerDuplicate \/ ServerRefuse)

------------------------------------------------------------------------------

(* The first attempt and at most RetryCount more. *)
AttemptOK == /\ attempt \in Nat /\ attempt <= RetryCount
             /\ pc = "sleep" => attempt < RetryCount

TypeOK ==
  /\ table \in [Rows -> Nat]
  /\ buf \subseteq Rows
  /\ pc \in {"idle", "exec", "sleep"}
  /\ AttemptOK
  /\ request \in {"none", "sent", "committed", "duplicate", "refused"}
  /\ unknown \in BOOLEAN
  /\ orphans \subseteq Attempts
  /\ ctxDone \in BOOLEAN
  /\ results \subseteq Results

(* Flush never returns nil for a batch that is not in the table as a whole:   *)
(* execWithRetry's rule that a duplicate key after an attempt of unknown      *)
(* outcome means that attempt committed the whole batch (sql.go:168-171).    *)
AckedBatchIsStored ==
  \A res \in results : res.outcome = "ok" => \A r \in res.rows : table[r] > 0

(* No row is ever in the table twice, however often its batch was sent again  *)
(* and however late the server executed an attempt that was given up on.      *)
StoredOnce == \A r \in Rows : table[r] <= 1

(* Flush reports "duplicate key" only when other data holds a key of the      *)
(* batch, never when an earlier attempt of its own put it there               *)
(* (sql.go:172: "Otherwise other data holds the keys, which is a real        *)
(* error"); it relies on execOnConn making every execution a visible attempt. *)
DuplicateReportIsReal ==
  \A res \in results :
    res.outcome = "duplicateKey" => res.rows \cap Foreign # {}

(* Rows leave the buffer only with a verdict: at any time the table holds a   *)
(* batch as a whole or not at all, so a failed batch is never half loaded.    *)
BatchIsAtomic ==
  \A res \in results :
    \/ res.rows \cap Foreign # {}
    \/ \A r \in res.rows : table[r] > 0
    \/ \A r \in res.rows : table[r] = 0

(* Both: whatever the retries, lost answers and late commits, a verdict of     *)
(* Flush tells the truth about a whole batch.                                 *)
BatchesWhole == AckedBatchIsStored /\ BatchIsAtomic

(* Every call of Flush comes back: the attempts are bounded by retryCount.    *)
FlushReturns == pc # "idle" ~> pc = "idle"

(* The abstract promise, for a table whose key the rows carry.                *)
Delivery == INSTANCE BatchDelivery WITH
              stored <- {r \in Rows : table[r] > 0},
              buffered <- buf,
              verdicts <- {[rows |-> res.rows, ok |-> res.outcome = "ok"] : res \in results}
ImplementsDelivery == Delivery!Spec
=============================================================================
