------------------------------ MODULE ConnAdmit ------------------------------
(***************************************************************************)
(* pkg/connadmit: with --conn-admit-sql every new physical connection is   *)
(* judged by a query before the pool of database/sql gets it.  Workers     *)
(* call Connect at the same time, through db.Conn in NewTpcState and       *)
(* RefreshConn (pkg/workload/base.go), and share one record of outcomes.   *)
(***************************************************************************)
EXTENDS Naturals, Sequences, FiniteSets, Functions

CONSTANTS Callers,        \* goroutines that ask the pool for a connection
          MaxRejections,  \* --conn-admit-retries
          MaxConnects     \* bound: calls of Connect

ASSUME AdmitAssumption == /\ IsFiniteSet(Callers)
                          /\ MaxRejections \in Nat \ {0}   \* checked by executeTpcc
                          /\ MaxConnects \in Nat

VARIABLES pc,          \* "idle", "open", "judge", "keep", "have" or "failed"
          conn,        \* the physical connection a caller has; 0: none
          rejections,  \* the local variable of Connect
          verdict,     \* history: the predicate's verdict on each connection opened
          open,        \* connections that are open at the server
          pool,        \* idle connections of database/sql
          stats,       \* Accepted, Rejections and Connections of the Admitter
          connects     \* calls of Connect

vars == <<pc, conn, rejections, verdict, open, pool, stats, connects>>

Init == /\ pc = [c \in Callers |-> "idle"]
        /\ conn = [c \in Callers |-> 0]
        /\ rejections = [c \in Callers |-> 0]
        /\ verdict = <<>>
        /\ open = {}
        /\ pool = {}
        /\ stats = [accepted |-> 0, rejections |-> 0, connections |-> <<>>]
        /\ connects = 0

Goto(c, label) == pc' = [pc EXCEPT ![c] = label]

\* Mutant: only the rejections of a Connect that succeeds are counted.
RecordedIfAccepted(s, n, accepted) ==
    IF accepted THEN [accepted |-> s.accepted + 1,
                      rejections |-> s.rejections + n,
                      connections |-> Append(s.connections, n)]
    ELSE s

(* The method record, under the Admitter's mutex. *)
Recorded(s, n, accepted) ==
    [accepted |-> IF accepted THEN s.accepted + 1 ELSE s.accepted,
     rejections |-> s.rejections + n,
     connections |-> IF accepted THEN Append(s.connections, n) ELSE s.connections]

Record(c, accepted) == stats' = Recorded(stats, rejections[c], accepted)

------------------------------------------------------------------------------
(* database/sql: an idle connection is reused without a new verdict. *)

Reuse(c) == /\ pc[c] = "idle"
            /\ \E p \in pool : /\ pool' = pool \ {p}
                               /\ conn' = [conn EXCEPT ![c] = p]
            /\ Goto(c, "have")
            /\ UNCHANGED <<rejections, verdict, open, stats, connects>>

Connect(c) == /\ pc[c] = "idle"
              /\ pool = {}
              /\ connects < MaxConnects
              /\ connects' = connects + 1
              /\ rejections' = [rejections EXCEPT ![c] = 0]
              /\ Goto(c, "open")
              /\ UNCHANGED <<conn, verdict, open, pool, stats>>

(* RefreshConn, or the end of a worker: the connection goes back to the pool. *)
Release(c) == /\ pc[c] = "have"
              /\ pool' = pool \cup {conn[c]}
              /\ conn' = [conn EXCEPT ![c] = 0]
              /\ Goto(c, "idle")
              /\ UNCHANGED <<rejections, verdict, open, stats, connects>>

(* The pool closes connections that broke or exceeded their lifetime. *)
Discard(c) == /\ pc[c] = "have"
              /\ open' = open \ {conn[c]}
              /\ conn' = [conn EXCEPT ![c] = 0]
              /\ Goto(c, "idle")
              /\ UNCHANGED <<rejections, verdict, pool, stats, connects>>

(* A caller that was refused may ask again (--ignore-error). *)
AskAgain(c) == /\ pc[c] = "failed"
               /\ Goto(c, "idle")
               /\ UNCHANGED <<conn, rejections, verdict, open, pool, stats, connects>>

------------------------------------------------------------------------------
(* Connector.Connect. *)

NewConn(c) == LET n == Len(verdict) + 1
              IN /\ verdict' = Append(verdict, "none")
                 /\ open' = open \cup {n}
                 /\ conn' = [conn EXCEPT ![c] = n]
                 /\ Goto(c, "judge")
                 /\ UNCHANGED <<rejections, pool, stats, connects>>

\* Mutant: one attempt too many.
OpenOnceMore(c) == /\ pc[c] = "open"
                   /\ rejections[c] <= MaxRejections
                   /\ NewConn(c)

Open(c) == /\ pc[c] = "open"
           /\ rejections[c] < MaxRejections
           /\ NewConn(c)

OpenFails(c) == /\ pc[c] = "open"
                /\ rejections[c] < MaxRejections
                /\ Record(c, FALSE)
                /\ Goto(c, "failed")
                /\ UNCHANGED <<conn, rejections, verdict, open, pool, connects>>

Judge(c, v) == /\ pc[c] = "judge"
               /\ verdict' = [verdict EXCEPT ![conn[c]] = v]

Close(c) == /\ open' = open \ {conn[c]}
            /\ conn' = [conn EXCEPT ![c] = 0]

(* admit returns true. *)
Keep(c) == /\ Judge(c, "true")
           /\ Goto(c, "keep")
           /\ UNCHANGED <<conn, rejections, open, pool, stats, connects>>

Accept(c) == /\ pc[c] = "keep"
             /\ Record(c, TRUE)
             /\ Goto(c, "have")
             /\ UNCHANGED <<conn, rejections, verdict, open, pool, connects>>

\* Mutant: a rejected connection is left open.
RejectWithoutClose(c) == /\ Judge(c, "false")
                         /\ conn' = [conn EXCEPT ![c] = 0]
                         /\ rejections' = [rejections EXCEPT ![c] = @ + 1]
                         /\ Goto(c, "open")
                         /\ UNCHANGED <<open, pool, stats, connects>>

\* Mutant: the last connection is kept although it was rejected.
RejectButFallBack(c) == /\ Judge(c, "false")
                        /\ IF rejections[c] + 1 = MaxRejections
                           THEN Goto(c, "keep") /\ UNCHANGED <<open, conn>>
                           ELSE Goto(c, "open") /\ Close(c)
                        /\ rejections' = [rejections EXCEPT ![c] = @ + 1]
                        /\ UNCHANGED <<pool, stats, connects>>

(* admit returns false. *)
Reject(c) == /\ Judge(c, "false")
             /\ Close(c)
             /\ rejections' = [rejections EXCEPT ![c] = @ + 1]
             /\ Goto(c, "open")
             /\ UNCHANGED <<pool, stats, connects>>

(* admit returns an error: the query failed, was cancelled, or its result has
   not the right shape. *)
JudgeFails(c) == /\ Judge(c, "error")
                 /\ Close(c)
                 /\ Record(c, FALSE)
                 /\ Goto(c, "failed")
                 /\ UNCHANGED <<rejections, pool, connects>>

(* After the loop. *)
GiveUp(c) == /\ pc[c] = "open"
             /\ rejections[c] = MaxRejections
             /\ Record(c, FALSE)
             /\ Goto(c, "failed")
             /\ UNCHANGED <<conn, rejections, verdict, open, pool, connects>>

Caller(c) == \/ Reuse(c) \/ Connect(c) \/ Release(c) \/ Discard(c) \/ AskAgain(c)
             \/ Open(c) \/ OpenFails(c) \/ Keep(c) \/ Accept(c) \/ Reject(c)
             \/ JudgeFails(c) \/ GiveUp(c)

Next == \E c \in Callers : Caller(c)

Spec == Init /\ [][Next]_vars

------------------------------------------------------------------------------
(* Properties. *)

Verdicts == {"none", "true", "false", "error"}

(* Callers, pool and record have their types, and a Connect never exceeds its
   number of rejections (connadmit.go:92). *)
TypeOK == /\ pc \in [Callers -> {"idle", "open", "judge", "keep", "have", "failed"}]
          /\ verdict \in Seq(Verdicts)
          /\ conn \in [Callers -> 0..Len(verdict)]
          /\ rejections \in [Callers -> 0..MaxRejections]
          /\ open \subseteq 1..Len(verdict)
          /\ pool \subseteq 1..Len(verdict)
          /\ stats.accepted \in Nat
          /\ stats.rejections \in Nat
          /\ stats.connections \in Seq(0..(MaxRejections - 1))
          /\ connects \in 0..MaxConnects

Holding(c) == pc[c] \in {"judge", "keep", "have"}

(* Nobody gets a connection that was not admitted, not even after the last
   attempt, and no other connection stays open: those that were rejected, or
   could not be judged, are closed (connadmit.go:75-79, README.md:157). *)
OnlyAdmittedUsed ==
    /\ open = pool \cup {conn[c] : c \in {d \in Callers : Holding(d)}}
    /\ \A p \in pool : verdict[p] = "true"
    /\ \A c \in Callers : pc[c] \in {"keep", "have"} => verdict[conn[c]] = "true"
    /\ \A c, d \in Callers : Holding(c) /\ Holding(d) /\ conn[c] = conn[d] => c = d
    /\ \A c \in Callers : Holding(c) => conn[c] \notin pool

Count(v) == Cardinality({n \in DOMAIN verdict : verdict[n] = v})
InConnect == {c \in Callers : pc[c] \in {"open", "judge", "keep"}}

(* The record of --summary-file: it counts every admitted connection and every
   rejected attempt, those of a Connect that failed too, once it has returned;
   and each admitted connection is listed with its rejections
   (connadmit.go:24-26, :52-59). *)
RecordAgrees ==
    /\ Count("true") = stats.accepted + Cardinality({c \in Callers : pc[c] = "keep"})
    /\ Count("false") = stats.rejections + SumFunctionOnSet(rejections, InConnect)
    /\ Len(stats.connections) = stats.accepted
    /\ SumFunction(stats.connections) <= stats.rejections
==============================================================================
