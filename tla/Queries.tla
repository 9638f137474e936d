------------------------------- MODULE Queries -------------------------------
(***************************************************************************)
(* The run commands that send queries: TPC-H, CH-benCHmark (its analytical *)
(* side) and raw SQL.  executeWorkload and runLoop are those of Worker;    *)
(* here is Run of tpch/workload.go, ch/workload.go and rawsql/workload.go, *)
(* one query with one retry on a fresh connection, and the plan replayer   *)
(* they share (pkg/plan-replayer).                                         *)
(***************************************************************************)
EXTENDS Worker

Idle(w) == UNCHANGED <<iter, err, expired>>

------------------------------------------------------------------------------
(* PlanReplayerRunner.Dump, all of it under one mutex: a query, and a request
   to the status port without a timeout. *)

DumpBegin(w) == /\ At(w, "dump")
                /\ \A v \in Workers : pc[v] # "dumping"
                /\ Goto(w, "dumping")
                /\ UNCHANGED <<flags, conns, expired, iter, err, shared, ctx, server>>

(* Whatever fails is printed and the query goes on; but if the archive could
   not be created, a dump that succeeds is written to a nil zip.Writer. *)
DumpEnd(w) == /\ At(w, "dumping")
              /\ \/ /\ conn[w] = "open" /\ flags.archive = "open"
                    /\ UNCHANGED <<conn, command>>
                    /\ Goto(w, "query")
                 \/ /\ conn[w] = "open" /\ flags.archive = "failed"
                    /\ command' = "crashed"
                    /\ UNCHANGED <<conn, pc>>
                 \/ /\ IF expired[w] THEN MayBreak(w) ELSE UNCHANGED conn
                    /\ UNCHANGED command
                    /\ Goto(w, "query")
              /\ UNCHANGED <<flags, held, stmts, due, expired, iter, err, procs, errCh, ticker, ctx, server>>

------------------------------------------------------------------------------
(* QueryContext, its retry, and the rows. *)

Answered(w, step) == /\ At(w, step)
                     /\ conn[w] = "open"
                     /\ Goto(w, "rows")
                     /\ UNCHANGED <<flags, conns, expired, iter, err, shared, ctx, server>>

Refused(w, step) == /\ At(w, step)
                    /\ conn[w] = "open"
                    /\ Fail(w, "other")
                    /\ UNCHANGED <<flags, conns, shared, ctx, server>>

Interrupted(w, step) == /\ At(w, step)
                        /\ expired[w]
                        /\ MayBreak(w)
                        /\ Fail(w, "timeout")
                        /\ UNCHANGED <<flags, held, stmts, due, shared, ctx, server>>

Query(w) == Answered(w, "query") \/ Refused(w, "query") \/ Interrupted(w, "query")

\* Mutant: a lost connection is an error like any other.
QueryWithoutRetry(w) == /\ At(w, "query")
                        /\ conn[w] # "open" /\ ~expired[w]
                        /\ Fail(w, "connection")
                        /\ UNCHANGED <<flags, conns, shared, ctx, server>>

(* IsConnectionError: TPC-H reconnects at once, the others pause first. *)
QueryDisconnected(w) ==
    /\ At(w, "query")
    /\ conn[w] # "open" /\ ~expired[w]
    /\ Goto(w, IF flags.workload = "tpch" THEN "reopen" ELSE "pause")
    /\ UNCHANGED <<flags, conns, expired, iter, err, shared, ctx, server>>

Pause(w) == /\ At(w, "pause")
            /\ \/ Goto(w, "reopen") /\ Idle(w)
               \/ expired[w] /\ Fail(w, "timeout")
            /\ UNCHANGED <<flags, conns, shared, ctx, server>>

(* RefreshConn; without a connection Run returns the first error. *)
Reopen(w) == /\ At(w, "reopen")
             /\ \E ok \in BOOLEAN :
                   /\ RefreshConn(w, ok)
                   /\ IF ok THEN Goto(w, "requery") /\ Idle(w)
                            ELSE Fail(w, "refresh")
             /\ UNCHANGED <<flags, stmts, due, shared, ctx, server>>

(* The second attempt is the last. *)
Requery(w) == \/ Answered(w, "requery") \/ Refused(w, "requery") \/ Interrupted(w, "requery")
              \/ /\ At(w, "requery")
                 /\ conn[w] # "open"
                 /\ Fail(w, "connection")
                 /\ UNCHANGED <<flags, conns, shared, ctx, server>>

(* scanQueryResult, drainQueryResult or rows.Close. *)
RowsRead(w) == /\ At(w, "rows")
               /\ NextIteration(w)
               /\ UNCHANGED <<flags, conns, shared, ctx, server>>

(* CH-benCHmark returns the error of rows that end early, raw SQL reads none,
   and TPC-H does not look: with fewer rows it may still find a wrong answer. *)
RowsFail(w) == /\ At(w, "rows")
               /\ \/ flags.workload = "ch" /\ conn[w] # "open" /\ Fail(w, "connection")
                  \/ flags.workload = "ch" /\ expired[w] /\ Fail(w, "timeout")
                  \/ flags.workload = "tpch" /\ Fail(w, "other")
               /\ UNCHANGED <<flags, conns, shared, ctx, server>>

RunQuery(w) == Query(w) \/ QueryDisconnected(w) \/ Pause(w) \/ Reopen(w) \/ Requery(w)
               \/ RowsRead(w) \/ RowsFail(w)

------------------------------------------------------------------------------
RunsNext == \/ \E w \in Workers : \/ Goroutine(w)
                                  \/ DumpBegin(w) \/ DumpEnd(w)
                                  \/ RunQuery(w)
            \/ CreateView \/ Stop \/ TickerEnds \/ Return
            \/ Environment
            \/ Terminated

RunsSpec == Init /\ [][RunsNext]_vars

(* As for Run of TPC-C: timers fire, and a call returns when its context is
   done.  The request of a dump has no context, so DumpEnd is left to the
   servers. *)
RunsFairSpec == /\ RunsSpec /\ Fairness
                /\ \A w \in Workers : /\ WF_vars(expired[w] /\ RunQuery(w))
                                      /\ WF_vars(Pause(w))

------------------------------------------------------------------------------
(* A server that answers, and comes back after every outage; a status port that
   answers too; and a mutex that everyone gets in the end. *)
QueriesAnswered == /\ WF_vars(ServerUp) /\ WF_vars(CreateView)
                   /\ \A w \in Workers : /\ WF_vars(RunQuery(w))
                                         /\ WF_vars(DumpEnd(w)) /\ SF_vars(DumpBegin(w))

(* Run of the query workloads retries on a fresh connection whenever the one it
   has is gone, closed by an earlier refresh that failed included
   (sqlstate.go:144-155): with --ignore-error a worker gets to send queries
   again after every outage, without any option. *)
QueriesHeal == ~IsTpcc /\ flags.ignoreError /\ ~flags.txnTimeout /\ QueriesAnswered => KeepsWorking

(* An outage never stops the work for good: with automatic refresh for
   transactions, and by itself for queries. *)
OutagesHeal == RefreshHeals /\ QueriesHeal
==============================================================================
