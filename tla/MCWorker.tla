-------------------------------- MODULE MCWorker --------------------------------
(* Command lines of Worker's runs. *)
EXTENDS Queries

CONSTANTS w1, w2

MCWorkers == {w1, w2}

Tpcc(count, txnTimeout, refreshInterval, ignoreError, storedProcs) ==
    [workload |-> "tpcc", count |-> count, txnTimeout |-> txnTimeout,
     refreshInterval |-> refreshInterval, ignoreError |-> ignoreError,
     storedProcs |-> storedProcs, archive |-> "none"]

QueryFlags(workload, count, txnTimeout, ignoreError, archive) ==
    [workload |-> workload, count |-> count, txnTimeout |-> txnTimeout,
     refreshInterval |-> FALSE, ignoreError |-> ignoreError,
     storedProcs |-> FALSE, archive |-> archive]

(* Transactions as statements, with everything that can interrupt them; stored
   procedures with a count that does not divide; errors ignored, without a
   timeout.  Queries with plans dumped; with timeouts; with a count; and with an
   archive that could not be created. *)
MixedFlags == {Tpcc(0, TRUE, TRUE, FALSE, FALSE),
               Tpcc(3, TRUE, FALSE, FALSE, TRUE),
               Tpcc(0, FALSE, TRUE, TRUE, FALSE),
               QueryFlags("tpch", 0, FALSE, TRUE, "open"),
               QueryFlags("ch", 0, TRUE, FALSE, "none"),
               QueryFlags("rawsql", 3, FALSE, FALSE, "none"),
               QueryFlags("tpch", 3, FALSE, FALSE, "failed")}

(* Neither timeouts nor automatic refresh. *)
PlainFlags == {Tpcc(0, FALSE, FALSE, TRUE, FALSE)}
==============================================================================
