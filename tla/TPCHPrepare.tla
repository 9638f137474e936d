----------------------------- MODULE TPCHPrepare -----------------------------
(***************************************************************************)
(* The prepare commands of TPC-H and CH-benCHmark: the first thread alone  *)
(* creates the tables and has dbgen generate them one after the other      *)
(* (tpch/workload.go, ch/workload.go, tpch/loader.go, tpch/dbgen).  The    *)
(* goroutines around it are those of Prepare.                              *)
(*                                                                         *)
(* dbgen hands its rows to a ConcurrentSink per table, which may still     *)
(* hold some of them, or have failed to insert some, when it says nothing. *)
(***************************************************************************)
EXTENDS Prepare, DbGen

CONSTANT Sampled  \* bound: the rows whose numbers are looked at

ASSUME SampledAssumption == Sampled \subseteq Nat \ {0}

(* What has been done of a load goes to the database, or to the first thread's
   file of that table. *)
Stored(load) == IF ToFiles THEN files[0][load] ELSE rows[load]

StoredBecomes(f) == IF ToFiles THEN files' = [files EXCEPT ![0] = f] /\ UNCHANGED rows
                               ELSE rows' = f /\ UNCHANGED files

(* Prepare: other threads have nothing to do; there is no barrier.  Files are
   created anew after the tables; without one, the process dies. *)
CreateTpchTables(t) ==
    /\ At(t, "create") /\ ~IsTpcc
    /\ \/ /\ \/ t # 0 /\ Goto(t, "cleanup") /\ UNCHANGED <<i, data, faults>>
             \/ /\ t = 0
                /\ Goto(t, "generate")
                /\ i' = [i EXCEPT ![t] = 1]
                /\ tables' = "plain"
                /\ files' = IF ToFiles THEN [files EXCEPT ![0] = [load \in Loads |-> "none"]] ELSE files
                /\ UNCHANGED <<rows, faults>>
             \/ t = 0 /\ Refused(FALSE) /\ Goto(t, "failed") /\ UNCHANGED <<i, data>>
          /\ UNCHANGED <<flags, k, arrived, checked, errCh, command, ctx>>
       \/ t = 0 /\ ToFiles /\ Refused(FALSE) /\ Crash

(* The keys of a table are taken. *)
KeysTaken(table) == ~ToFiles /\ rows[Of(table)] = "all"

(* More rows than the batches of all sinks hold, so that an error can be met
   before the end. *)
Large == {"customer", "supplier", "part", "partsupp", "orders", "lineitem"}

(* The tables whose errors come back from Load; lineItemloader drops them. *)
Reporting == IF ToFiles THEN Large ELSE Large \ {"lineitem"}

(* genTbl's loop. An error that comes back ends it.  One that does not, because
   it is dropped or too late for ConcurrentSink, is not seen. *)
Generate(t) ==
    /\ At(t, "generate")
    /\ LET unit == TablesOfUnit(Units[i[t]])
           AfterLoop(lost) == [load \in Loads |->
               IF load[1] \notin unit \/ KeysTaken(load[1]) THEN Stored(load)
               ELSE IF load[1] \in lost THEN "part" ELSE "written"]
       IN  \/ /\ StoredBecomes(AfterLoop({}))
              /\ Goto(t, "flush")
              /\ UNCHANGED faults
           \/ \E table \in unit \cap Large :
                 /\ ~ToFiles
                 /\ Refused(KeysTaken(table))
                 /\ StoredBecomes(AfterLoop({table}))
                 /\ Goto(t, "flush")
           \/ \E table \in unit \cap Reporting :
                 /\ Refused(KeysTaken(table))
                 /\ StoredBecomes(AfterLoop(unit))
                 /\ Goto(t, "failed")
    /\ UNCHANGED <<flags, i, k, arrived, tables, checked, errCh, command, ctx>>

NextUnit(t) == IF i[t] < Len(Units) THEN Goto(t, "generate") /\ i' = [i EXCEPT ![t] = @ + 1]
                                    ELSE Goto(t, "finish") /\ UNCHANGED i

\* Mutant: a pair of tables is flushed as its first.
FlushFirst(t) ==
    /\ At(t, "flush")
    /\ StoredBecomes([load \in Loads |->
           IF load[1] = Units[i[t]][1] /\ Stored(load) = "written" THEN "all" ELSE Stored(load)])
    /\ NextUnit(t)
    /\ UNCHANGED <<flags, k, arrived, tables, checked, errCh, command, ctx, faults>>

(* The deferred Flush: its first error ends it, and is dropped. *)
Flush(t) ==
    /\ At(t, "flush")
    /\ LET unit == Units[i[t]]
           Flushed(n) == {unit[m] : m \in 1 .. n}
       IN  \E n \in 0 .. Len(unit) :
              /\ \A table \in Flushed(n) : ~KeysTaken(table)
              /\ IF n = Len(unit) THEN UNCHANGED faults ELSE Refused(KeysTaken(unit[n + 1]))
              /\ StoredBecomes([load \in Loads |->
                     IF load[1] \notin TablesOfUnit(unit) \/ Stored(load) # "written" THEN Stored(load)
                     ELSE IF load[1] \in Flushed(n) THEN "all" ELSE "part"])
    /\ NextUnit(t)
    /\ UNCHANGED <<flags, k, arrived, tables, checked, errCh, command, ctx>>

(* The view of CH-benCHmark, which must not be there yet, its replicas; ANALYZE. *)
Finish(t) ==
    /\ At(t, "finish")
    /\ LET viewExists == flags.workload = "ch" /\ flags.before # "absent"
       IN  \/ ~viewExists /\ Goto(t, "cleanup") /\ UNCHANGED faults
           \/ Refused(viewExists) /\ Goto(t, "failed")
    /\ UNCHANGED <<flags, i, k, arrived, data, checked, errCh, command, ctx>>

(* CheckPrepare checks nothing. *)
CheckNothing(t) == /\ At(t, "check") /\ ~IsTpcc
                   /\ Goto(t, "done")
                   /\ UNCHANGED <<flags, i, k, arrived, data, checked, errCh, command, ctx, faults>>

Generator(t) == CreateTpchTables(t) \/ Generate(t) \/ Flush(t) \/ Finish(t) \/ CheckNothing(t)

PreparesNext == Next \/ \E t \in Threads : Generator(t)

PreparesSpec == Init /\ [][PreparesNext]_vars

PreparesFairSpec ==
    /\ PreparesSpec
    /\ \A t \in UNION {0 .. f.threads - 1 : f \in Flags} :
          WF_vars(t \in Threads /\ (Goroutine(t) \/ Generator(t)))
    /\ WF_vars(Main)

------------------------------------------------------------------------------
(* The rows of a table, counted from 1, that are looked at, from both ends. *)
SampledOf(rowCount) ==
    LET rowsOf == {n \in Sampled : n <= rowCount}
    IN  rowsOf \cup {rowCount + 1 - n : n \in rowsOf}

(* dbgen: the rows about to be generated can be loaded, and belong together: keys
   do not repeat, what they refer to exists, no index leaves its array. *)
RowsBelongTogether ==
    \A t \in Threads : pc[t] = "generate" =>
        \A table \in TablesOfUnit(Units[i[t]]) :
            CASE table = "orders"   -> DistinctOrders(SampledOf(Orders)) /\ CustomersExist(SampledOf(Customers))
              [] table = "lineitem" -> DatesInCalendar /\ JulianIsCalendar(SampledOf(totDate))
              [] table = "partsupp" -> FourSuppliers(SampledOf(Parts))
              [] table = "supplier" -> RemarkFits({25, 26, 60, 100})
              [] OTHER              -> TRUE

(* rowStart, rowStop: the rows of a table do not depend on how many random
   numbers the rows before them have drawn. *)
RowsInStep ==
    \A t \in Threads : pc[t] = "generate" =>
        \A table \in TablesOfUnit(Units[i[t]]) : NextRowInStep(table)

(* Prepare of TPC-H and CH-benCHmark: when the tables are analyzed, and the view
   is created over them, all of their rows have arrived. *)
AnalyzedWhenLoaded == \A t \in Threads :
    pc[t] = "finish" => \A load \in Loads : Complete(load)
==============================================================================
