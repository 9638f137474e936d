------------------------------- MODULE Prepare -------------------------------
(***************************************************************************)
(* The prepare command: one goroutine per thread.  Here are executeWorkload *)
(* and TPC-C: the first thread drops and creates the tables, a barrier,    *)
(* the loads that the threads share out, into the database or into files,  *)
(* then ANALYZE and the consistency checks (cmd/go-tpc/misc.go,            *)
(* tpcc/workload.go, tpcc/csv.go, tpcc/prepare.go, tpcc/ddl.go).  TPC-H    *)
(* and CH-benCHmark are added in TPCHPrepare.                              *)
(*                                                                         *)
(* How the rows of one load reach the server is in SQLSink; here a load    *)
(* happens as a whole when its call returns, or fails after some batches.  *)
(* The goroutine that prints is left to Worker.                            *)
(***************************************************************************)
EXTENDS Partitions, Sequences, FiniteSets

CONSTANTS Flags,                 \* the command lines to check, and what they find
          DistrictPerWarehouse,  \* districtPerWarehouse, 10 in the code
          MaxFaults              \* bound: statements that fail for the server's reasons

WarehouseTables == <<"warehouse", "stock", "district">>
DistrictTables == <<"customer", "history", "orders", "new_order", "order_line">>

TableNames == {"item"} \cup {WarehouseTables[n] : n \in DOMAIN WarehouseTables}
                       \cup {DistrictTables[n] : n \in DOMAIN DistrictTables}

(* before: the tables that an earlier prepare has left, with all of its data;
   with output to files, it has left the files too.  connected: the ping of
   openDB was answered.  specified: --tables. *)
FlagSets == [workload : {"tpcc", "tpch", "ch"}, driver : {"mysql", "postgres"},
             threads : Nat \ {0}, warehouses : Nat \ {0},
             before : {"absent", "plain", "referenced"},
             dropData : BOOLEAN, useFK : BOOLEAN, analyze : BOOLEAN, noCheck : BOOLEAN,
             output : {"database", "files"}, connected : BOOLEAN, specified : SUBSET TableNames,
             parts : Nat \ {0}, partitionType : PartitionTypes]

(* What NewWorkloader, NewCSVWorkloader and executeTpch refuse at once; and the
   foreign keys that an earlier prepare has left are those of TPC-C. *)
Accepted(f) == /\ f.parts <= f.warehouses
               /\ f.output = "database" \/ f.workload # "tpcc" => f.connected
               /\ "order_line" \in f.specified => "orders" \in f.specified
               /\ f.before = "referenced" => f.workload = "tpcc"
               /\ f.workload = "ch" => f.output = "database" /\ f.threads = 1

ASSUME PrepareAssumption == /\ Flags \subseteq FlagSets
                            /\ \A f \in Flags : Accepted(f)
                            /\ DistrictPerWarehouse \in Nat \ {0}
                            /\ MaxFaults \in Nat

VARIABLES flags,    \* the command line
          pc,       \* where a thread is, see Steps
          i,        \* its loop variable: a warehouse or a district, counted from 0
          k,        \* the table it loads for it
          arrived,  \* threads that have called createTableWg.Done
          tables,   \* "absent", "plain", or "referenced": with foreign keys
          rows,     \* what the database holds of each load: "none", "part", "all"
                    \* or, where no key prevents it, "twice"; while dbgen's sinks
                    \* may still hold some of it, "written"
          files,    \* the same of the file of each thread and table; "stale": the
                    \* file is that of an earlier prepare
          checked,  \* how often each warehouse has been checked
          errCh,    \* a thread has reported an error
          command,  \* the phase of executeWorkload, or how the process ended
          ctx,      \* the benchmark context: "live", or what cancelled it
          faults    \* failures so far that are the server's

thread == <<pc, i, k>>
data == <<tables, rows, files>>
vars == <<flags, thread, arrived, data, checked, errCh, command, ctx, faults>>

Loading == {"item", "warehouses", "districts"}
Generating == {"generate", "flush", "finish"}
Steps == {"init", "drop", "create", "barrier", "cleanup", "failed", "done",
          "initCheck", "check"} \cup Loading \cup Generating

IsTpcc == flags.workload = "tpcc"
ToFiles == flags.output = "files"

(* createTableWg is used. *)
HasBarrier == IsTpcc /\ flags.connected

Threads == 0 .. flags.threads - 1
Warehouses == 1 .. flags.warehouses
Districts == flags.warehouses * DistrictPerWarehouse

(* The calls of a tpccLoader: a table, and the warehouse and district it is for. *)
Item == <<"item", 0, 0>>
TpccLoads ==
         {Item}
         \cup {<<WarehouseTables[n], w, 0>> : n \in DOMAIN WarehouseTables, w \in Warehouses}
         \cup {<<DistrictTables[n], w, d>> : n \in DOMAIN DistrictTables, w \in Warehouses,
                                             d \in 1 .. DistrictPerWarehouse}

(* The tables that dbgen.DbGen generates, in its order; two of its tables are pairs. *)
Units == IF flags.workload = "tpch"
         THEN <<<<"nation">>, <<"region">>, <<"customer">>, <<"supplier">>,
                <<"part", "partsupp">>, <<"orders", "lineitem">>>>
         ELSE <<<<"nation">>, <<"region">>, <<"supplier">>>>

Of(table) == <<table, 0, 0>>

TablesOfUnit(unit) == {unit[n] : n \in DOMAIN unit}

Loads == IF IsTpcc THEN TpccLoads
         ELSE UNION {{Of(table) : table \in TablesOfUnit(Units[n])} : n \in DOMAIN Units}

(* The threads that write a file for a load's table. *)
HasFile(t, load) == t = 0 \/ (IsTpcc /\ load # Item)

(* The loads whose rows the rows of a load reference, with --use-fk. *)
References(load) ==
  LET w == load[2]
      d == load[3]
  IN  CASE load[1] \in {"item", "warehouse"} -> {}
        [] load[1] = "stock"      -> {<<"warehouse", w, 0>>, Item}
        [] load[1] = "district"   -> {<<"warehouse", w, 0>>}
        [] load[1] = "customer"   -> {<<"district", w, 0>>}
        [] load[1] = "history"    -> {<<"customer", w, d>>, <<"district", w, 0>>}
        [] load[1] = "orders"     -> {<<"customer", w, d>>}
        [] load[1] = "new_order"  -> {<<"orders", w, d>>}
        [] load[1] = "order_line" -> {<<"orders", w, d>>, <<"stock", w, 0>>}

Alive == command \in {"loading", "analyzing", "checking"}

Init == /\ flags \in Flags
        /\ pc = [t \in Threads |-> "init"]
        /\ i = [t \in Threads |-> 0]
        /\ k = [t \in Threads |-> 1]
        /\ arrived = {}
        /\ tables = flags.before
        /\ rows = [load \in Loads |-> IF flags.before = "absent" THEN "none" ELSE "all"]
        /\ files = [t \in Threads |-> [load \in Loads |->
                       IF flags.before # "absent" /\ ToFiles /\ HasFile(t, load)
                       THEN "stale" ELSE "none"]]
        /\ checked = [w \in Warehouses |-> 0]
        /\ errCh = FALSE
        /\ command = "loading"
        /\ ctx = "live"
        /\ faults = 0

------------------------------------------------------------------------------
At(t, step) == Alive /\ pc[t] = step
Goto(t, step) == pc' = [pc EXCEPT ![t] = step]

(* A loop over a thread's share begins. *)
GotoLoop(t, step) == /\ Goto(t, step)
                     /\ i' = [i EXCEPT ![t] = t % flags.threads]
                     /\ k' = [k EXCEPT ![t] = 1]

(* A statement fails: the client can blame what it finds, or the server. *)
Refused(blamed) == \/ blamed /\ UNCHANGED faults
                   \/ ~blamed /\ faults < MaxFaults /\ faults' = faults + 1

(* NewTpcState: without a connection it panics, and the process dies. *)
Crash == command' = "crashed" /\ UNCHANGED <<flags, thread, arrived, data, checked, errCh, ctx>>

------------------------------------------------------------------------------
(* The threads of executeWorkload, under a context that nothing cancels. *)

(* --tables, or all of them. *)
Selected(load) == flags.specified = {} \/ load[1] \in flags.specified

\* Mutant: the files are opened without O_TRUNC.
AppendToFiles(t) == UNCHANGED files

(* CSVWorkLoader.InitThread: a file per table, that of the items for the first
   thread only. *)
CreateFiles(t) ==
    files' = IF ToFiles /\ IsTpcc
             THEN [files EXCEPT ![t] = [load \in Loads |->
                      IF Selected(load) /\ HasFile(t, load) THEN "none" ELSE @[load]]]
             ELSE files

(* Without a connection, where one is needed, or a file, the process dies. *)
InitThread(t) ==
    /\ At(t, "init")
    /\ \/ /\ Goto(t, IF flags.dropData THEN "drop" ELSE "create")
          /\ CreateFiles(t)
          /\ UNCHANGED <<flags, i, k, arrived, tables, rows, checked, errCh, command, ctx, faults>>
       \/ Refused(FALSE) /\ Crash

(* Cleanup of CSVWorkLoader and of ch does nothing. *)
Cleans == ~(IsTpcc /\ ToFiles) /\ flags.workload # "ch"

(* Cleanup: the first thread drops the tables, item before the others, which
   the server refuses while another table references it. *)
DropTable(t) ==
    /\ At(t, "drop")
    /\ \/ ~(Cleans /\ t = 0) /\ Goto(t, "create") /\ UNCHANGED <<data, faults>>
       \/ /\ Cleans /\ t = 0 /\ tables # "referenced"
          /\ Goto(t, "create")
          /\ tables' = "absent"
          /\ rows' = [load \in Loads |-> "none"]
          /\ UNCHANGED <<files, faults>>
       \/ Cleans /\ t = 0 /\ Refused(tables = "referenced") /\ Goto(t, "failed") /\ UNCHANGED data
    /\ UNCHANGED <<flags, i, k, arrived, checked, errCh, command, ctx>>

(* Loading begins: the first thread loads the items. *)
BeginLoads(t) == IF t = 0 THEN Goto(t, "item") /\ UNCHANGED <<i, k>>
                          ELSE GotoLoop(t, "warehouses")

(* The tables are created now, and in partitions, which only MySQL's have. *)
Partitions == flags.driver = "mysql" /\ flags.parts > 1 /\ tables = "absent"

(* What may already be there: tables, but no foreign key; and no index where it
   has a statement of its own, as for PostgreSQL. *)
CanCreate == /\ flags.useFK => tables # "referenced"
             /\ flags.driver = "postgres" => tables = "absent"
             /\ Partitions => WellFormed(flags.partitionType, flags.warehouses, flags.parts)

(* createTables, then createTableWg.Done.  An error comes before it, and finds
   the tables there, or is the server's.  All of it only if there is a database. *)
CreateTables(t) ==
    /\ At(t, "create") /\ IsTpcc
    /\ \/ /\ ~flags.connected
          /\ BeginLoads(t)
          /\ UNCHANGED <<tables, arrived, faults>>
       \/ /\ flags.connected /\ t # 0
          /\ arrived' = arrived \cup {t}
          /\ Goto(t, "barrier")
          /\ UNCHANGED <<i, k, tables, faults>>
       \/ /\ flags.connected /\ t = 0
          /\ CanCreate
          /\ tables' = IF flags.useFK THEN "referenced"
                       ELSE IF tables = "absent" THEN "plain" ELSE tables
          /\ arrived' = arrived \cup {t}
          /\ Goto(t, "barrier")
          /\ UNCHANGED <<i, k, faults>>
       \/ /\ flags.connected /\ t = 0
          /\ Refused(~CanCreate)
          /\ Goto(t, "failed")
          /\ UNCHANGED <<i, k, tables, arrived>>
    /\ UNCHANGED <<flags, rows, files, checked, errCh, command, ctx>>

\* Mutant: the first thread is waited for by nobody.
WaitForOthers(t) == /\ At(t, "barrier")
                    /\ Threads \ {0} \subseteq arrived
                    /\ BeginLoads(t)
                    /\ UNCHANGED <<flags, arrived, data, checked, errCh, command, ctx, faults>>

(* createTableWg.Wait. *)
Wait(t) == /\ At(t, "barrier")
           /\ arrived = Threads
           /\ BeginLoads(t)
           /\ UNCHANGED <<flags, arrived, data, checked, errCh, command, ctx, faults>>

\* Mutant: every thread goes through all warehouses from its own on.
NextOfAll(n) == n + 1

(* The next warehouse or district of a thread's share. *)
NextOfShare(n) == n + flags.threads

WarehouseAt(n) == (n % flags.warehouses) + 1

(* What a loading thread loads now. *)
Current(t) ==
    CASE pc[t] = "item"       -> Item
      [] pc[t] = "warehouses" -> <<WarehouseTables[k[t]], WarehouseAt(i[t]), 0>>
      [] pc[t] = "districts"  -> <<DistrictTables[k[t]],
                                   WarehouseAt(i[t] \div DistrictPerWarehouse),
                                   (i[t] % DistrictPerWarehouse) + 1>>

InLoop(t) == Alive /\ \/ pc[t] = "item"
                      \/ pc[t] = "warehouses" /\ i[t] < flags.warehouses
                      \/ pc[t] = "districts" /\ i[t] < Districts

\* Mutant: the number of tables is that of a district everywhere.
TablesOfDistrict(step) == DistrictTables

TablesOf(step) == IF step = "warehouses" THEN WarehouseTables ELSE DistrictTables

Advance(t) ==
    IF pc[t] = "item" THEN GotoLoop(t, "warehouses")
    ELSE /\ IF k[t] < Len(TablesOf(pc[t]))
            THEN k' = [k EXCEPT ![t] = @ + 1] /\ UNCHANGED i
            ELSE k' = [k EXCEPT ![t] = 1] /\ i' = [i EXCEPT ![t] = NextOfShare(@)]
         /\ UNCHANGED pc

(* The tables of this database are in partitions: there were none before. *)
Partitioned == /\ flags.driver = "mysql" /\ flags.parts > 1
               /\ flags.before = "absent" \/ flags.dropData

(* The server refuses a load whose keys are taken, whose references dangle, or
   that belongs in no partition; history has no key, item no partitions. *)
Rejected(load) ==
    \/ load[1] # "history" /\ rows[load] # "none"
    \/ tables = "referenced" /\ \E other \in References(load) : rows[other] # "all"
    \/ /\ Partitioned /\ load[2] # 0
       /\ ~Placed(flags.partitionType, flags.warehouses, flags.parts, load[2])

Loaded(status) == IF status = "none" THEN "all" ELSE "twice"
Begun(status) == IF status = "none" THEN "part" ELSE status

LoadTable(t) ==
    /\ ~ToFiles
    /\ LET load == Current(t)
       IN  \/ /\ ~Rejected(load)
              /\ rows' = [rows EXCEPT ![load] = Loaded(@)]
              /\ Advance(t)
              /\ UNCHANGED faults
           \/ /\ Refused(Rejected(load))
              /\ rows' \in {rows, [rows EXCEPT ![load] = Begun(@)]}
              /\ Goto(t, "failed")
              /\ UNCHANGED <<i, k>>
    /\ UNCHANGED files

(* The methods of CSVWorkLoader: nothing for a table that is not asked for. *)
LoadFile(t) ==
    /\ ToFiles
    /\ LET load == Current(t)
       IN  \/ /\ files' = IF Selected(load) THEN [files EXCEPT ![t][load] = Loaded(@)] ELSE files
              /\ Advance(t)
              /\ UNCHANGED faults
           \/ /\ Selected(load) /\ Refused(FALSE)
              /\ files' \in {files, [files EXCEPT ![t][load] = Begun(@)]}
              /\ Goto(t, "failed")
              /\ UNCHANGED <<i, k>>
    /\ UNCHANGED rows

Load(t) == /\ InLoop(t)
           /\ LoadTable(t) \/ LoadFile(t)
           /\ UNCHANGED <<flags, arrived, tables, checked, errCh, command, ctx>>

\* Mutant: there are as many districts as warehouses.
LoopEndsEarly(t) == /\ Alive
                    /\ \/ pc[t] = "warehouses" /\ i[t] >= flags.warehouses /\ GotoLoop(t, "districts")
                       \/ /\ pc[t] = "districts" /\ i[t] >= flags.warehouses
                          /\ Goto(t, "cleanup") /\ UNCHANGED <<i, k>>
                    /\ UNCHANGED <<flags, arrived, data, checked, errCh, command, ctx, faults>>

(* The share of a thread is used up. *)
LoopEnds(t) == /\ Alive
               /\ \/ pc[t] = "warehouses" /\ i[t] >= flags.warehouses /\ GotoLoop(t, "districts")
                  \/ pc[t] = "districts" /\ i[t] >= Districts /\ Goto(t, "cleanup") /\ UNCHANGED <<i, k>>
               /\ UNCHANGED <<flags, arrived, data, checked, errCh, command, ctx, faults>>

\* Mutant: a goroutine that fails does not call wg.Done.
CleanupWithoutDone(t) == /\ At(t, "cleanup")
                         /\ Goto(t, "done")
                         /\ UNCHANGED <<flags, i, k, arrived, data, checked, errCh, command, ctx, faults>>

(* CleanupThread, the error into errCh, wg.Done. *)
Cleanup(t) == /\ At(t, "cleanup") \/ At(t, "failed")
              /\ errCh' = (errCh \/ pc[t] = "failed")
              /\ Goto(t, "done")
              /\ UNCHANGED <<flags, i, k, arrived, data, checked, command, ctx, faults>>

------------------------------------------------------------------------------
(* executeWorkload after wg.Wait. *)

(* checkPrepare: a goroutine per thread again, unless --no-check or for files. *)
BeginChecks == IF IsTpcc /\ (flags.noCheck \/ ToFiles)
               THEN command' = "ok" /\ UNCHANGED thread
               ELSE /\ command' = "checking"
                    /\ pc' = [t \in Threads |-> "initCheck"]
                    /\ i' = [t \in Threads |-> t % flags.threads]
                    /\ UNCHANGED k

AllDone == \A t \in Threads : pc[t] = "done"

(* Analysis and checks only if no thread has failed. *)
PostPrepare == /\ command = "loading" /\ AllDone
               /\ IF errCh THEN command' = "failed" /\ UNCHANGED thread
                  ELSE IF IsTpcc /\ ~ToFiles /\ flags.analyze THEN command' = "analyzing" /\ UNCHANGED thread
                  ELSE BeginChecks
               /\ UNCHANGED <<flags, arrived, data, checked, errCh, ctx, faults>>

(* analyzePrepared, under the benchmark context. *)
Analyze == /\ command = "analyzing"
           /\ \/ ctx = "live" /\ BeginChecks /\ UNCHANGED faults
              \/ Refused(ctx # "live") /\ command' = "failed" /\ UNCHANGED thread
           /\ UNCHANGED <<flags, arrived, data, checked, errCh, ctx>>

(* checkPrepare's threads take their connections under it too. *)
InitCheck(t) ==
    /\ At(t, "initCheck")
    /\ \/ /\ ctx = "live"
          /\ Goto(t, "check")
          /\ UNCHANGED <<flags, i, k, arrived, data, checked, errCh, command, ctx, faults>>
       \/ Refused(ctx # "live") /\ Crash

(* What a warehouse's twelve conditions need of the loads. *)
Consistent(w) == \A load \in Loads : load[2] = w => rows[load] = "all"

\* Mutant: the share is counted from 1.
CheckFromOne(t) ==
    /\ At(t, "check") /\ IsTpcc
    /\ \/ /\ i[t] + 1 < flags.warehouses /\ ctx = "live" /\ Consistent(WarehouseAt(i[t] + 1))
          /\ checked' = [checked EXCEPT ![WarehouseAt(i[t] + 1)] = @ + 1]
          /\ i' = [i EXCEPT ![t] = NextOfShare(@)]
          /\ UNCHANGED <<pc, errCh, faults>>
       \/ /\ i[t] + 1 >= flags.warehouses
          /\ Goto(t, "done")
          /\ UNCHANGED <<i, checked, errCh, faults>>
    /\ UNCHANGED <<flags, k, arrived, data, command, ctx>>

(* CheckPrepare, one warehouse after the other; CleanupThread. *)
Check(t) ==
    /\ At(t, "check") /\ IsTpcc
    /\ \/ /\ i[t] < flags.warehouses /\ ctx = "live" /\ Consistent(WarehouseAt(i[t]))
          /\ checked' = [checked EXCEPT ![WarehouseAt(i[t])] = @ + 1]
          /\ i' = [i EXCEPT ![t] = NextOfShare(@)]
          /\ UNCHANGED <<pc, errCh, faults>>
       \/ /\ i[t] < flags.warehouses
          /\ Refused(ctx # "live" \/ ~Consistent(WarehouseAt(i[t])))
          /\ errCh' = TRUE
          /\ Goto(t, "done")
          /\ UNCHANGED <<i, checked>>
       \/ /\ i[t] >= flags.warehouses
          /\ Goto(t, "done")
          /\ UNCHANGED <<i, checked, errCh, faults>>
    /\ UNCHANGED <<flags, k, arrived, data, command, ctx>>

Return == /\ command = "checking" /\ AllDone
          /\ command' = IF errCh THEN "failed" ELSE "ok"
          /\ UNCHANGED <<flags, thread, arrived, data, checked, errCh, ctx, faults>>

------------------------------------------------------------------------------
Unaffected == <<flags, thread, arrived, data, checked, errCh, faults>>

(* --time, which does not reach the threads that load. *)
Deadline == Alive /\ ctx = "live" /\ ctx' = "deadline" /\ UNCHANGED <<command, Unaffected>>

Signal == Alive /\ ctx # "signal" /\ ctx' = "signal" /\ UNCHANGED <<command, Unaffected>>

(* Ten seconds after a signal, or on the next one: os.Exit(1). *)
ForceExit == Alive /\ ctx = "signal" /\ command' = "killed" /\ UNCHANGED <<ctx, Unaffected>>

Terminated == ~Alive /\ UNCHANGED vars

Goroutine(t) == \/ InitThread(t) \/ DropTable(t) \/ CreateTables(t) \/ Wait(t)
                \/ Load(t) \/ LoopEnds(t) \/ Cleanup(t)
                \/ InitCheck(t) \/ Check(t)

Main == PostPrepare \/ Analyze \/ Return

Next == \/ \E t \in Threads : Goroutine(t)
        \/ Main
        \/ Deadline \/ Signal \/ ForceExit
        \/ Terminated

Spec == Init /\ [][Next]_vars

(* Goroutines are scheduled, and a statement ends in an answer or an error; no
   signal is sure to come. *)
FairSpec == /\ Spec
            /\ \A t \in UNION {0 .. f.threads - 1 : f \in Flags} : WF_vars(t \in Threads /\ Goroutine(t))
            /\ WF_vars(Main)

------------------------------------------------------------------------------
(* Types of the variables. *)
TypeOK == /\ flags \in Flags
          /\ pc \in [Threads -> Steps]
          /\ i \in [Threads -> Nat]
          /\ k \in [Threads -> 1 .. Len(DistrictTables)]
          /\ \A t \in Threads : pc[t] = "warehouses" => k[t] <= Len(WarehouseTables)
          /\ \A t \in Threads : pc[t] \in Generating => ~IsTpcc /\ t = 0 /\ i[t] \in 1 .. Len(Units)
          /\ arrived \subseteq Threads
          /\ tables \in {"absent", "plain", "referenced"}
          /\ rows \in [Loads -> {"none", "part", "written", "all", "twice"}]
          /\ files \in [Threads -> [Loads -> {"none", "part", "written", "all", "twice", "stale"}]]
          /\ checked \in [Warehouses -> Nat]
          /\ errCh \in BOOLEAN
          /\ command \in {"loading", "analyzing", "checking", "ok", "failed", "crashed", "killed"}
          /\ ctx \in {"live", "deadline", "signal"}
          /\ faults \in Nat /\ faults <= MaxFaults

(* createTableWg: no thread loads before the first one has created the tables,
   and none is still to drop or create them then. *)
TablesBeforeRows == \A t \in Threads : HasBarrier /\ pc[t] \in Loading =>
    /\ tables # "absent"
    /\ \A other \in Threads : pc[other] \notin {"init", "drop", "create"}

(* All of a load has arrived, once; in files, in one file and no other. *)
Complete(load) ==
    IF ToFiles
    THEN Selected(load) => \E t \in Threads :
            /\ files[t][load] = "all"
            /\ \A other \in Threads \ {t} : files[other][load] = "none"
    ELSE rows[load] = "all"

(* prepareWorkload, DbGen: the threads' shares cover every load once; when
   ANALYZE and the checks run, as when the command succeeds, nothing is missing
   or doubled, whatever the numbers of threads and warehouses.  Of TPC-H and
   CH-benCHmark this can be said only if the server did not fail. *)
PostStepsSeeAllRows ==
    /\ command \in {"analyzing", "checking", "ok"}
    /\ IsTpcc \/ faults = 0
    => \A load \in Loads : Complete(load)

(* Both: tables, then rows, then ANALYZE and checks, across all threads. *)
PhasesInOrder == TablesBeforeRows /\ PostStepsSeeAllRows

(* check: the same shares, so a command that succeeds has checked every
   warehouse exactly once. *)
EachWarehouseChecked ==
    command = "ok" /\ IsTpcc /\ ~ToFiles /\ ~flags.noCheck => \A w \in Warehouses : checked[w] = 1

(* Tables that an earlier prepare has left stay in the database. *)
LeftOver == flags.before # "absent" /\ (~flags.dropData \/ ~Cleans)

(* What a prepare may fail for: the server, the end of the benchmark; tables left
   over, when rows go into them, or TPC-C is to create them on PostgreSQL, were
   it only to write files; foreign keys. *)
Cause == \/ faults > 0
         \/ ctx # "live"
         \/ LeftOver /\ (~ToFiles \/ (HasBarrier /\ flags.driver = "postgres"))
         \/ flags.before = "referenced" /\ (~ToFiles \/ flags.useFK)
         \/ ~ToFiles /\ flags.useFK /\ flags.threads > 1

(* The threads never get in each other's way, and no row is without a partition:
   without tables left over, and without foreign keys or with a single thread,
   only the server or the end of the benchmark makes prepare fail; and over tables
   left over, files can still be written, except with a PostgreSQL at hand. *)
FailsForCause == command = "failed" => Cause

(* executeWorkload: once the tables are there, or where no thread waits for
   them, no thread waits for another that has failed. *)
ReturnsOnceCreated == ~HasBarrier \/ arrived = Threads ~> ~Alive

(* The command returns, with the error of a thread if one has failed. *)
PrepareReturns == <>~Alive
==============================================================================
