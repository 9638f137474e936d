------------------------------ MODULE MCPrepare ------------------------------
(* Command lines of Prepare's runs. *)
EXTENDS TPCHPrepare

Line(threads, warehouses, before, dropData, useFK, analyze, noCheck) ==
    [workload |-> "tpcc", threads |-> threads, warehouses |-> warehouses, before |-> before,
     dropData |-> dropData, useFK |-> useFK, analyze |-> analyze, noCheck |-> noCheck,
     driver |-> "mysql", output |-> "database", connected |-> TRUE, specified |-> {},
     parts |-> 1, partitionType |-> "HASH"]

In(line, parts, type) == [line EXCEPT !.parts = parts, !.partitionType = type]

ToCSV(line, connected, specified) ==
    [line EXCEPT !.output = "files", !.connected = connected, !.specified = specified]

On(line, driver) == [line EXCEPT !.driver = driver]

For(line, workload) == [line EXCEPT !.workload = workload]

(* More threads than warehouses, and fewer, with and without data left over. *)
SharedFlags == {Line(3, 2, "absent", FALSE, FALSE, TRUE, FALSE),
                Line(2, 3, "plain", TRUE, FALSE, FALSE, FALSE),
                Line(2, 1, "plain", FALSE, FALSE, FALSE, FALSE)}

(* Foreign keys, for one thread and for two. *)
KeyedFlags == {Line(1, 2, "absent", FALSE, TRUE, TRUE, TRUE),
               Line(2, 2, "plain", TRUE, TRUE, FALSE, FALSE),
               Line(2, 1, "referenced", TRUE, FALSE, FALSE, FALSE)}

(* Each kind of partitions, where warehouses and partitions do not divide. *)
PartitionedFlags == {In(Line(1, 5, "absent", FALSE, FALSE, FALSE, FALSE), 3, type) : type \in PartitionTypes}

(* Files: all tables with a database at hand, and some of them without, over
   the files of an earlier prepare. *)
FileFlags == {ToCSV(Line(2, 2, "referenced", TRUE, FALSE, TRUE, FALSE), TRUE, {}),
              ToCSV(Line(2, 2, "plain", FALSE, FALSE, FALSE, FALSE), FALSE,
                    {"item", "stock", "orders", "order_line"})}

(* TPC-H anew, over its data, and to files; CH-benCHmark. *)
GeneratedFlags == {For(Line(2, 1, "plain", TRUE, FALSE, TRUE, FALSE), "tpch"),
                   For(Line(1, 1, "plain", FALSE, FALSE, TRUE, FALSE), "tpch"),
                   ToCSV(For(Line(2, 1, "plain", FALSE, FALSE, FALSE, FALSE), "tpch"), TRUE, {}),
                   For(Line(1, 1, "absent", FALSE, FALSE, TRUE, FALSE), "ch"),
                   For(Line(1, 1, "plain", TRUE, FALSE, TRUE, FALSE), "ch")}

(* PostgreSQL: anew, where partitions are ignored, over tables that are dropped
   or are not, and to files with a database at hand. *)
PostgresFlags == {On(line, "postgres") : line \in
                    {In(Line(2, 2, "absent", FALSE, FALSE, FALSE, FALSE), 2, "RANGE"),
                     Line(1, 1, "plain", TRUE, TRUE, TRUE, FALSE),
                     Line(1, 1, "plain", FALSE, FALSE, FALSE, FALSE),
                     ToCSV(Line(1, 1, "plain", FALSE, FALSE, FALSE, FALSE), TRUE, {})}}

MixedFlags == SharedFlags \cup KeyedFlags \cup PartitionedFlags \cup FileFlags \cup GeneratedFlags
              \cup PostgresFlags

SampledRows == 1 .. 40

PlainFlags == {Line(2, 2, "absent", FALSE, FALSE, FALSE, FALSE)}
==============================================================================
