------------------------------ MODULE Partitions ------------------------------
(***************************************************************************)
(* The partitioning clause that ddlManager.appendPartition writes: which   *)
(* warehouses each of `parts` partitions takes (tpcc/ddl.go).  Partitions  *)
(* and the counter of warehouses start at 0, warehouses at 1.              *)
(***************************************************************************)
EXTENDS Naturals

PartitionTypes == {"HASH", "RANGE", "LIST like HASH", "LIST like RANGE"}

RoundedUp(n, d) == n \div d + (IF n % d = 0 THEN 0 ELSE 1)

\* Mutant: the remainder is not spread.
TakenRoundingDown(warehouses, parts) ==
    [p \in 0 .. parts |-> p * (warehouses \div parts)]

(* LIST like RANGE: the warehouses that the partitions before p take. *)
Taken(warehouses, parts) ==
    LET taken[p \in 0 .. parts] ==
            IF p = 0 THEN 0
            ELSE taken[p - 1] + RoundedUp(warehouses - taken[p - 1], parts - (p - 1))
    IN  taken

Listed(type, warehouses, parts, p) ==
    CASE type = "LIST like HASH"  -> {j + 1 : j \in {j \in 0 .. warehouses - 1 : j % parts = p}}
      [] type = "LIST like RANGE" -> (Taken(warehouses, parts)[p] + 1) .. Taken(warehouses, parts)[p + 1]

(* RANGE: VALUES LESS THAN, which has to grow from one partition to the next. *)
Below(warehouses, parts, p) == 1 + (p + 1) * RoundedUp(warehouses, parts)

IsList(type) == type \in {"LIST like HASH", "LIST like RANGE"}

(* The server refuses an empty list, and a value in two of them. *)
WellFormed(type, warehouses, parts) ==
    IF IsList(type)
    THEN /\ \A p \in 0 .. parts - 1 : Listed(type, warehouses, parts, p) # {}
         /\ \A p, q \in 0 .. parts - 1 :
               p # q => Listed(type, warehouses, parts, p) \cap Listed(type, warehouses, parts, q) = {}
    ELSE type = "RANGE" => \A p \in 1 .. parts - 1 :
                               Below(warehouses, parts, p - 1) < Below(warehouses, parts, p)

(* The server refuses a row that belongs in no partition; HASH takes any. *)
Placed(type, warehouses, parts, w) ==
    CASE type = "HASH"  -> TRUE
      [] type = "RANGE" -> w < Below(warehouses, parts, parts - 1)
      [] IsList(type)   -> \E p \in 0 .. parts - 1 : w \in Listed(type, warehouses, parts, p)
==============================================================================
