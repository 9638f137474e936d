-------------------------------- MODULE TPCC --------------------------------
(***************************************************************************)
(* tpcc/new_order.go, payment.go, delivery.go, and the same transactions   *)
(* as PL/pgSQL procedures (procs_pg.go): workers run NEW-ORDER, PAYMENT    *)
(* and DELIVERY statement by statement on one database.  They are threads  *)
(* of one go-tpc or of several that load the same database, some of them   *)
(* with --stored-procs.                                                    *)
(*                                                                         *)
(* The database is external: statements run at READ COMMITTED or above, a  *)
(* row read FOR UPDATE or updated is locked until its transaction ends,    *)
(* and a transaction's writes become visible when it commits.  So writes   *)
(* appear in the Commit actions, and the statements before them lock rows  *)
(* and read.  Statements that can neither wait nor read what others write  *)
(* are part of the step before or after them.  ORDER-STATUS and            *)
(* STOCK-LEVEL only read, without locks, and are left out.                 *)
(***************************************************************************)
EXTENDS TPCCTables

CONSTANTS Workers,      \* threads, each with a connection of its own
          Inputs,       \* inputs a transaction may be called with
          StoredProcs,  \* workers of a go-tpc started with --stored-procs
          MaxTxns       \* bound: transactions begun

ASSUME InputsAssumption ==
  /\ \A in \in Inputs : IsNewOrderInput(in) \/ IsPaymentInput(in) \/ IsDeliveryInput(in)
  /\ IsFiniteSet(Workers) /\ StoredProcs \subseteq Workers
  /\ MaxTxns \in Nat

VARIABLES pc,        \* the statement a worker's transaction is at
          input,     \* input of its transaction
          held,      \* rows it has locked
          oID,       \* NEW-ORDER: the d_next_o_id it has read
          quantity,  \* NEW-ORDER: new s_quantity of the stock rows read
          picked,    \* DELIVERY: order picked in the districts visited, 0: none
          district,  \* DELIVERY: the district its loop is at
          txns       \* transactions begun so far

reads == <<oID, quantity, picked>>
vars == <<tables, pc, input, held, reads, district, txns>>

NoInput == [kind |-> "none"]

NoReads == [none \in {} |-> 0]

Init == /\ Load
        /\ pc = [k \in Workers |-> "idle"]
        /\ input = [k \in Workers |-> NoInput]
        /\ held = [k \in Workers |-> {}]
        /\ oID = [k \in Workers |-> 0]
        /\ quantity = [k \in Workers |-> NoReads]
        /\ picked = [k \in Workers |-> NoReads]
        /\ district = [k \in Workers |-> 1]
        /\ txns = 0

------------------------------------------------------------------------------
(* Row locks. *)

DistrictRow(w, d) == <<"district", <<w, d>>>>
WarehouseRow(w) == <<"warehouse", w>>
CustomerRow(ck) == <<"customer", ck>>
StockRow(s) == <<"stock", s>>
NewOrderRow(w, d, o) == <<"newOrder", <<w, d, o>>>>

Free(k, row) == \A j \in Workers \ {k} : row \notin held[j]

Lock(k, row) == /\ Free(k, row)
                /\ held' = [held EXCEPT ![k] = @ \cup {row}]

Goto(k, statement) == pc' = [pc EXCEPT ![k] = statement]

(* The row the next statement of k has to lock; a NEW-ORDER's stock rows are   *)
(* locked in the order the server visits them.                                 *)
NextRows(k) ==
  LET in == input[k]
  IN CASE pc[k] \in {"selectDistrict", "updateDistrict"} -> {DistrictRow(in.w, in.d)}
       [] pc[k] = "selectStock" -> {StockRow(s) : s \in DOMAIN in.qty \ DOMAIN quantity[k]}
       [] pc[k] = "updateWarehouse" -> {WarehouseRow(in.w)}
       [] pc[k] = "selectCustomer" -> {CustomerRow(in.cust)}
       [] pc[k] = "selectNewOrder" /\ NewOrdersOf(in.w, district[k]) # {} ->
            {NewOrderRow(in.w, district[k], OldestNewOrder(in.w, district[k]))}
       [] pc[k] = "updateCustomer" /\ picked[k][district[k]] # 0 ->
            {CustomerRow(<<in.w, district[k],
                           orders[<<in.w, district[k], picked[k][district[k]]>>].c>>)}
       [] OTHER -> {}

WaitsFor(k, j) == \E row \in NextRows(k) : j # k /\ row \in held[j]

Blocked(k) == NextRows(k) # {} /\ \A row \in NextRows(k) : ~Free(k, row)

(* The workers of S wait for one another: none of them can go on.              *)
Deadlock(S) == S # {} /\ \A k \in S : Blocked(k) /\ \E j \in S : WaitsFor(k, j)

------------------------------------------------------------------------------
(* The transaction of k is over: COMMIT, or the deferred tx.Rollback().        *)
EndTx(k) == /\ pc' = [pc EXCEPT ![k] = "idle"]
            /\ input' = [input EXCEPT ![k] = NoInput]
            /\ held' = [held EXCEPT ![k] = {}]
            /\ oID' = [oID EXCEPT ![k] = 0]
            /\ quantity' = [quantity EXCEPT ![k] = NoReads]
            /\ picked' = [picked EXCEPT ![k] = NoReads]
            /\ district' = [district EXCEPT ![k] = 1]
            /\ UNCHANGED txns

\* Mutant: the deferred Rollback is missing, the connection keeps its locks.
AbortKeepingLocks(k) == /\ pc[k] # "idle"
                        /\ pc' = [pc EXCEPT ![k] = "idle"]
                        /\ UNCHANGED <<tables, input, held, reads, district, txns>>

(***************************************************************************)
(* Any statement may fail: a conflict or a deadlock the server resolves, a *)
(* broken connection, a cancelled context.  When the answer to COMMIT is   *)
(* lost the transaction is over either way, and Run starts another one.    *)
(***************************************************************************)
Abort(k) == /\ pc[k] # "idle"
            /\ EndTx(k)
            /\ UNCHANGED tables

\* Mutant: NEW-ORDER locks its customer before its district.
BeginLockingCustomer(k, in) ==
  /\ pc[k] = "idle"
  /\ txns < MaxTxns
  /\ txns' = txns + 1
  /\ input' = [input EXCEPT ![k] = in]
  /\ IF in.kind = "newOrder" THEN Lock(k, CustomerRow(<<in.w, in.d, in.c>>)) ELSE UNCHANGED held
  /\ Goto(k, CASE in.kind = "newOrder" -> "selectDistrict"
               [] in.kind = "payment" -> "updateDistrict"
               [] OTHER -> "selectNewOrder")
  /\ UNCHANGED <<tables, reads, district>>

(* Run draws a transaction and its input; BEGIN.  NEW-ORDER also reads its     *)
(* customer, without a lock.                                                   *)
Begin(k, in) ==
  /\ pc[k] = "idle"
  /\ txns < MaxTxns
  /\ txns' = txns + 1
  /\ input' = [input EXCEPT ![k] = in]
  /\ Goto(k, CASE in.kind = "newOrder" -> "selectDistrict"
               [] in.kind = "payment" -> "updateDistrict"
               [] OTHER -> "selectNewOrder")
  /\ UNCHANGED <<tables, held, reads, district>>

------------------------------------------------------------------------------
(* NEW-ORDER. *)

\* Mutant: the district is read without FOR UPDATE.
SelectDistrictUnlocked(k) ==
  /\ pc[k] = "selectDistrict"
  /\ oID' = [oID EXCEPT ![k] = d_next_o_id[<<input[k].w, input[k].d>>]]
  /\ Goto(k, "insertOrder")
  /\ UNCHANGED <<tables, input, held, quantity, picked, district, txns>>

SelectDistrict(k) ==
  /\ pc[k] = "selectDistrict"
  /\ Lock(k, DistrictRow(input[k].w, input[k].d))
  /\ oID' = [oID EXCEPT ![k] = d_next_o_id[<<input[k].w, input[k].d>>]]
  /\ Goto(k, "insertOrder")
  /\ UNCHANGED <<tables, input, quantity, picked, district, txns>>

(* The order's number is in use: the primary key of orders rejects it.         *)
OrderExists(k) == <<input[k].w, input[k].d, oID[k]>> \in DOMAIN orders

(* d_next_o_id is updated, the order and its new_order row are inserted, and   *)
(* the items are read.                                                         *)
InsertOrder(k) ==
  /\ pc[k] = "insertOrder"
  /\ ~OrderExists(k)
  /\ ~input[k].bad
  /\ Goto(k, "selectStock")
  /\ UNCHANGED <<tables, input, held, reads, district, txns>>

\* Mutant: d_next_o_id is updated outside the transaction and not rolled back.
RollbackKeepingNumber(k) ==
  LET dk == <<input[k].w, input[k].d>>
  IN /\ pc[k] = "insertOrder"
     /\ OrderExists(k) \/ input[k].bad
     /\ EndTx(k)
     /\ d_next_o_id' = [d_next_o_id EXCEPT ![dk] = oID[k] + 1]
     /\ UNCHANGED <<money, c_balance, orders, new_order, order_line, stock>>

(* The insert fails, or, in one percent of the orders, the last item does not  *)
(* exist: NEW-ORDER rolls back what it has written.                            *)
RollbackOrder(k) == /\ pc[k] = "insertOrder"
                    /\ OrderExists(k) \/ input[k].bad
                    /\ EndTx(k)
                    /\ UNCHANGED tables

\* Mutant: the stock row is read without FOR UPDATE.
SelectStockUnlocked(k, s) ==
  /\ pc[k] = "selectStock"
  /\ s \in DOMAIN input[k].qty \ DOMAIN quantity[k]
  /\ quantity' = [quantity EXCEPT ![k] =
                   Put(@, s, RefilledQuantity(stock[s].quantity - input[k].qty[s]))]
  /\ UNCHANGED <<tables, pc, input, held, oID, picked, district, txns>>

(* The stock row s is locked and read, and its new quantity computed.          *)
SelectStock(k, s) ==
  /\ pc[k] = "selectStock"
  /\ s \in DOMAIN input[k].qty \ DOMAIN quantity[k]
  /\ Lock(k, StockRow(s))
  /\ quantity' = [quantity EXCEPT ![k] =
                   Put(@, s, RefilledQuantity(stock[s].quantity - input[k].qty[s]))]
  /\ UNCHANGED <<tables, pc, input, oID, picked, district, txns>>

(* The stock rows are updated, the order lines inserted; COMMIT.               *)
CommitNewOrder(k) ==
  /\ pc[k] = "selectStock"
  /\ DOMAIN quantity[k] = DOMAIN input[k].qty
  /\ PlaceOrder(input[k], oID[k], quantity[k])
  /\ EndTx(k)

------------------------------------------------------------------------------
(* PAYMENT.  The customer paid for is the input: by last name, it is the       *)
(* middle one by first name, and names do not change.                          *)

PaymentUpdateDistrict(k) ==
  /\ pc[k] = "updateDistrict"
  /\ Lock(k, DistrictRow(input[k].w, input[k].d))
  /\ Goto(k, "updateWarehouse")
  /\ UNCHANGED <<tables, input, reads, district, txns>>

PaymentUpdateWarehouse(k) ==
  /\ pc[k] = "updateWarehouse"
  /\ Lock(k, WarehouseRow(input[k].w))
  /\ Goto(k, "selectCustomer")
  /\ UNCHANGED <<tables, input, reads, district, txns>>

PaymentSelectCustomer(k) ==
  /\ pc[k] = "selectCustomer"
  /\ Lock(k, CustomerRow(input[k].cust))
  /\ Goto(k, "commitPayment")
  /\ UNCHANGED <<tables, input, reads, district, txns>>

(* The customer is updated, the history row inserted; COMMIT.                  *)
CommitPayment(k) == /\ pc[k] = "commitPayment"
                    /\ Pay(input[k])
                    /\ EndTx(k)

------------------------------------------------------------------------------
(* DELIVERY.  Statements visit all districts to pick orders, then all again to *)
(* update customers; the procedure does both for a district, then the next.    *)

\* Mutant: the loop over the districts runs once too often.
AfterPickOffByOne(k) ==
  IF k \in StoredProcs
  THEN Goto(k, "updateCustomer") /\ UNCHANGED district
  ELSE IF district[k] <= DistrictPerWarehouse
       THEN district' = [district EXCEPT ![k] = @ + 1] /\ UNCHANGED pc
       ELSE Goto(k, "updateCustomer") /\ district' = [district EXCEPT ![k] = 1]

(* The statement after the one done for the current district.                  *)
AfterPick(k) ==
  IF k \in StoredProcs
  THEN Goto(k, "updateCustomer") /\ UNCHANGED district
  ELSE IF district[k] < DistrictPerWarehouse
       THEN district' = [district EXCEPT ![k] = @ + 1] /\ UNCHANGED pc
       ELSE Goto(k, "updateCustomer") /\ district' = [district EXCEPT ![k] = 1]

AfterUpdate(k) ==
  IF district[k] < DistrictPerWarehouse
  THEN /\ district' = [district EXCEPT ![k] = @ + 1]
       /\ Goto(k, IF k \in StoredProcs THEN "selectNewOrder" ELSE "updateCustomer")
  ELSE Goto(k, "commitDelivery") /\ UNCHANGED district

\* Mutant: the oldest new order is read without FOR UPDATE.
SelectNewOrderUnlocked(k) ==
  LET w == input[k].w
      d == district[k]
  IN /\ pc[k] = "selectNewOrder"
     /\ picked' = [picked EXCEPT ![k] =
                    Put(@, d, IF NewOrdersOf(w, d) = {} THEN 0 ELSE OldestNewOrder(w, d))]
     /\ AfterPick(k)
     /\ UNCHANGED <<tables, input, held, oID, quantity, txns>>

(* SELECT ... ORDER BY no_o_id LIMIT 1 FOR UPDATE; no row is not an error.     *)
SelectNewOrder(k) ==
  LET w == input[k].w
      d == district[k]
      o == OldestNewOrder(w, d)
  IN /\ pc[k] = "selectNewOrder"
     /\ IF NewOrdersOf(w, d) = {}
        THEN picked' = [picked EXCEPT ![k] = Put(@, d, 0)] /\ UNCHANGED held
        ELSE /\ Lock(k, NewOrderRow(w, d, o))
             /\ picked' = [picked EXCEPT ![k] = Put(@, d, o)]
     /\ AfterPick(k)
     /\ UNCHANGED <<tables, input, oID, quantity, txns>>

(* The orders picked are updated and read, which only this transaction does;   *)
(* the customer of the current district's order is updated.                    *)
DeliveryUpdateCustomer(k) ==
  /\ pc[k] = "updateCustomer"
  /\ IF picked[k][district[k]] = 0
     THEN UNCHANGED held
     ELSE \E row \in NextRows(k) : Lock(k, row)
  /\ AfterUpdate(k)
  /\ UNCHANGED <<tables, input, reads, txns>>

CommitDelivery(k) ==
  /\ pc[k] = "commitDelivery"
  /\ Deliver(input[k].w, [d \in {e \in Districts : picked[k][e] # 0} |-> picked[k][d]])
  /\ EndTx(k)

------------------------------------------------------------------------------

NewOrder(k) == \/ SelectDistrict(k)
               \/ InsertOrder(k)
               \/ RollbackOrder(k)
               \/ \E s \in StockKeys : SelectStock(k, s)
               \/ CommitNewOrder(k)

Payment(k) == \/ PaymentUpdateDistrict(k)
              \/ PaymentUpdateWarehouse(k)
              \/ PaymentSelectCustomer(k)
              \/ CommitPayment(k)

Delivery(k) == SelectNewOrder(k) \/ DeliveryUpdateCustomer(k) \/ CommitDelivery(k)

(* The server finds a deadlock and aborts one of its transactions.             *)
BreakDeadlock(k) == /\ \E S \in SUBSET Workers : k \in S /\ Deadlock(S)
                    /\ Abort(k)

(* The bound is reached: nothing runs any more. *)
Finished == /\ txns = MaxTxns
            /\ \A k \in Workers : pc[k] = "idle"
            /\ UNCHANGED vars

Next == \/ \E k \in Workers : \/ \E in \in Inputs : Begin(k, in)
                              \/ NewOrder(k)
                              \/ Payment(k)
                              \/ Delivery(k)
                              \/ Abort(k)
        \/ Finished

Spec == Init /\ [][Next]_vars

(***************************************************************************)
(* A worker issues the next statement when it has the answer to the last   *)
(* one; the server grants locks in order, answers, and breaks deadlocks.   *)
(* A worker is not obliged to begin a transaction.                         *)
(***************************************************************************)
FairSpec == /\ Spec
            /\ \A k \in Workers : /\ SF_vars(NewOrder(k) \/ Payment(k) \/ Delivery(k))
                                  /\ WF_vars(BreakDeadlock(k))

------------------------------------------------------------------------------
(* Properties. *)

Statements == {"idle", "selectDistrict", "insertOrder", "selectStock", "updateDistrict",
               "updateWarehouse", "selectCustomer", "commitPayment", "selectNewOrder",
               "updateCustomer", "commitDelivery"}

TablesTyped ==
  /\ w_ytd \in [Warehouses -> Nat]
  /\ d_ytd \in [DistrictKeys -> Nat]
  /\ d_next_o_id \in [DistrictKeys -> Nat \ {0}]
  /\ c_balance \in [CustomerKeys -> Int]
  /\ c_ytd_payment \in [CustomerKeys -> Nat]
  /\ new_order \subseteq OrderKeys
  /\ DOMAIN orders \subseteq OrderKeys
  /\ \A key \in DOMAIN orders : /\ orders[key].c \in CustomerIds
                                /\ orders[key].carrier \in BOOLEAN
  /\ DOMAIN order_line = DOMAIN orders
  /\ \A key \in DOMAIN orders : /\ order_line[key].amount \in Nat
                                /\ order_line[key].delivered \in BOOLEAN

Rows == ({"district"} \X DistrictKeys) \cup ({"warehouse"} \X Warehouses)
          \cup ({"customer"} \X CustomerKeys) \cup ({"stock"} \X StockKeys)
          \cup ({"newOrder"} \X OrderKeys)

WorkersTyped ==
  /\ pc \in [Workers -> Statements]
  /\ input \in [Workers -> Inputs \cup {NoInput}]
  /\ held \in [Workers -> SUBSET Rows]
  /\ oID \in [Workers -> Nat]
  /\ DOMAIN quantity = Workers
  /\ DOMAIN picked = Workers
  /\ district \in [Workers -> Districts]
  /\ txns \in Nat /\ txns <= MaxTxns

(* Types of the tables and of the workers' state; the orders and their lines   *)
(* have the same keys.                                                         *)
TypeOK == TablesTyped /\ WorkersTyped

OrdersOf(w, d) == {key[3] : key \in {k \in DOMAIN orders : k[1] = w /\ k[2] = d}}

(* The order numbers of a district are 1 to d_next_o_id - 1, without a gap,    *)
(* although they are read, used and written back by separate statements and    *)
(* orders roll back; its undelivered orders are the last of them, without a    *)
(* gap, although deliveries run concurrently.                                  *)
OrderNumbersContiguous ==
  \A w \in Warehouses, d \in Districts :
    LET last == d_next_o_id[<<w, d>>] - 1
    IN /\ OrdersOf(w, d) = 1..last
       /\ NewOrdersOf(w, d) # {} => NewOrdersOf(w, d) = OldestNewOrder(w, d)..last

(* An order is delivered in all its parts or in none: it has a carrier and a   *)
(* delivery date exactly when it has no new_order row.                         *)
OrdersDeliveredWhole ==
  /\ new_order \subseteq DOMAIN orders
  /\ \A key \in DOMAIN orders : /\ orders[key].carrier = (key \notin new_order)
                                /\ order_line[key].delivered = (key \notin new_order)

(* No transaction fails because the number it has read for its order is taken  *)
(* by another one: concurrent orders of a district get different numbers.      *)
OrderNumberIsFresh ==
  \A k \in Workers : pc[k] = "insertOrder" => ~OrderExists(k)

(* What is delivered is what was picked: an order picked by a delivery is      *)
(* still undelivered, and still the oldest of its district, at its commit.     *)
PickedIsOldest ==
  \A k \in Workers : input[k].kind = "delivery" =>
    \A d \in DOMAIN picked[k] : picked[k][d] # 0 =>
      /\ picked[k][d] \in NewOrdersOf(input[k].w, d)
      /\ picked[k][d] = OldestNewOrder(input[k].w, d)

(* Numbers are handed out without gaps and without conflicts (runNewOrder).    *)
OrdersNumbered == OrderNumbersContiguous /\ OrderNumberIsFresh

(* Deliveries take whole orders, the oldest first (runDelivery).               *)
OrdersDelivered == OrdersDeliveredWhole /\ PickedIsOldest

(* Only orders deadlock, and only over stock, which they lock in no common     *)
(* order: payments and deliveries take their rows in one order, districts,     *)
(* warehouses and new orders before customers.                                 *)
OnlyStockDeadlocks ==
  \A S \in SUBSET Workers :
    Deadlock(S) => Cardinality({k \in S : pc[k] = "selectStock"}) >= 2

(* Every transaction ends, by COMMIT or ROLLBACK. *)
TransactionsEnd == \A k \in Workers : pc[k] # "idle" ~> pc[k] = "idle"

(* The interleaved transactions change the tables like transactions that run   *)
(* one after the other.                                                        *)
Serial == INSTANCE TPCCSerial

ImplementsSerial == Serial!Spec
=============================================================================
