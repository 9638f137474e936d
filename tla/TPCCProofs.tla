----------------------------- MODULE TPCCProofs -----------------------------
(***************************************************************************)
(* What TPCC guarantees for every set of workers, warehouses, items and    *)
(* inputs: order numbers without gaps, whole deliveries of the oldest      *)
(* orders, transactions that behave as if they ran one by one, deadlocks   *)
(* only over stock, no update lost, and a consistency check that passes.   *)
(***************************************************************************)
EXTENDS TPCCChecks, SumTheorems, WellFoundedInduction

NewOrderStatements == {"selectDistrict", "insertOrder", "selectStock"}
PaymentStatements == {"updateDistrict", "updateWarehouse", "selectCustomer", "commitPayment"}
DeliveryStatements == {"selectNewOrder", "updateCustomer", "commitDelivery"}

(* A worker's input is of the kind its statement belongs to; it has nothing    *)
(* locked or read between transactions.                                        *)
Control(k) ==
  /\ pc[k] = "idle" => /\ input[k] = NoInput /\ held[k] = {}
                       /\ quantity[k] = NoReads /\ picked[k] = NoReads /\ district[k] = 1
  /\ pc[k] \in NewOrderStatements => input[k] \in Inputs /\ input[k].kind = "newOrder"
  /\ pc[k] \in PaymentStatements => input[k] \in Inputs /\ input[k].kind = "payment"
  /\ pc[k] \in DeliveryStatements => input[k] \in Inputs /\ input[k].kind = "delivery"

(* A row is locked by one worker. *)
LockInv == \A j, k \in Workers : j # k => \A row \in held[j] : row \notin held[k]

(* What an order has read is still so: its number is the district's next, and  *)
(* the quantities are those of the stock rows it holds.                        *)
OrderReads(k) ==
  /\ pc[k] \in {"insertOrder", "selectStock"} =>
       /\ DistrictRow(input[k].w, input[k].d) \in held[k]
       /\ oID[k] = d_next_o_id[<<input[k].w, input[k].d>>]
  /\ pc[k] # "selectStock" => quantity[k] = NoReads
  /\ pc[k] = "selectStock" =>
       /\ ~input[k].bad
       /\ DOMAIN quantity[k] \subseteq DOMAIN input[k].qty
       /\ \A s \in DOMAIN quantity[k] :
            /\ StockRow(s) \in held[k]
            /\ quantity[k][s] = RefilledQuantity(stock[s].quantity - input[k].qty[s])

(* The districts a delivery has visited, and that what it has picked is locked *)
(* and still the oldest new order of its district.                             *)
Visited(k) ==
  CASE pc[k] = "selectNewOrder" -> {d \in Districts : d < district[k]}
    [] pc[k] = "updateCustomer" -> {d \in Districts : k \in StoredProcs => d <= district[k]}
    [] OTHER -> Districts

Picks(k) ==
  /\ pc[k] \notin DeliveryStatements => picked[k] = NoReads
  /\ pc[k] \in DeliveryStatements =>
       /\ DOMAIN picked[k] = Visited(k)
       /\ \A d \in DOMAIN picked[k] :
            LET o == picked[k][d]
            IN /\ o \in Nat
               /\ o # 0 => /\ NewOrderRow(input[k].w, d, o) \in held[k]
                           /\ <<input[k].w, d, o>> \in new_order
                           /\ \A p \in NewOrdersOf(input[k].w, d) : o <= p

(* Orders are numbered without gaps, the undelivered ones are the last.        *)
Numbered ==
  \A w \in Warehouses, d \in Districts, o \in Nat :
    <<w, d, o>> \in DOMAIN orders <=> 1 <= o /\ o < d_next_o_id[<<w, d>>]

LastUndelivered ==
  \A w \in Warehouses, d \in Districts, o, p \in Nat :
    /\ <<w, d, o>> \in new_order
    /\ o <= p /\ p < d_next_o_id[<<w, d>>]
    => <<w, d, p>> \in new_order

(* Orders and their lines are records: what a delivery updates of them exists. *)
OrderFields ==
  \A key \in DOMAIN orders : /\ {"c", "carrier"} \subseteq DOMAIN orders[key]
                             /\ {"amount", "delivered"} \subseteq DOMAIN order_line[key]

TableInv == Numbered /\ LastUndelivered /\ OrdersDeliveredWhole /\ OrderFields

IInv == /\ TypeOK
        /\ \A k \in Workers : Control(k)
        /\ LockInv
        /\ \A k \in Workers : OrderReads(k)
        /\ \A k \in Workers : Picks(k)
        /\ TableInv
------------------------------------------------------------------------------
(* What a step of k leaves alone: everything another worker keeps to itself.   *)
Others(k) ==
  \A j \in Workers \ {k} :
    /\ pc'[j] = pc[j] /\ input'[j] = input[j] /\ held'[j] = held[j] /\ oID'[j] = oID[j]
    /\ quantity'[j] = quantity[j] /\ picked'[j] = picked[j] /\ district'[j] = district[j]

(* It locks only rows that nobody else has locked. *)
LocksFree(k) == \A row \in held'[k] : row \in held[k] \/ Free(k, row)

(* Everything of k's own that the invariant says. *)
WorkerInv(k) == Control(k) /\ OrderReads(k) /\ Picks(k)

(* The input of a worker's transaction is what the transaction expects.        *)
LEMMA InputOfStatement ==
  ASSUME NEW k \in Workers, Control(k)
  PROVE  /\ pc[k] \in NewOrderStatements => IsNewOrderInput(input[k])
         /\ pc[k] \in PaymentStatements => IsPaymentInput(input[k])
         /\ pc[k] \in DeliveryStatements => IsDeliveryInput(input[k])
BY InputsAssumption DEF Control, InputsAssumption, IsNewOrderInput, IsPaymentInput, IsDeliveryInput

(* Locks stay exclusive. *)
LEMMA LocksStayExclusive ==
  ASSUME LockInv, NEW k \in Workers, Others(k), LocksFree(k)
  PROVE  LockInv'
BY DEF LockInv, Others, LocksFree, Free

(* What holds of another worker still does while the columns it has read from  *)
(* do not change.                                                              *)
LEMMA OthersKeepInv ==
  ASSUME NEW k \in Workers, NEW j \in Workers \ {k}, Others(k), WorkerInv(j),
         UNCHANGED <<d_next_o_id, stock, new_order>>
  PROVE  WorkerInv(j)'
<1>1. /\ pc'[j] = pc[j] /\ input'[j] = input[j] /\ held'[j] = held[j] /\ oID'[j] = oID[j]
      /\ quantity'[j] = quantity[j] /\ picked'[j] = picked[j] /\ district'[j] = district[j]
  BY DEF Others
<1>2. d_next_o_id' = d_next_o_id /\ stock' = stock /\ new_order' = new_order
  OBVIOUS
<1>3. Control(j)'
  BY <1>1 DEF WorkerInv, Control
<1>4. OrderReads(j)'
  BY <1>1, <1>2 DEF WorkerInv, OrderReads
<1>5. Picks(j)'
  BY <1>1, <1>2 DEF WorkerInv, Picks, Visited, NewOrdersOf
<1> QED BY <1>3, <1>4, <1>5 DEF WorkerInv

(* So a step that only changes its worker's state has only that to preserve.   *)
LEMMA QuietStep ==
  ASSUME IInv, NEW k \in Workers, Others(k), LocksFree(k), UNCHANGED tables,
         WorkersTyped', WorkerInv(k)'
  PROVE  IInv'
<1>1. TablesTyped'
  BY DEF IInv, TypeOK, TablesTyped, tables, money
<1>2. LockInv'
  BY LocksStayExclusive DEF IInv
<1>3. \A j \in Workers : WorkerInv(j)'
  BY OthersKeepInv DEF IInv, WorkerInv, tables
<1>4. TableInv'
  BY DEF IInv, TableInv, Numbered, LastUndelivered, OrdersDeliveredWhole, OrderFields, tables
<1> QED BY <1>1, <1>2, <1>3, <1>4 DEF IInv, TypeOK, WorkerInv
------------------------------------------------------------------------------
(* A transaction that ends leaves its worker idle, with nothing locked.        *)
LEMMA EndTxEffect ==
  ASSUME WorkersTyped, NEW k \in Workers, EndTx(k)
  PROVE  WorkersTyped' /\ Others(k) /\ LocksFree(k) /\ WorkerInv(k)'
<1> USE DEF EndTx
<1>1. WorkersTyped'
  <2>1. 1 \in Districts
    BY TablesAssumption DEF TablesAssumption, Districts
  <2>2. /\ pc' \in [Workers -> Statements] /\ oID' \in [Workers -> Nat]
        /\ input' \in [Workers -> Inputs \cup {NoInput}]
        /\ DOMAIN quantity' = Workers /\ DOMAIN picked' = Workers
        /\ txns' \in Nat /\ txns' <= MaxTxns
    BY DEF WorkersTyped, Statements
  <2>3. held' \in [Workers -> SUBSET Rows] /\ district' \in [Workers -> Districts]
    BY <2>1 DEF WorkersTyped
  <2> QED BY <2>2, <2>3 DEF WorkersTyped
<1>2. Others(k)
  BY DEF Others, WorkersTyped
<1>3. /\ pc'[k] = "idle" /\ input'[k] = NoInput /\ held'[k] = {}
      /\ quantity'[k] = NoReads /\ picked'[k] = NoReads /\ district'[k] = 1
  BY DEF WorkersTyped
<1>4. LocksFree(k)
  BY <1>3 DEF LocksFree
<1>5. WorkerInv(k)'
  BY <1>3 DEF WorkerInv, Control, OrderReads, Picks, NewOrderStatements, PaymentStatements,
              DeliveryStatements
<1> QED BY <1>1, <1>2, <1>4, <1>5

(* Locking a row that is free. *)
LEMMA LockEffect ==
  ASSUME WorkersTyped, NEW k \in Workers, NEW row \in Rows, Lock(k, row)
  PROVE  /\ held' \in [Workers -> SUBSET Rows]
         /\ \A j \in Workers \ {k} : held'[j] = held[j]
         /\ held'[k] = held[k] \cup {row}
         /\ LocksFree(k)
BY DEF Lock, WorkersTyped, LocksFree

(* The rows that statements lock are rows of the tables. *)
LEMMA RowTypes ==
  /\ \A w \in Warehouses, d \in Districts : DistrictRow(w, d) \in Rows
  /\ \A w \in Warehouses : WarehouseRow(w) \in Rows
  /\ \A ck \in CustomerKeys : CustomerRow(ck) \in Rows
  /\ \A s \in StockKeys : StockRow(s) \in Rows
  /\ \A w \in Warehouses, d \in Districts, o \in Nat : NewOrderRow(w, d, o) \in Rows
<1> USE DEF Rows
<1>1. \A w \in Warehouses, d \in Districts : DistrictRow(w, d) \in Rows
  BY DEF DistrictRow, DistrictKeys
<1>2. \A w \in Warehouses : WarehouseRow(w) \in Rows
  BY DEF WarehouseRow
<1>3. \A ck \in CustomerKeys : CustomerRow(ck) \in Rows
  BY DEF CustomerRow
<1>4. \A s \in StockKeys : StockRow(s) \in Rows
  BY DEF StockRow
<1>5. \A w \in Warehouses, d \in Districts, o \in Nat : NewOrderRow(w, d, o) \in Rows
  BY DEF NewOrderRow, OrderKeys
<1> QED BY <1>1, <1>2, <1>3, <1>4, <1>5

------------------------------------------------------------------------------
(* Steps that leave the tables alone. *)

LEMMA AbortInv ==
  ASSUME IInv, NEW k \in Workers, EndTx(k), UNCHANGED tables
  PROVE  IInv'
BY EndTxEffect, QuietStep DEF IInv, TypeOK

LEMMA BeginInv ==
  ASSUME IInv, NEW k \in Workers, NEW in \in Inputs, Begin(k, in)
  PROVE  IInv'
<1> USE DEF Begin, Goto, IInv, TypeOK
<1>1. \/ in.kind = "newOrder" /\ pc'[k] = "selectDistrict"
      \/ in.kind = "payment" /\ pc'[k] = "updateDistrict"
      \/ in.kind = "delivery" /\ pc'[k] = "selectNewOrder"
  BY InputsAssumption DEF InputsAssumption, IsNewOrderInput, IsPaymentInput, IsDeliveryInput,
                          WorkersTyped
<1>2. /\ input'[k] = in /\ held'[k] = {} /\ quantity'[k] = NoReads /\ picked'[k] = NoReads
      /\ district'[k] = 1
  BY DEF WorkersTyped, Control, reads
<1>3. WorkersTyped'
  BY InputsAssumption DEF WorkersTyped, Statements, reads, InputsAssumption
<1>4. Others(k)
  BY DEF Others, WorkersTyped, reads
<1>5. LocksFree(k)
  BY <1>2 DEF LocksFree
<1>6. Control(k)'
  BY <1>1, <1>2 DEF Control, NewOrderStatements, PaymentStatements, DeliveryStatements
<1>7. OrderReads(k)'
  BY <1>1, <1>2 DEF OrderReads
<1>8. Picks(k)'
  <2>1. {d \in Districts : d < 1} = {}
    BY DEF Districts
  <2> QED BY <1>1, <1>2, <2>1 DEF Picks, Visited, NoReads, DeliveryStatements
<1> QED BY <1>3, <1>4, <1>5, <1>6, <1>7, <1>8, QuietStep DEF WorkerInv

LEMMA SelectDistrictInv ==
  ASSUME IInv, NEW k \in Workers, SelectDistrict(k)
  PROVE  IInv'
<1> USE DEF SelectDistrict, Goto
<1>1. WorkersTyped /\ TablesTyped /\ WorkerInv(k)
  BY DEF IInv, TypeOK, WorkerInv
<1>2. /\ input[k] \in Inputs /\ input[k].kind = "newOrder"
      /\ input[k].w \in Warehouses /\ input[k].d \in Districts
  BY <1>1, InputOfStatement DEF WorkerInv, Control, NewOrderStatements, IsNewOrderInput
<1> DEFINE dk == <<input[k].w, input[k].d>>
           row == DistrictRow(input[k].w, input[k].d)
<1>3. row \in Rows
  BY <1>2, RowTypes
<1>4. /\ held' \in [Workers -> SUBSET Rows]
      /\ \A j \in Workers \ {k} : held'[j] = held[j]
      /\ held'[k] = held[k] \cup {row}
      /\ LocksFree(k)
  BY <1>1, <1>3, LockEffect
<1>5. /\ pc'[k] = "insertOrder" /\ input'[k] = input[k] /\ oID'[k] = d_next_o_id[dk]
      /\ quantity'[k] = quantity[k] /\ picked'[k] = picked[k] /\ d_next_o_id' = d_next_o_id
  BY <1>1 DEF WorkersTyped, tables
<1>6. WorkersTyped'
  <2>1. d_next_o_id[dk] \in Nat
    BY <1>1, <1>2 DEF TablesTyped, DistrictKeys
  <2> QED BY <1>1, <1>4, <2>1 DEF WorkersTyped, Statements
<1>7. Others(k)
  BY <1>1, <1>4 DEF Others, WorkersTyped
<1>8. Control(k)'
  BY <1>2, <1>5 DEF Control, NewOrderStatements, PaymentStatements, DeliveryStatements
<1>9. OrderReads(k)'
  BY <1>1, <1>4, <1>5 DEF WorkerInv, OrderReads
<1>10. Picks(k)'
  BY <1>1, <1>5 DEF WorkerInv, Picks, DeliveryStatements
<1> QED BY <1>4, <1>6, <1>7, <1>8, <1>9, <1>10, QuietStep DEF WorkerInv

LEMMA InsertOrderInv ==
  ASSUME IInv, NEW k \in Workers, InsertOrder(k)
  PROVE  IInv'
<1> USE DEF InsertOrder, Goto, reads
<1>1. WorkersTyped /\ WorkerInv(k)
  BY DEF IInv, TypeOK, WorkerInv
<1>2. /\ pc'[k] = "selectStock" /\ input'[k] = input[k] /\ oID'[k] = oID[k] /\ held'[k] = held[k]
      /\ quantity'[k] = quantity[k] /\ picked'[k] = picked[k] /\ d_next_o_id' = d_next_o_id
  BY <1>1 DEF WorkersTyped, tables
<1>3. WorkersTyped'
  BY <1>1 DEF WorkersTyped, Statements
<1>4. Others(k) /\ LocksFree(k)
  BY <1>1 DEF Others, LocksFree, WorkersTyped
<1>5. Control(k)'
  BY <1>1, <1>2 DEF WorkerInv, Control, NewOrderStatements, PaymentStatements, DeliveryStatements
<1>6. OrderReads(k)'
  BY <1>1, <1>2 DEF WorkerInv, OrderReads, NoReads
<1>7. Picks(k)'
  BY <1>1, <1>2 DEF WorkerInv, Picks, DeliveryStatements
<1> QED BY <1>3, <1>4, <1>5, <1>6, <1>7, QuietStep DEF WorkerInv

LEMMA SelectStockInv ==
  ASSUME IInv, NEW k \in Workers, NEW s \in StockKeys, SelectStock(k, s)
  PROVE  IInv'
<1> USE DEF SelectStock
<1>1. WorkersTyped /\ WorkerInv(k)
  BY DEF IInv, TypeOK, WorkerInv
<1>2. /\ held' \in [Workers -> SUBSET Rows]
      /\ \A j \in Workers \ {k} : held'[j] = held[j]
      /\ held'[k] = held[k] \cup {StockRow(s)}
      /\ LocksFree(k)
  BY <1>1, RowTypes, LockEffect
<1> DEFINE q == RefilledQuantity(stock[s].quantity - input[k].qty[s])
<1>3. /\ pc'[k] = pc[k] /\ input'[k] = input[k] /\ oID'[k] = oID[k]
      /\ quantity'[k] = Put(quantity[k], s, q)
      /\ picked'[k] = picked[k] /\ d_next_o_id' = d_next_o_id /\ stock' = stock
  BY <1>1 DEF WorkersTyped, tables
<1>4. /\ DOMAIN quantity'[k] = DOMAIN quantity[k] \cup {s}
      /\ quantity'[k][s] = q
      /\ \A t \in DOMAIN quantity[k] : t # s => quantity'[k][t] = quantity[k][t]
  BY <1>3, Zenon DEF Put
<1>5. WorkersTyped'
  BY <1>1, <1>2 DEF WorkersTyped
<1>6. Others(k)
  BY <1>1, <1>2 DEF Others, WorkersTyped
<1>7. Control(k)'
  BY <1>1, <1>3 DEF WorkerInv, Control, NewOrderStatements, PaymentStatements, DeliveryStatements
<1>8. OrderReads(k)'
  <2>1. /\ DistrictRow(input[k].w, input[k].d) \in held'[k]
        /\ oID'[k] = d_next_o_id'[<<input[k].w, input[k].d>>]
        /\ ~input[k].bad
        /\ DOMAIN quantity'[k] \subseteq DOMAIN input[k].qty
    BY <1>1, <1>2, <1>3, <1>4 DEF WorkerInv, OrderReads
  <2>2. ASSUME NEW t \in DOMAIN quantity'[k]
        PROVE  /\ StockRow(t) \in held'[k]
               /\ quantity'[k][t] = RefilledQuantity(stock[t].quantity - input[k].qty[t])
    <3>1. CASE t = s
      BY <3>1, <1>2, <1>4
    <3>2. CASE t # s
      BY <3>2, <1>1, <1>2, <1>4 DEF WorkerInv, OrderReads
    <3> QED BY <3>1, <3>2
  <2> QED BY <1>3, <2>1, <2>2 DEF OrderReads
<1>9. Picks(k)'
  BY <1>1, <1>3 DEF WorkerInv, Picks, DeliveryStatements
<1> QED BY <1>2, <1>5, <1>6, <1>7, <1>8, <1>9, QuietStep DEF WorkerInv

(* A statement of PAYMENT before its commit: it locks a row and goes on.       *)
LEMMA PaymentLockInv ==
  ASSUME IInv, NEW k \in Workers, NEW row \in Rows, NEW statement \in PaymentStatements,
         pc[k] \in PaymentStatements, Lock(k, row), Goto(k, statement),
         UNCHANGED <<tables, input, reads, district, txns>>
  PROVE  IInv'
<1> USE DEF Goto, reads
<1>1. WorkersTyped /\ WorkerInv(k)
  BY DEF IInv, TypeOK, WorkerInv
<1>2. /\ held' \in [Workers -> SUBSET Rows]
      /\ \A j \in Workers \ {k} : held'[j] = held[j]
      /\ LocksFree(k)
  BY <1>1, LockEffect
<1>3. /\ pc'[k] = statement /\ input'[k] = input[k]
      /\ quantity'[k] = quantity[k] /\ picked'[k] = picked[k]
  BY <1>1 DEF WorkersTyped
<1>4. WorkersTyped'
  BY <1>1, <1>2 DEF WorkersTyped, Statements, PaymentStatements
<1>5. Others(k)
  BY <1>1, <1>2 DEF Others, WorkersTyped
<1>6. Control(k)'
  BY <1>1, <1>3 DEF WorkerInv, Control, NewOrderStatements, PaymentStatements, DeliveryStatements
<1>7. OrderReads(k)' /\ Picks(k)'
  BY <1>1, <1>3 DEF WorkerInv, OrderReads, Picks, PaymentStatements, DeliveryStatements
<1> QED BY <1>2, <1>4, <1>5, <1>6, <1>7, QuietStep DEF WorkerInv

LEMMA PaymentStepInv ==
  ASSUME IInv, NEW k \in Workers,
         PaymentUpdateDistrict(k) \/ PaymentUpdateWarehouse(k) \/ PaymentSelectCustomer(k)
  PROVE  IInv'
<1>1. pc[k] \in PaymentStatements
  BY DEF PaymentUpdateDistrict, PaymentUpdateWarehouse, PaymentSelectCustomer, PaymentStatements
<1>2. input[k].w \in Warehouses /\ input[k].d \in Districts /\ input[k].cust \in CustomerKeys
  BY <1>1, InputOfStatement DEF IInv, IsPaymentInput
<1>3. CASE PaymentUpdateDistrict(k)
  BY <1>1, <1>2, <1>3, RowTypes, PaymentLockInv DEF PaymentUpdateDistrict, PaymentStatements
<1>4. CASE PaymentUpdateWarehouse(k)
  BY <1>1, <1>2, <1>4, RowTypes, PaymentLockInv DEF PaymentUpdateWarehouse, PaymentStatements
<1>5. CASE PaymentSelectCustomer(k)
  BY <1>1, <1>2, <1>5, RowTypes, PaymentLockInv DEF PaymentSelectCustomer, PaymentStatements
<1> QED BY <1>3, <1>4, <1>5

------------------------------------------------------------------------------
(* Members of NewOrdersOf. *)
LEMMA NewOrdersOfMember ==
  ASSUME new_order \subseteq OrderKeys, NEW w \in Warehouses, NEW d \in Districts
  PROVE  /\ NewOrdersOf(w, d) \subseteq Nat
         /\ \A o : o \in NewOrdersOf(w, d) <=> <<w, d, o>> \in new_order
<1>1. \A key \in new_order : /\ key[3] \in Nat
                             /\ key = <<key[1], key[2], key[3]>>
  BY DEF OrderKeys
<1>2. NewOrdersOf(w, d) \subseteq Nat
  BY <1>1 DEF NewOrdersOf
<1>3. ASSUME NEW o, o \in NewOrdersOf(w, d) PROVE <<w, d, o>> \in new_order
  BY <1>1, <1>3 DEF NewOrdersOf
<1>4. ASSUME NEW o, <<w, d, o>> \in new_order PROVE o \in NewOrdersOf(w, d)
  BY <1>4 DEF NewOrdersOf
<1> QED BY <1>2, <1>3, <1>4

LEMMA OldestIsLeast ==
  ASSUME new_order \subseteq OrderKeys, NEW w \in Warehouses, NEW d \in Districts,
         NewOrdersOf(w, d) # {}
  PROVE  /\ OldestNewOrder(w, d) \in NewOrdersOf(w, d)
         /\ \A p \in NewOrdersOf(w, d) : OldestNewOrder(w, d) <= p
BY NewOrdersOfMember, LeastElement DEF OldestNewOrder

(* And only the least one is no larger than any other.                         *)
LEMMA OldestIsTheLeast ==
  ASSUME new_order \subseteq OrderKeys, NEW w \in Warehouses, NEW d \in Districts,
         NEW o \in NewOrdersOf(w, d), \A p \in NewOrdersOf(w, d) : o <= p
  PROVE  o = OldestNewOrder(w, d)
<1>1. OldestNewOrder(w, d) \in NewOrdersOf(w, d) /\ OldestNewOrder(w, d) <= o
  BY OldestIsLeast
<1>2. o \in Nat /\ OldestNewOrder(w, d) \in Nat
  BY <1>1, NewOrdersOfMember
<1> QED BY <1>1, <1>2

------------------------------------------------------------------------------
(* The loops of DELIVERY: the districts visited after a step are those before, *)
(* with the current one once its order is picked.                              *)
LEMMA AfterPickEffect ==
  ASSUME WorkersTyped, NEW k \in Workers, pc[k] = "selectNewOrder", AfterPick(k)
  PROVE  /\ pc' \in [Workers -> Statements] /\ district' \in [Workers -> Districts]
         /\ \A j \in Workers \ {k} : pc'[j] = pc[j] /\ district'[j] = district[j]
         /\ pc'[k] \in {"selectNewOrder", "updateCustomer"}
         /\ Visited(k)' = Visited(k) \cup {district[k]}
<1> USE DEF AfterPick, Goto
<1>1. district[k] \in Districts /\ DistrictPerWarehouse \in Nat \ {0}
  BY TablesAssumption DEF WorkersTyped, TablesAssumption
<1>2. Visited(k) = {d \in Districts : d < district[k]}
  BY DEF Visited
<1>3. CASE k \in StoredProcs
  <2>1. pc' = [pc EXCEPT ![k] = "updateCustomer"] /\ district' = district
    BY <1>3
  <2>2. Visited(k)' = {d \in Districts : d <= district[k]}
    BY <1>3, <2>1 DEF Visited, WorkersTyped
  <2>3. Visited(k)' = Visited(k) \cup {district[k]}
    BY <1>1, <1>2, <2>2 DEF Districts
  <2> QED BY <2>1, <2>3 DEF WorkersTyped, Statements
<1>4. CASE k \notin StoredProcs /\ district[k] < DistrictPerWarehouse
  <2>1. pc' = pc /\ district' = [district EXCEPT ![k] = district[k] + 1]
    BY <1>4
  <2>2. district[k] + 1 \in Districts
    BY <1>1, <1>4 DEF Districts
  <2>3. Visited(k)' = {d \in Districts : d < district[k] + 1}
    BY <2>1 DEF Visited, WorkersTyped
  <2>4. Visited(k)' = Visited(k) \cup {district[k]}
    BY <1>1, <1>2, <2>3 DEF Districts
  <2> QED BY <2>1, <2>2, <2>4 DEF WorkersTyped
<1>5. CASE k \notin StoredProcs /\ ~(district[k] < DistrictPerWarehouse)
  <2>1. pc' = [pc EXCEPT ![k] = "updateCustomer"] /\ district' = [district EXCEPT ![k] = 1]
    BY <1>5
  <2>2. 1 \in Districts
    BY <1>1 DEF Districts
  <2>3. Visited(k)' = Districts
    BY <1>5, <2>1 DEF Visited, WorkersTyped
  <2>4. Visited(k)' = Visited(k) \cup {district[k]}
    BY <1>1, <1>2, <1>5, <2>3 DEF Districts
  <2> QED BY <2>1, <2>2, <2>4 DEF WorkersTyped, Statements
<1> QED BY <1>3, <1>4, <1>5

LEMMA AfterUpdateEffect ==
  ASSUME WorkersTyped, NEW k \in Workers, pc[k] = "updateCustomer", AfterUpdate(k)
  PROVE  /\ pc' \in [Workers -> Statements] /\ district' \in [Workers -> Districts]
         /\ \A j \in Workers \ {k} : pc'[j] = pc[j] /\ district'[j] = district[j]
         /\ pc'[k] \in DeliveryStatements
         /\ Visited(k)' = Visited(k)
<1> USE DEF AfterUpdate, Goto
<1>1. district[k] \in Districts /\ DistrictPerWarehouse \in Nat \ {0}
  BY TablesAssumption DEF WorkersTyped, TablesAssumption
<1>2. Visited(k) = {d \in Districts : k \in StoredProcs => d <= district[k]}
  BY DEF Visited
<1>3. CASE district[k] < DistrictPerWarehouse
  <2>1. /\ pc' = [pc EXCEPT ![k] = IF k \in StoredProcs THEN "selectNewOrder" ELSE "updateCustomer"]
        /\ district' = [district EXCEPT ![k] = district[k] + 1]
    BY <1>3
  <2>2. district[k] + 1 \in Districts
    BY <1>1, <1>3 DEF Districts
  <2>3. Visited(k)' = Visited(k)
    <3>1. CASE k \in StoredProcs
      <4>1. Visited(k)' = {d \in Districts : d < district[k] + 1}
        BY <2>1, <3>1 DEF Visited, WorkersTyped
      <4> QED BY <1>1, <1>2, <3>1, <4>1 DEF Districts
    <3>2. CASE k \notin StoredProcs
      <4>1. Visited(k)' = Districts
        BY <2>1, <3>2 DEF Visited, WorkersTyped
      <4> QED BY <1>2, <3>2, <4>1
    <3> QED BY <3>1, <3>2
  <2> QED BY <2>1, <2>2, <2>3 DEF WorkersTyped, Statements, DeliveryStatements
<1>4. CASE ~(district[k] < DistrictPerWarehouse)
  <2>1. pc' = [pc EXCEPT ![k] = "commitDelivery"] /\ district' = district
    BY <1>4
  <2>2. Visited(k)' = Districts
    BY <2>1 DEF Visited, WorkersTyped
  <2>3. Visited(k)' = Visited(k)
    BY <1>1, <1>2, <1>4, <2>2 DEF Districts
  <2> QED BY <2>1, <2>3 DEF WorkersTyped, Statements, DeliveryStatements
<1> QED BY <1>3, <1>4

(* New orders have positive numbers, 0 stands for no order.                    *)
LEMMA NewOrdersPositive ==
  ASSUME IInv, NEW w \in Warehouses, NEW d \in Districts, NEW o \in Nat, <<w, d, o>> \in new_order
  PROVE  o # 0
<1>1. <<w, d, o>> \in DOMAIN orders
  BY DEF IInv, TableInv, OrdersDeliveredWhole
<1>2. Numbered
  BY DEF IInv, TableInv
<1>3. \A v \in Warehouses, e \in Districts, p \in Nat : <<v, e, p>> \in DOMAIN orders => 1 <= p
  BY <1>2 DEF Numbered
<1>4. 1 <= o
  BY <1>1, <1>3, SMTT(30)
<1> QED BY <1>4

(* The order picked for a district, and the locks taken for it.                *)
LEMMA SelectNewOrderPick ==
  ASSUME IInv, NEW k \in Workers, SelectNewOrder(k)
  PROVE  \E o \in Nat :
           /\ picked' = [picked EXCEPT ![k] = Put(picked[k], district[k], o)]
           /\ o = 0 => held' = held
           /\ o # 0 => /\ Lock(k, NewOrderRow(input[k].w, district[k], o))
                       /\ <<input[k].w, district[k], o>> \in new_order
                       /\ \A p \in NewOrdersOf(input[k].w, district[k]) : o <= p
<1>1. pc[k] \in DeliveryStatements
  BY DEF SelectNewOrder, DeliveryStatements
<1>2. input[k].w \in Warehouses /\ district[k] \in Districts /\ new_order \subseteq OrderKeys
  BY <1>1, InputOfStatement DEF IInv, TypeOK, WorkersTyped, TablesTyped, IsDeliveryInput
<1> DEFINE w == input[k].w
           d == district[k]
<1>3. CASE NewOrdersOf(w, d) = {}
  BY <1>3 DEF SelectNewOrder
<1>4. CASE NewOrdersOf(w, d) # {}
  <2>1. /\ OldestNewOrder(w, d) \in NewOrdersOf(w, d)
        /\ \A p \in NewOrdersOf(w, d) : OldestNewOrder(w, d) <= p
    BY <1>2, <1>4, OldestIsLeast
  <2>2. OldestNewOrder(w, d) \in Nat /\ <<w, d, OldestNewOrder(w, d)>> \in new_order
    BY <1>2, <2>1, NewOrdersOfMember
  <2>3. /\ Lock(k, NewOrderRow(w, d, OldestNewOrder(w, d)))
        /\ picked' = [picked EXCEPT ![k] = Put(picked[k], d, OldestNewOrder(w, d))]
    BY <1>4 DEF SelectNewOrder
  <2>4. OldestNewOrder(w, d) # 0
    BY <1>2, <2>2, NewOrdersPositive
  <2> QED BY <2>1, <2>2, <2>3, <2>4
<1> QED BY <1>3, <1>4

LEMMA SelectNewOrderInv ==
  ASSUME IInv, NEW k \in Workers, SelectNewOrder(k)
  PROVE  IInv'
<1> DEFINE w == input[k].w
           d == district[k]
<1>1. /\ WorkersTyped /\ WorkerInv(k)
      /\ pc[k] = "selectNewOrder" /\ AfterPick(k) /\ UNCHANGED <<tables, input, oID, quantity, txns>>
  BY DEF IInv, TypeOK, WorkerInv, SelectNewOrder
<1>2. w \in Warehouses /\ d \in Districts
  BY <1>1, InputOfStatement DEF WorkerInv, WorkersTyped, DeliveryStatements, IsDeliveryInput
<1>3. PICK o \in Nat :
        /\ picked' = [picked EXCEPT ![k] = Put(picked[k], d, o)]
        /\ o = 0 => held' = held
        /\ o # 0 => /\ Lock(k, NewOrderRow(w, d, o))
                    /\ <<w, d, o>> \in new_order
                    /\ \A p \in NewOrdersOf(w, d) : o <= p
  BY SelectNewOrderPick
<1>4. /\ held' \in [Workers -> SUBSET Rows]
      /\ \A j \in Workers \ {k} : held'[j] = held[j]
      /\ held[k] \subseteq held'[k]
      /\ o # 0 => NewOrderRow(w, d, o) \in held'[k]
      /\ LocksFree(k)
  <2>1. CASE o = 0
    BY <1>1, <1>3, <2>1 DEF WorkersTyped, LocksFree
  <2>2. CASE o # 0
    BY <1>1, <1>2, <1>3, <2>2, RowTypes, LockEffect
  <2> QED BY <2>1, <2>2
<1>5. /\ pc' \in [Workers -> Statements] /\ district' \in [Workers -> Districts]
      /\ \A j \in Workers \ {k} : pc'[j] = pc[j] /\ district'[j] = district[j]
      /\ pc'[k] \in {"selectNewOrder", "updateCustomer"}
      /\ Visited(k)' = Visited(k) \cup {d}
  BY <1>1, AfterPickEffect
<1>6. /\ DOMAIN picked'[k] = DOMAIN picked[k] \cup {d}
      /\ picked'[k][d] = o
      /\ \A e \in DOMAIN picked[k] : e # d => picked'[k][e] = picked[k][e]
  <2>1. picked'[k] = Put(picked[k], d, o)
    BY <1>1, <1>3 DEF WorkersTyped
  <2> QED BY <2>1, Zenon DEF Put
<1>7. /\ input' = input /\ quantity' = quantity /\ new_order' = new_order
  BY <1>1 DEF tables
<1>8. WorkersTyped'
  BY <1>1, <1>3, <1>4, <1>5 DEF WorkersTyped
<1>9. Others(k)
  BY <1>1, <1>3, <1>4, <1>5 DEF Others, WorkersTyped
<1>10. Control(k)'
  BY <1>1, <1>5, <1>7
     DEF WorkerInv, Control, NewOrderStatements, PaymentStatements, DeliveryStatements
<1>11. OrderReads(k)'
  BY <1>1, <1>5, <1>7 DEF WorkerInv, OrderReads
<1>12. Picks(k)'
  <2>1. DOMAIN picked'[k] = Visited(k)'
    BY <1>1, <1>5, <1>6 DEF WorkerInv, Picks, DeliveryStatements
  <2>2. ASSUME NEW e \in DOMAIN picked'[k]
        PROVE  /\ picked'[k][e] \in Nat
               /\ picked'[k][e] # 0 => /\ NewOrderRow(w, e, picked'[k][e]) \in held'[k]
                                       /\ <<w, e, picked'[k][e]>> \in new_order
                                       /\ \A p \in NewOrdersOf(w, e) : picked'[k][e] <= p
    <3>1. CASE e = d
      BY <1>3, <1>4, <1>6, <3>1
    <3>2. CASE e # d
      BY <1>1, <1>4, <1>6, <3>2 DEF WorkerInv, Picks, DeliveryStatements
    <3> QED BY <3>1, <3>2
  <2>3. \A e : NewOrdersOf(w, e)' = NewOrdersOf(w, e)
    BY <1>7 DEF NewOrdersOf
  <2> QED BY <1>5, <1>7, <2>1, <2>2, <2>3 DEF Picks, DeliveryStatements
<1> QED BY <1>1, <1>4, <1>8, <1>9, <1>10, <1>11, <1>12, QuietStep DEF WorkerInv

LEMMA DeliveryUpdateCustomerInv ==
  ASSUME IInv, NEW k \in Workers, DeliveryUpdateCustomer(k)
  PROVE  IInv'
<1> DEFINE w == input[k].w
           d == district[k]
           o == picked[k][d]
<1>1. /\ TablesTyped /\ WorkersTyped /\ WorkerInv(k) /\ OrdersDeliveredWhole
      /\ pc[k] = "updateCustomer" /\ AfterUpdate(k) /\ UNCHANGED <<tables, input, reads, txns>>
  BY DEF IInv, TypeOK, WorkerInv, DeliveryUpdateCustomer, TableInv
<1>2. w \in Warehouses /\ d \in Districts
  BY <1>1, InputOfStatement DEF WorkerInv, WorkersTyped, DeliveryStatements, IsDeliveryInput
<1>3. /\ held' \in [Workers -> SUBSET Rows]
      /\ \A j \in Workers \ {k} : held'[j] = held[j]
      /\ held[k] \subseteq held'[k]
      /\ LocksFree(k)
  <2>1. CASE o = 0
    <3>1. held' = held
      BY <2>1 DEF DeliveryUpdateCustomer
    <3> QED BY <1>1, <3>1 DEF WorkersTyped, LocksFree
  <2>2. CASE o # 0
    <3>1. d \in DOMAIN picked[k]
      BY <1>1, <1>2 DEF WorkerInv, Picks, Visited, DeliveryStatements, WorkersTyped, Districts
    <3>2. <<w, d, o>> \in DOMAIN orders
      BY <1>1, <2>2, <3>1 DEF WorkerInv, Picks, DeliveryStatements, OrdersDeliveredWhole
    <3>3. <<w, d, orders[<<w, d, o>>].c>> \in CustomerKeys
      BY <1>1, <1>2, <3>2 DEF TablesTyped, CustomerKeys
    <3>4. NextRows(k) = {CustomerRow(<<w, d, orders[<<w, d, o>>].c>>)}
      BY <1>1, <2>2 DEF NextRows
    <3>5. Lock(k, CustomerRow(<<w, d, orders[<<w, d, o>>].c>>))
      BY <2>2, <3>4 DEF DeliveryUpdateCustomer
    <3> QED BY <1>1, <3>3, <3>5, RowTypes, LockEffect
  <2> QED BY <2>1, <2>2
<1>4. /\ pc' \in [Workers -> Statements] /\ district' \in [Workers -> Districts]
      /\ \A j \in Workers \ {k} : pc'[j] = pc[j] /\ district'[j] = district[j]
      /\ pc'[k] \in DeliveryStatements
      /\ Visited(k)' = Visited(k)
  BY <1>1, AfterUpdateEffect
<1>5. input' = input /\ quantity' = quantity /\ picked' = picked /\ new_order' = new_order
  BY <1>1 DEF tables, reads
<1>6. WorkersTyped'
  BY <1>1, <1>3, <1>4 DEF WorkersTyped, reads
<1>7. Others(k)
  BY <1>1, <1>3, <1>4 DEF Others, WorkersTyped, reads
<1>8. Control(k)'
  BY <1>1, <1>4, <1>5
     DEF WorkerInv, Control, NewOrderStatements, PaymentStatements, DeliveryStatements
<1>9. OrderReads(k)'
  BY <1>1, <1>4, <1>5 DEF WorkerInv, OrderReads, DeliveryStatements
<1>10. Picks(k)'
  <2>1. \A e : NewOrdersOf(w, e)' = NewOrdersOf(w, e)
    BY <1>5 DEF NewOrdersOf
  <2> QED BY <1>1, <1>3, <1>4, <1>5, <2>1 DEF WorkerInv, Picks, DeliveryStatements
<1> QED BY <1>1, <1>3, <1>6, <1>7, <1>8, <1>9, <1>10, QuietStep DEF WorkerInv

------------------------------------------------------------------------------
(* The commits, which change the tables. *)

LEMMA CommitPaymentInv ==
  ASSUME IInv, NEW k \in Workers, CommitPayment(k)
  PROVE  IInv'
<1> USE DEF CommitPayment, Pay
<1>1. WorkersTyped /\ TablesTyped
  BY DEF IInv, TypeOK
<1>2. WorkersTyped' /\ Others(k) /\ LocksFree(k) /\ WorkerInv(k)'
  BY <1>1, EndTxEffect
<1>3. /\ input[k].w \in Warehouses /\ input[k].d \in Districts
      /\ input[k].cust \in CustomerKeys /\ input[k].h_amount \in Nat
  BY InputOfStatement DEF IInv, PaymentStatements, IsPaymentInput
<1>4. <<input[k].w, input[k].d>> \in DistrictKeys
  BY <1>3 DEF DistrictKeys
<1>5. w_ytd' \in [Warehouses -> Nat] /\ d_ytd' \in [DistrictKeys -> Nat]
  BY <1>1, <1>3, <1>4 DEF TablesTyped
<1>6. c_balance' \in [CustomerKeys -> Int] /\ c_ytd_payment' \in [CustomerKeys -> Nat]
  BY <1>1, <1>3 DEF TablesTyped
<1>7. TablesTyped'
  BY <1>1, <1>5, <1>6 DEF TablesTyped
<1>8. \A j \in Workers : WorkerInv(j)'
  BY <1>2, OthersKeepInv DEF IInv, WorkerInv
<1>9. TableInv'
  BY DEF IInv, TableInv, Numbered, LastUndelivered, OrdersDeliveredWhole, OrderFields
<1>10. LockInv'
  BY <1>2, LocksStayExclusive DEF IInv
<1> QED BY <1>2, <1>7, <1>8, <1>9, <1>10 DEF IInv, TypeOK, WorkerInv

(* The number of a new order is the district's next one. *)
LEMMA CommitNewOrderReads ==
  ASSUME IInv, NEW k \in Workers, CommitNewOrder(k)
  PROVE  /\ input[k].w \in Warehouses /\ input[k].d \in Districts /\ input[k].c \in CustomerIds
         /\ input[k].amount \in Nat
         /\ DOMAIN input[k].qty \subseteq StockKeys
         /\ DistrictRow(input[k].w, input[k].d) \in held[k]
         /\ oID[k] = d_next_o_id[<<input[k].w, input[k].d>>]
         /\ oID[k] \in Nat \ {0}
         /\ \A s \in DOMAIN input[k].qty :
              /\ StockRow(s) \in held[k]
              /\ quantity[k][s] = RefilledQuantity(stock[s].quantity - input[k].qty[s])
<1>1. pc[k] = "selectStock" /\ DOMAIN quantity[k] = DOMAIN input[k].qty
  BY DEF CommitNewOrder
<1>2. IsNewOrderInput(input[k])
  BY <1>1, InputOfStatement DEF IInv, NewOrderStatements
<1>3. OrderReads(k)
  BY DEF IInv
<1>4. d_next_o_id[<<input[k].w, input[k].d>>] \in Nat \ {0}
  BY <1>2 DEF IInv, TypeOK, TablesTyped, DistrictKeys, IsNewOrderInput
<1> QED BY <1>1, <1>2, <1>3, <1>4 DEF OrderReads, IsNewOrderInput

(* What PlaceOrder does to the tables that number orders and list new ones.    *)
LEMMA CommitNewOrderTables ==
  ASSUME IInv, NEW k \in Workers, CommitNewOrder(k)
  PROVE  LET dk == <<input[k].w, input[k].d>>
             key == <<input[k].w, input[k].d, oID[k]>>
         IN /\ d_next_o_id' = [d_next_o_id EXCEPT ![dk] = oID[k] + 1]
            /\ DOMAIN orders' = DOMAIN orders \cup {key}
            /\ DOMAIN order_line' = DOMAIN order_line \cup {key}
            /\ \A ok \in DOMAIN orders : ok # key => orders'[ok] = orders[ok]
            /\ \A ok \in DOMAIN order_line : ok # key => order_line'[ok] = order_line[ok]
            /\ new_order' = new_order \cup {key}
            /\ {"c", "carrier"} \subseteq DOMAIN orders'[key]
            /\ orders'[key].c = input[k].c /\ orders'[key].carrier = FALSE
            /\ {"amount", "delivered"} \subseteq DOMAIN order_line'[key]
            /\ order_line'[key].amount = input[k].amount /\ order_line'[key].delivered = FALSE
            /\ UNCHANGED <<money, c_balance>>
<1> DEFINE in == input[k]
           dk == <<in.w, in.d>>
           key == <<in.w, in.d, oID[k]>>
           order == [c |-> in.c, ol_cnt |-> Cardinality(DOMAIN in.qty), carrier |-> FALSE]
           lines == [qty |-> in.qty, amount |-> in.amount, delivered |-> FALSE]
<1>1. /\ d_next_o_id' = [d_next_o_id EXCEPT ![dk] = oID[k] + 1]
      /\ orders' = Put(orders, key, order)
      /\ new_order' = new_order \cup {key}
      /\ order_line' = Put(order_line, key, lines)
      /\ UNCHANGED <<money, c_balance>>
  BY DEF CommitNewOrder, PlaceOrder
<1>2. /\ {"c", "carrier"} \subseteq DOMAIN order /\ order.c = in.c /\ order.carrier = FALSE
      /\ {"amount", "delivered"} \subseteq DOMAIN lines
      /\ lines.amount = in.amount /\ lines.delivered = FALSE
  OBVIOUS
<1> HIDE DEF order, lines, key
<1>3. /\ DOMAIN orders' = DOMAIN orders \cup {key} /\ orders'[key] = order
      /\ \A ok \in DOMAIN orders : ok # key => orders'[ok] = orders[ok]
  BY <1>1, Zenon DEF Put
<1>4. /\ DOMAIN order_line' = DOMAIN order_line \cup {key} /\ order_line'[key] = lines
      /\ \A ok \in DOMAIN order_line : ok # key => order_line'[ok] = order_line[ok]
  BY <1>1, Zenon DEF Put
<1> QED BY <1>1, <1>2, <1>3, <1>4 DEF key

LEMMA CommitNewOrderTypes ==
  ASSUME IInv, NEW k \in Workers, CommitNewOrder(k)
  PROVE  TablesTyped'
<1> DEFINE dk == <<input[k].w, input[k].d>>
           key == <<input[k].w, input[k].d, oID[k]>>
<1>1. TablesTyped
  BY DEF IInv, TypeOK
<1>2. /\ dk \in DistrictKeys /\ key \in OrderKeys /\ oID[k] \in Nat
      /\ input[k].c \in CustomerIds /\ input[k].amount \in Nat
  BY CommitNewOrderReads DEF DistrictKeys, OrderKeys
<1>3. /\ d_next_o_id' = [d_next_o_id EXCEPT ![dk] = oID[k] + 1]
      /\ DOMAIN orders' = DOMAIN orders \cup {key}
      /\ DOMAIN order_line' = DOMAIN order_line \cup {key}
      /\ \A ok \in DOMAIN orders : ok # key => orders'[ok] = orders[ok]
      /\ \A ok \in DOMAIN order_line : ok # key => order_line'[ok] = order_line[ok]
      /\ new_order' = new_order \cup {key}
      /\ orders'[key].c = input[k].c /\ orders'[key].carrier = FALSE
      /\ order_line'[key].amount = input[k].amount /\ order_line'[key].delivered = FALSE
      /\ UNCHANGED <<money, c_balance>>
  BY CommitNewOrderTables
<1> HIDE DEF dk, key
<1>4. d_next_o_id' \in [DistrictKeys -> Nat \ {0}]
  BY <1>1, <1>2, <1>3 DEF TablesTyped
<1>5. /\ new_order' \subseteq OrderKeys /\ DOMAIN orders' \subseteq OrderKeys
      /\ DOMAIN order_line' = DOMAIN orders'
  BY <1>1, <1>2, <1>3 DEF TablesTyped
<1>6. \A ok \in DOMAIN orders' : orders'[ok].c \in CustomerIds /\ orders'[ok].carrier \in BOOLEAN
  BY <1>1, <1>2, <1>3 DEF TablesTyped
<1>7. \A ok \in DOMAIN orders' : /\ order_line'[ok].amount \in Nat
                                 /\ order_line'[ok].delivered \in BOOLEAN
  BY <1>1, <1>2, <1>3 DEF TablesTyped
<1> QED BY <1>1, <1>3, <1>4, <1>5, <1>6, <1>7 DEF TablesTyped, money

LEMMA CommitNewOrderTableInv ==
  ASSUME IInv, NEW k \in Workers, CommitNewOrder(k)
  PROVE  TableInv' /\ <<input[k].w, input[k].d, oID[k]>> \notin DOMAIN orders
<1> DEFINE kw == input[k].w
           kd == input[k].d
           n == oID[k]
           key == <<kw, kd, n>>
<1>1. /\ TablesTyped /\ Numbered /\ LastUndelivered /\ OrdersDeliveredWhole /\ OrderFields
  BY DEF IInv, TypeOK, TableInv
<1>2. /\ kw \in Warehouses /\ kd \in Districts
      /\ n = d_next_o_id[<<kw, kd>>] /\ n \in Nat \ {0} /\ <<kw, kd>> \in DistrictKeys
  BY CommitNewOrderReads DEF DistrictKeys
<1>3. /\ d_next_o_id' = [d_next_o_id EXCEPT ![<<kw, kd>>] = n + 1]
      /\ DOMAIN orders' = DOMAIN orders \cup {key}
      /\ DOMAIN order_line' = DOMAIN order_line \cup {key}
      /\ \A ok \in DOMAIN orders : ok # key => orders'[ok] = orders[ok]
      /\ \A ok \in DOMAIN order_line : ok # key => order_line'[ok] = order_line[ok]
      /\ new_order' = new_order \cup {key}
      /\ {"c", "carrier"} \subseteq DOMAIN orders'[key]
      /\ orders'[key].carrier = FALSE
      /\ {"amount", "delivered"} \subseteq DOMAIN order_line'[key]
      /\ order_line'[key].delivered = FALSE
  BY CommitNewOrderTables
<1>4. d_next_o_id \in [DistrictKeys -> Nat \ {0}]
  BY <1>1 DEF TablesTyped
<1>5. /\ d_next_o_id'[<<kw, kd>>] = n + 1
      /\ \A w \in Warehouses, d \in Districts :
           <<w, d>> # <<kw, kd>> => d_next_o_id'[<<w, d>>] = d_next_o_id[<<w, d>>]
  BY <1>2, <1>3, <1>4 DEF DistrictKeys
<1> HIDE DEF kw, kd, n
<1>6. key \notin DOMAIN orders
  BY <1>1, <1>2 DEF Numbered
<1>7. ASSUME NEW w \in Warehouses, NEW d \in Districts, NEW o \in Nat
      PROVE  <<w, d, o>> \in DOMAIN orders' <=> 1 <= o /\ o < d_next_o_id'[<<w, d>>]
  <2>1. <<w, d, o>> \in DOMAIN orders <=> 1 <= o /\ o < d_next_o_id[<<w, d>>]
    BY <1>1 DEF Numbered
  <2>2. CASE w = kw /\ d = kd
    BY <1>2, <1>3, <1>5, <2>1, <2>2
  <2>3. CASE ~(w = kw /\ d = kd)
    BY <1>3, <1>5, <2>1, <2>3
  <2> QED BY <2>2, <2>3
<1>8. ASSUME NEW w \in Warehouses, NEW d \in Districts, NEW o \in Nat, NEW p \in Nat,
             <<w, d, o>> \in new_order', o <= p, p < d_next_o_id'[<<w, d>>]
      PROVE  <<w, d, p>> \in new_order'
  <2>1. /\ <<w, d, o>> \in new_order /\ o <= p /\ p < d_next_o_id[<<w, d>>]
        => <<w, d, p>> \in new_order
    BY <1>1 DEF LastUndelivered
  <2>2. CASE w = kw /\ d = kd
    <3>1. p = n \/ p < n
      BY <1>2, <1>5, <1>8, <2>2
    <3>2. o = n \/ <<w, d, o>> \in new_order
      BY <1>3, <1>8
    <3> QED BY <1>2, <1>3, <1>8, <2>1, <2>2, <3>1, <3>2
  <2>3. CASE ~(w = kw /\ d = kd)
    BY <1>3, <1>5, <1>8, <2>1, <2>3
  <2> QED BY <2>2, <2>3
<1>9. OrdersDeliveredWhole'
  BY <1>1, <1>3, <1>6 DEF OrdersDeliveredWhole, TablesTyped
<1>10. OrderFields'
  BY <1>1, <1>3, <1>6 DEF OrderFields, TablesTyped
<1> QED BY <1>6, <1>7, <1>8, <1>9, <1>10 DEF TableInv, Numbered, LastUndelivered, kw, kd, n

(* What an order has read is not changed by another order's commit.            *)
LEMMA CommitNewOrderKeepsReads ==
  ASSUME IInv, NEW k \in Workers, CommitNewOrder(k), NEW j \in Workers \ {k}, Others(k)
  PROVE  OrderReads(j)'
<1> DEFINE dk == <<input[k].w, input[k].d>>
           dj == <<input[j].w, input[j].d>>
<1>1. /\ pc'[j] = pc[j] /\ input'[j] = input[j] /\ held'[j] = held[j] /\ oID'[j] = oID[j]
      /\ quantity'[j] = quantity[j]
  BY DEF Others
<1>2. OrderReads(j) /\ \A row \in held[k] : row \notin held[j]
  BY DEF IInv, LockInv
<1>3. CASE pc[j] \in {"insertOrder", "selectStock"}
  <2>1. IsNewOrderInput(input[j])
    BY <1>3, InputOfStatement DEF IInv, NewOrderStatements
  <2>2. dj # dk
    BY <1>2, <1>3, CommitNewOrderReads DEF OrderReads, DistrictRow
  <2>3. d_next_o_id'[dj] = d_next_o_id[dj]
    <3>1. dj \in DistrictKeys
      BY <2>1 DEF IsNewOrderInput, DistrictKeys
    <3>2. d_next_o_id' = [d_next_o_id EXCEPT ![dk] = oID[k] + 1]
      BY CommitNewOrderTables
    <3>3. d_next_o_id \in [DistrictKeys -> Nat \ {0}]
      BY DEF IInv, TypeOK, TablesTyped
    <3> QED BY <2>2, <3>1, <3>2, <3>3
  <2>4. ASSUME pc[j] = "selectStock", NEW s \in DOMAIN quantity[j]
        PROVE  stock'[s] = stock[s]
    <3>1. s \in StockKeys /\ StockRow(s) \in held[j]
      BY <1>2, <2>1, <2>4 DEF OrderReads, IsNewOrderInput
    <3>2. s \notin DOMAIN input[k].qty
      BY <1>2, <3>1, CommitNewOrderReads
    <3> QED BY <3>1, <3>2 DEF CommitNewOrder, PlaceOrder
  <2> QED BY <1>1, <1>2, <1>3, <2>3, <2>4 DEF OrderReads
<1>4. CASE pc[j] \notin {"insertOrder", "selectStock"}
  BY <1>1, <1>2, <1>4 DEF OrderReads
<1> QED BY <1>3, <1>4

(* A new order has a higher number than any that a delivery has picked.        *)
LEMMA CommitNewOrderKeepsPicks ==
  ASSUME IInv, NEW k \in Workers, CommitNewOrder(k), NEW j \in Workers \ {k}, Others(k)
  PROVE  Picks(j)'
<1>1. /\ pc'[j] = pc[j] /\ input'[j] = input[j] /\ held'[j] = held[j]
      /\ picked'[j] = picked[j] /\ district'[j] = district[j]
  BY DEF Others
<1>2. Picks(j)
  BY DEF IInv
<1>3. CASE pc[j] \in DeliveryStatements
  <2>1. input[j].w \in Warehouses
    BY <1>3, InputOfStatement DEF IInv, IsDeliveryInput
  <2>2. ASSUME NEW d \in DOMAIN picked[j], picked[j][d] # 0
        PROVE  /\ <<input[j].w, d, picked[j][d]>> \in new_order'
               /\ \A p \in NewOrdersOf(input[j].w, d)' : picked[j][d] <= p
    <3> DEFINE w == input[j].w
               o == picked[j][d]
               n == oID[k]
    <3>1. /\ d \in Districts /\ o \in Nat
          /\ <<w, d, o>> \in new_order
          /\ \A p \in NewOrdersOf(w, d) : o <= p
      BY <1>2, <1>3, <2>2 DEF Picks, Visited
    <3>2. /\ new_order' = new_order \cup {<<input[k].w, input[k].d, n>>}
          /\ input[k].w \in Warehouses /\ input[k].d \in Districts /\ n \in Nat
          /\ n = d_next_o_id[<<input[k].w, input[k].d>>]
      BY CommitNewOrderTables, CommitNewOrderReads
    <3>3. NewOrdersOf(w, d)' = {key[3] : key \in {i \in new_order' : i[1] = w /\ i[2] = d}}
      BY <1>1 DEF NewOrdersOf
    <3>4. ASSUME NEW p \in NewOrdersOf(w, d)' PROVE o <= p
      <4>1. PICK key \in new_order' : key[1] = w /\ key[2] = d /\ key[3] = p
        BY <3>3, <3>4
      <4>2. CASE key \in new_order
        BY <3>1, <4>1, <4>2 DEF NewOrdersOf
      <4>3. CASE key = <<input[k].w, input[k].d, n>>
        <5>1. Numbered /\ <<w, d, o>> \in DOMAIN orders
          BY <3>1 DEF IInv, TableInv, OrdersDeliveredWhole
        <5>2. o < d_next_o_id[<<w, d>>]
          BY <2>1, <3>1, <5>1 DEF Numbered
        <5>3. p = n /\ n = d_next_o_id[<<w, d>>]
          BY <3>2, <4>1, <4>3
        <5> QED BY <3>1, <3>2, <5>2, <5>3
      <4> QED BY <3>2, <4>2, <4>3
    <3> QED BY <3>1, <3>2, <3>4
  <2> QED BY <1>1, <1>2, <1>3, <2>2 DEF Picks, Visited
<1>4. CASE pc[j] \notin DeliveryStatements
  BY <1>1, <1>2, <1>4 DEF Picks
<1> QED BY <1>3, <1>4

LEMMA CommitNewOrderInv ==
  ASSUME IInv, NEW k \in Workers, CommitNewOrder(k)
  PROVE  IInv'
<1>1. WorkersTyped' /\ Others(k) /\ LocksFree(k) /\ WorkerInv(k)'
  BY EndTxEffect DEF IInv, TypeOK, CommitNewOrder
<1>2. TablesTyped' /\ TableInv'
  BY CommitNewOrderTypes, CommitNewOrderTableInv
<1>3. ASSUME NEW j \in Workers \ {k} PROVE WorkerInv(j)'
  <2>1. Control(j)'
    BY <1>1 DEF IInv, Others, Control
  <2> QED BY <1>1, <2>1, CommitNewOrderKeepsReads, CommitNewOrderKeepsPicks DEF WorkerInv
<1>4. LockInv'
  BY <1>1, LocksStayExclusive DEF IInv
<1> QED BY <1>1, <1>2, <1>3, <1>4 DEF IInv, TypeOK, WorkerInv

(* The keys of the orders that the delivery of k has picked. *)
PickedKeys(k) == {<<input[k].w, d, picked[k][d]>> : d \in {e \in Districts : picked[k][e] # 0}}

LEMMA CommitDeliveryReads ==
  ASSUME IInv, NEW k \in Workers, CommitDelivery(k)
  PROVE  /\ input[k].w \in Warehouses
         /\ \A d \in Districts :
              LET o == picked[k][d]
              IN o # 0 => /\ o \in Nat
                          /\ NewOrderRow(input[k].w, d, o) \in held[k]
                          /\ <<input[k].w, d, o>> \in new_order
                          /\ \A p \in NewOrdersOf(input[k].w, d) : o <= p
         /\ PickedKeys(k) \subseteq new_order
<1>1. pc[k] = "commitDelivery"
  BY DEF CommitDelivery
<1>2. input[k].w \in Warehouses
  BY <1>1, InputOfStatement DEF IInv, DeliveryStatements, IsDeliveryInput
<1>3. Picks(k) /\ Visited(k) = Districts
  BY <1>1 DEF IInv, Visited
<1> QED BY <1>1, <1>2, <1>3 DEF Picks, DeliveryStatements, PickedKeys

LEMMA CommitDeliveryTables ==
  ASSUME IInv, NEW k \in Workers, CommitDelivery(k)
  PROVE  /\ new_order' = new_order \ PickedKeys(k)
         /\ DOMAIN orders' = DOMAIN orders /\ DOMAIN order_line' = DOMAIN order_line
         /\ \A key \in DOMAIN orders :
              /\ {"c", "carrier"} \subseteq DOMAIN orders'[key]
              /\ orders'[key].c = orders[key].c
              /\ orders'[key].carrier = (orders[key].carrier \/ key \in PickedKeys(k))
              /\ {"amount", "delivered"} \subseteq DOMAIN order_line'[key]
              /\ order_line'[key].amount = order_line[key].amount
              /\ order_line'[key].delivered = (order_line[key].delivered \/ key \in PickedKeys(k))
         /\ UNCHANGED <<money, d_next_o_id, stock>>
         /\ c_balance' \in [CustomerKeys -> Int]
<1> DEFINE w == input[k].w
           P == [d \in {e \in Districts : picked[k][e] # 0} |-> picked[k][d]]
           Charge(ck) == LET key == <<w, ck[2], P[ck[2]]>>
                         IN IF /\ ck[1] = w
                               /\ ck[2] \in DOMAIN P
                               /\ orders[key].c = ck[3]
                            THEN order_line[key].amount ELSE 0
<1>1. {<<w, d, P[d]>> : d \in DOMAIN P} = PickedKeys(k)
  BY DEF PickedKeys
<1>2. /\ new_order' = new_order \ PickedKeys(k)
      /\ orders' = [key \in DOMAIN orders |->
                     [orders[key] EXCEPT !.carrier = @ \/ key \in PickedKeys(k)]]
      /\ order_line' = [key \in DOMAIN order_line |->
                         [order_line[key] EXCEPT !.delivered = @ \/ key \in PickedKeys(k)]]
      /\ c_balance' = [ck \in CustomerKeys |-> c_balance[ck] + Charge(ck)]
      /\ UNCHANGED <<money, d_next_o_id, stock>>
  BY <1>1 DEF CommitDelivery, Deliver
<1>3. TablesTyped /\ OrderFields
  BY DEF IInv, TypeOK, TableInv
<1>4. DOMAIN orders' = DOMAIN orders /\ DOMAIN order_line' = DOMAIN order_line
  BY <1>2
<1>5. ASSUME NEW key \in DOMAIN orders
      PROVE  /\ {"c", "carrier"} \subseteq DOMAIN orders'[key]
             /\ orders'[key].c = orders[key].c
             /\ orders'[key].carrier = (orders[key].carrier \/ key \in PickedKeys(k))
  <2>1. orders'[key] = [orders[key] EXCEPT !.carrier = orders[key].carrier \/ key \in PickedKeys(k)]
    BY <1>2
  <2>2. {"c", "carrier"} \subseteq DOMAIN orders[key]
    BY <1>3 DEF OrderFields
  <2> QED BY <2>1, <2>2
<1>6. ASSUME NEW key \in DOMAIN orders
      PROVE  /\ {"amount", "delivered"} \subseteq DOMAIN order_line'[key]
             /\ order_line'[key].amount = order_line[key].amount
             /\ order_line'[key].delivered = (order_line[key].delivered \/ key \in PickedKeys(k))
  <2>1. order_line'[key] =
          [order_line[key] EXCEPT !.delivered = order_line[key].delivered \/ key \in PickedKeys(k)]
    BY <1>2, <1>3 DEF TablesTyped
  <2>2. {"amount", "delivered"} \subseteq DOMAIN order_line[key]
    BY <1>3 DEF OrderFields
  <2> QED BY <2>1, <2>2
<1>7. ASSUME NEW ck \in CustomerKeys PROVE Charge(ck) \in Int
  <2>1. CASE ck[1] = w /\ ck[2] \in DOMAIN P
    <3>1. <<w, ck[2], P[ck[2]]>> \in PickedKeys(k)
      BY <1>1, <2>1
    <3>2. <<w, ck[2], P[ck[2]]>> \in DOMAIN orders
      BY <3>1, CommitDeliveryReads DEF IInv, TableInv, OrdersDeliveredWhole
    <3>3. order_line[<<w, ck[2], P[ck[2]]>>].amount \in Int
      BY <1>3, <3>2 DEF TablesTyped
    <3> QED BY <3>3
  <2>2. CASE ~(ck[1] = w /\ ck[2] \in DOMAIN P)
    BY <2>2
  <2> QED BY <2>1, <2>2
<1> HIDE DEF Charge
<1>8. c_balance' \in [CustomerKeys -> Int]
  BY <1>2, <1>3, <1>7 DEF TablesTyped
<1> QED BY <1>2, <1>4, <1>5, <1>6, <1>8

LEMMA CommitDeliveryTypes ==
  ASSUME IInv, NEW k \in Workers, CommitDelivery(k)
  PROVE  TablesTyped'
<1>1. TablesTyped
  BY DEF IInv, TypeOK
<1>2. /\ new_order' = new_order \ PickedKeys(k)
      /\ DOMAIN orders' = DOMAIN orders /\ DOMAIN order_line' = DOMAIN order_line
      /\ \A key \in DOMAIN orders :
           /\ orders'[key].c = orders[key].c
           /\ orders'[key].carrier = (orders[key].carrier \/ key \in PickedKeys(k))
           /\ order_line'[key].amount = order_line[key].amount
           /\ order_line'[key].delivered = (order_line[key].delivered \/ key \in PickedKeys(k))
      /\ UNCHANGED <<money, d_next_o_id, stock>>
      /\ c_balance' \in [CustomerKeys -> Int]
  BY CommitDeliveryTables
<1>3. \A key \in DOMAIN orders' : orders'[key].c \in CustomerIds /\ orders'[key].carrier \in BOOLEAN
  BY <1>1, <1>2 DEF TablesTyped
<1>4. \A key \in DOMAIN orders' : /\ order_line'[key].amount \in Nat
                                  /\ order_line'[key].delivered \in BOOLEAN
  BY <1>1, <1>2 DEF TablesTyped
<1> QED BY <1>1, <1>2, <1>3, <1>4 DEF TablesTyped, money

(* The undelivered orders stay the last: what is delivered is the oldest one.  *)
LEMMA CommitDeliveryTableInv ==
  ASSUME IInv, NEW k \in Workers, CommitDelivery(k)
  PROVE  TableInv'
<1>1. /\ TablesTyped /\ Numbered /\ LastUndelivered /\ OrdersDeliveredWhole /\ OrderFields
  BY DEF IInv, TypeOK, TableInv
<1>2. /\ new_order' = new_order \ PickedKeys(k)
      /\ DOMAIN orders' = DOMAIN orders /\ DOMAIN order_line' = DOMAIN order_line
      /\ \A key \in DOMAIN orders :
           /\ {"c", "carrier"} \subseteq DOMAIN orders'[key]
           /\ orders'[key].carrier = (orders[key].carrier \/ key \in PickedKeys(k))
           /\ {"amount", "delivered"} \subseteq DOMAIN order_line'[key]
           /\ order_line'[key].delivered = (order_line[key].delivered \/ key \in PickedKeys(k))
      /\ d_next_o_id' = d_next_o_id
  BY CommitDeliveryTables
<1>3. PickedKeys(k) \subseteq new_order
  BY CommitDeliveryReads
<1>4. Numbered'
  BY <1>1, <1>2 DEF Numbered
<1>5. ASSUME NEW w \in Warehouses, NEW d \in Districts, NEW o \in Nat, NEW p \in Nat,
             <<w, d, o>> \in new_order', o <= p, p < d_next_o_id'[<<w, d>>]
      PROVE  <<w, d, p>> \in new_order'
  <2>1. <<w, d, o>> \in new_order /\ <<w, d, o>> \notin PickedKeys(k)
    BY <1>2, <1>5
  <2>2. <<w, d, p>> \in new_order
    BY <1>1, <1>2, <1>5, <2>1 DEF LastUndelivered
  <2>3. ASSUME <<w, d, p>> \in PickedKeys(k) PROVE FALSE
    <3>1. w = input[k].w /\ p = picked[k][d] /\ picked[k][d] # 0
      BY <2>3 DEF PickedKeys
    <3>2. o \in NewOrdersOf(w, d)
      BY <2>1 DEF NewOrdersOf
    <3>3. p <= o
      BY <3>1, <3>2, CommitDeliveryReads
    <3>4. p = o
      BY <1>5, <3>3
    <3> QED BY <2>1, <2>3, <3>4
  <2> QED BY <1>2, <2>2, <2>3
<1>6. OrdersDeliveredWhole'
  <2>1. new_order' \subseteq DOMAIN orders'
    BY <1>1, <1>2 DEF OrdersDeliveredWhole
  <2>2. ASSUME NEW key \in DOMAIN orders
        PROVE  /\ orders'[key].carrier = (key \notin new_order')
               /\ order_line'[key].delivered = (key \notin new_order')
    <3>1. /\ orders[key].carrier = (key \notin new_order)
          /\ order_line[key].delivered = (key \notin new_order)
      BY <1>1 DEF OrdersDeliveredWhole
    <3>2. (key \notin new_order \/ key \in PickedKeys(k)) = (key \notin new_order')
      BY <1>2, <1>3
    <3> QED BY <1>2, <3>1, <3>2
  <2> QED BY <1>2, <2>1, <2>2 DEF OrdersDeliveredWhole
<1>7. OrderFields'
  BY <1>2 DEF OrderFields
<1> QED BY <1>4, <1>5, <1>6, <1>7 DEF TableInv, LastUndelivered

(* Two deliveries have not picked the same order: each has locked its row.     *)
LEMMA CommitDeliveryKeepsPicks ==
  ASSUME IInv, NEW k \in Workers, CommitDelivery(k), NEW j \in Workers \ {k}, Others(k)
  PROVE  Picks(j)'
<1>1. /\ pc'[j] = pc[j] /\ input'[j] = input[j] /\ held'[j] = held[j]
      /\ picked'[j] = picked[j] /\ district'[j] = district[j]
  BY DEF Others
<1>2. Picks(j) /\ \A row \in held[k] : row \notin held[j]
  BY DEF IInv, LockInv
<1>3. new_order' = new_order \ PickedKeys(k)
  BY CommitDeliveryTables
<1>4. CASE pc[j] \in DeliveryStatements
  <2>1. ASSUME NEW d \in DOMAIN picked[j], picked[j][d] # 0
        PROVE  /\ <<input[j].w, d, picked[j][d]>> \in new_order'
               /\ \A p \in NewOrdersOf(input[j].w, d)' : picked[j][d] <= p
    <3> DEFINE w == input[j].w
               o == picked[j][d]
    <3>1. /\ NewOrderRow(w, d, o) \in held[j]
          /\ <<w, d, o>> \in new_order
          /\ \A p \in NewOrdersOf(w, d) : o <= p
      BY <1>2, <1>4, <2>1 DEF Picks
    <3>2. <<w, d, o>> \notin PickedKeys(k)
      <4>1. ASSUME <<w, d, o>> \in PickedKeys(k) PROVE NewOrderRow(w, d, o) \in held[k]
        BY <4>1, CommitDeliveryReads DEF PickedKeys
      <4> QED BY <1>2, <3>1, <4>1
    <3>3. NewOrdersOf(w, d)' \subseteq NewOrdersOf(w, d)
      BY <1>1, <1>3 DEF NewOrdersOf
    <3> QED BY <1>3, <3>1, <3>2, <3>3
  <2> QED BY <1>1, <1>2, <1>4, <2>1 DEF Picks, Visited
<1>5. CASE pc[j] \notin DeliveryStatements
  BY <1>1, <1>2, <1>5 DEF Picks
<1> QED BY <1>4, <1>5

LEMMA CommitDeliveryInv ==
  ASSUME IInv, NEW k \in Workers, CommitDelivery(k)
  PROVE  IInv'
<1>1. WorkersTyped' /\ Others(k) /\ LocksFree(k) /\ WorkerInv(k)'
  BY EndTxEffect DEF IInv, TypeOK, CommitDelivery
<1>2. TablesTyped' /\ TableInv'
  BY CommitDeliveryTypes, CommitDeliveryTableInv
<1>3. ASSUME NEW j \in Workers \ {k} PROVE WorkerInv(j)'
  <2>1. Control(j)'
    BY <1>1 DEF IInv, Others, Control
  <2>2. OrderReads(j)'
    BY <1>1, CommitDeliveryTables DEF IInv, Others, OrderReads
  <2> QED BY <1>1, <2>1, <2>2, CommitDeliveryKeepsPicks DEF WorkerInv
<1>4. LockInv'
  BY <1>1, LocksStayExclusive DEF IInv
<1> QED BY <1>1, <1>2, <1>3, <1>4 DEF IInv, TypeOK, WorkerInv

------------------------------------------------------------------------------
(* The invariant holds after the load, and every step preserves it.            *)

LEMMA LoadTypes == ASSUME Load PROVE TablesTyped
<1> USE TablesAssumption DEF TablesAssumption
<1>1. DistrictPerWarehouse * CustomerPerDistrict \in Nat
  OBVIOUS
<1>2. DistrictPerWarehouse * CustomerPerDistrict * InitialPayment \in Nat
  BY <1>1 DEF InitialPayment
<1>3. /\ w_ytd \in [Warehouses -> Nat] /\ d_ytd \in [DistrictKeys -> Nat]
      /\ d_next_o_id \in [DistrictKeys -> Nat \ {0}]
      /\ c_balance \in [CustomerKeys -> Int] /\ c_ytd_payment \in [CustomerKeys -> Nat]
  BY <1>2 DEF Load, InitialPayment
<1>4. LoadedOrders \subseteq OrderKeys
  BY DEF LoadedOrders, OrderKeys
<1>5. /\ DOMAIN orders = LoadedOrders /\ DOMAIN order_line = LoadedOrders
      /\ new_order \subseteq LoadedOrders
  BY DEF Load
<1>6. \A key \in LoadedOrders : 1 + OrderPerDistrict - key[3] \in CustomerIds
  BY DEF LoadedOrders, CustomerIds
<1>7. ASSUME NEW key \in LoadedOrders
      PROVE  /\ orders[key].c \in CustomerIds /\ orders[key].carrier \in BOOLEAN
             /\ order_line[key].amount \in Nat /\ order_line[key].delivered \in BOOLEAN
  <2>1. /\ orders[key].c = 1 + OrderPerDistrict - key[3] /\ orders[key].carrier = Delivered(key[3])
        /\ order_line[key].amount = (IF Delivered(key[3]) THEN 0 ELSE LoadedAmount)
        /\ order_line[key].delivered = Delivered(key[3])
    BY DEF Load
  <2> QED BY <1>6, <2>1 DEF Delivered
<1> QED BY <1>3, <1>4, <1>5, <1>7 DEF TablesTyped

LEMMA LoadTableInv == ASSUME Load PROVE TableInv
<1> USE TablesAssumption DEF TablesAssumption
<1>1. /\ DOMAIN orders = LoadedOrders /\ DOMAIN order_line = LoadedOrders
      /\ new_order = {key \in LoadedOrders : ~Delivered(key[3])}
  BY DEF Load
<1>2. \A w \in Warehouses, d \in Districts : d_next_o_id[<<w, d>>] = OrderPerDistrict + 1
  BY DEF Load, DistrictKeys
<1>3. \A w \in Warehouses, d \in Districts, o \in Nat :
        <<w, d, o>> \in LoadedOrders <=> 1 <= o /\ o <= OrderPerDistrict
  BY DEF LoadedOrders
<1>4. ASSUME NEW w \in Warehouses, NEW d \in Districts, NEW o \in Nat
      PROVE  <<w, d, o>> \in DOMAIN orders <=> 1 <= o /\ o < d_next_o_id[<<w, d>>]
  <2>1. d_next_o_id[<<w, d>>] = OrderPerDistrict + 1
    BY <1>2
  <2>2. o < d_next_o_id[<<w, d>>] <=> o <= OrderPerDistrict
    BY <2>1
  <2> QED BY <1>1, <1>3, <2>2
<1>5. LastUndelivered
  BY <1>1, <1>2, <1>3 DEF LastUndelivered, Delivered
<1>6. ASSUME NEW key \in LoadedOrders
      PROVE  /\ {"c", "carrier"} \subseteq DOMAIN orders[key]
             /\ {"amount", "delivered"} \subseteq DOMAIN order_line[key]
             /\ orders[key].carrier = (key \notin new_order)
             /\ order_line[key].delivered = (key \notin new_order)
  <2>1. /\ {"c", "carrier"} \subseteq DOMAIN orders[key]
        /\ {"amount", "delivered"} \subseteq DOMAIN order_line[key]
        /\ orders[key].carrier = Delivered(key[3])
        /\ order_line[key].delivered = Delivered(key[3])
    BY DEF Load
  <2>2. Delivered(key[3]) = (key \notin new_order)
    BY <1>1 DEF Delivered
  <2> QED BY <2>1, <2>2
<1>7. OrdersDeliveredWhole /\ OrderFields
  BY <1>1, <1>6 DEF OrdersDeliveredWhole, OrderFields
<1> QED BY <1>4, <1>5, <1>7 DEF TableInv, Numbered

LEMMA InitIInv == Init => IInv
<1> SUFFICES ASSUME Init PROVE IInv
  OBVIOUS
<1> USE DEF Init
<1>1. TablesTyped /\ TableInv
  BY LoadTypes, LoadTableInv
<1>2. 1 \in Districts /\ MaxTxns \in Nat
  BY TablesAssumption, InputsAssumption DEF TablesAssumption, InputsAssumption, Districts
<1>3. WorkersTyped
  BY <1>2 DEF WorkersTyped, Statements
<1>4. ASSUME NEW k \in Workers PROVE Control(k) /\ OrderReads(k) /\ Picks(k)
  BY DEF Control, OrderReads, Picks, NewOrderStatements, PaymentStatements, DeliveryStatements
<1>5. LockInv
  BY DEF LockInv
<1> QED BY <1>1, <1>3, <1>4, <1>5 DEF IInv, TypeOK

LEMMA StutterInv == IInv /\ UNCHANGED vars => IInv'
<1> SUFFICES ASSUME IInv, UNCHANGED vars PROVE IInv'
  OBVIOUS
<1>1. /\ UNCHANGED <<money, d_next_o_id, c_balance, orders, new_order, order_line, stock>>
      /\ UNCHANGED <<pc, input, held, oID, quantity, picked, district, txns>>
  BY DEF vars, reads, tables
<1>2. TablesTyped'
  BY <1>1 DEF IInv, TypeOK, TablesTyped, money
<1>3. WorkersTyped'
  BY <1>1 DEF IInv, TypeOK, WorkersTyped
<1>4. ASSUME NEW k \in Workers PROVE WorkerInv(k)'
  <2>1. Control(k) /\ OrderReads(k) /\ Picks(k)
    BY DEF IInv
  <2>2. Control(k)'
    BY <1>1, <2>1 DEF Control
  <2>3. OrderReads(k)'
    BY <1>1, <2>1 DEF OrderReads
  <2>4. Picks(k)'
    BY <1>1, <2>1 DEF Picks, Visited, NewOrdersOf
  <2> QED BY <2>2, <2>3, <2>4 DEF WorkerInv
<1>5. TableInv' /\ LockInv'
  BY <1>1 DEF IInv, TableInv, Numbered, LastUndelivered, OrdersDeliveredWhole, OrderFields, LockInv
<1> QED BY <1>2, <1>3, <1>4, <1>5 DEF IInv, TypeOK, WorkerInv

LEMMA NextInv == IInv /\ [Next]_vars => IInv'
<1> SUFFICES ASSUME IInv, [Next]_vars PROVE IInv'
  OBVIOUS
<1>1. ASSUME NEW k \in Workers, NEW in \in Inputs, Begin(k, in) PROVE IInv'
  BY <1>1, BeginInv
<1>2. ASSUME NEW k \in Workers, NewOrder(k) PROVE IInv'
  <2>1. CASE SelectDistrict(k) \/ InsertOrder(k)
    BY <2>1, SelectDistrictInv, InsertOrderInv
  <2>2. CASE RollbackOrder(k)
    BY <2>2, AbortInv DEF RollbackOrder
  <2>3. ASSUME NEW s \in StockKeys, SelectStock(k, s) PROVE IInv'
    BY <2>3, SelectStockInv
  <2>4. CASE CommitNewOrder(k)
    BY <2>4, CommitNewOrderInv
  <2> QED BY <1>2, <2>1, <2>2, <2>3, <2>4 DEF NewOrder
<1>3. ASSUME NEW k \in Workers, Payment(k) PROVE IInv'
  BY <1>3, PaymentStepInv, CommitPaymentInv DEF Payment
<1>4. ASSUME NEW k \in Workers, Delivery(k) PROVE IInv'
  BY <1>4, SelectNewOrderInv, DeliveryUpdateCustomerInv, CommitDeliveryInv DEF Delivery
<1>5. ASSUME NEW k \in Workers, Abort(k) PROVE IInv'
  BY <1>5, AbortInv DEF Abort
<1>6. CASE Finished \/ UNCHANGED vars
  BY <1>6, StutterInv DEF Finished
<1> QED BY <1>1, <1>2, <1>3, <1>4, <1>5, <1>6 DEF Next

THEOREM Invariance == Spec => []IInv
BY InitIInv, NextInv, PTL DEF Spec

------------------------------------------------------------------------------
(* The safety properties. *)

(* The tables and the state of the workers have their types. *)
THEOREM TypeCorrect == Spec => []TypeOK
BY Invariance, PTL DEF IInv

LEMMA ContiguousFromInv ==
  ASSUME IInv
  PROVE  OrderNumbersContiguous
<1>1. /\ DOMAIN orders \subseteq OrderKeys /\ new_order \subseteq OrderKeys
      /\ Numbered /\ LastUndelivered /\ new_order \subseteq DOMAIN orders
      /\ d_next_o_id \in [DistrictKeys -> Nat \ {0}]
  BY DEF IInv, TypeOK, TablesTyped, TableInv, OrdersDeliveredWhole
<1>2. SUFFICES ASSUME NEW w \in Warehouses, NEW d \in Districts
               PROVE  LET last == d_next_o_id[<<w, d>>] - 1
                      IN /\ OrdersOf(w, d) = 1..last
                         /\ NewOrdersOf(w, d) # {}
                            => NewOrdersOf(w, d) = OldestNewOrder(w, d)..last
  BY DEF OrderNumbersContiguous
<1> DEFINE last == d_next_o_id[<<w, d>>] - 1
<1>3. last \in Nat
  BY <1>1 DEF DistrictKeys
<1>4. \A o \in Nat : <<w, d, o>> \in DOMAIN orders <=> 1 <= o /\ o <= last
  <2>1. ASSUME NEW o \in Nat
        PROVE  <<w, d, o>> \in DOMAIN orders <=> 1 <= o /\ o < d_next_o_id[<<w, d>>]
    BY <1>1 DEF Numbered
  <2>2. d_next_o_id[<<w, d>>] \in Nat
    BY <1>1 DEF DistrictKeys
  <2> QED BY <2>1, <2>2
<1>5. \A o : o \in OrdersOf(w, d) <=> o \in Nat /\ <<w, d, o>> \in DOMAIN orders
  <2>1. ASSUME NEW o, o \in OrdersOf(w, d) PROVE o \in Nat /\ <<w, d, o>> \in DOMAIN orders
    <3>1. PICK key \in DOMAIN orders : key[1] = w /\ key[2] = d /\ key[3] = o
      BY <2>1 DEF OrdersOf
    <3>2. key = <<key[1], key[2], key[3]>> /\ key[3] \in Nat
      BY <1>1 DEF OrderKeys
    <3> QED BY <3>1, <3>2
  <2>2. ASSUME NEW o, o \in Nat, <<w, d, o>> \in DOMAIN orders PROVE o \in OrdersOf(w, d)
    BY <2>2 DEF OrdersOf
  <2> QED BY <2>1, <2>2
<1>6. OrdersOf(w, d) = 1..last
  <2> HIDE DEF last
  <2>1. \A o : o \in OrdersOf(w, d) <=> o \in Nat /\ 1 <= o /\ o <= last
    BY <1>4, <1>5, Zenon
  <2>2. \A o : o \in OrdersOf(w, d) <=> o \in 1..last
    BY <1>3, <2>1
  <2> QED BY <2>2, Zenon
<1>7. ASSUME NewOrdersOf(w, d) # {}
      PROVE  NewOrdersOf(w, d) = OldestNewOrder(w, d)..last
  <2> DEFINE first == OldestNewOrder(w, d)
  <2>1. /\ NewOrdersOf(w, d) \subseteq Nat
        /\ \A o : o \in NewOrdersOf(w, d) <=> <<w, d, o>> \in new_order
    BY <1>1, NewOrdersOfMember
  <2>2. first \in NewOrdersOf(w, d) /\ \A p \in NewOrdersOf(w, d) : first <= p
    BY <1>1, <1>7, OldestIsLeast
  <2>3. \A o \in NewOrdersOf(w, d) : o \in Nat /\ first <= o /\ o <= last
    BY <1>1, <1>4, <2>1, <2>2
  <2>4. ASSUME NEW o \in Nat, first <= o, o <= last PROVE o \in NewOrdersOf(w, d)
    <3>1. o < d_next_o_id[<<w, d>>]
      BY <1>1, <2>4 DEF DistrictKeys
    <3>2. <<w, d, first>> \in new_order /\ first \in Nat
      BY <2>1, <2>2
    <3>3. <<w, d, o>> \in new_order
      BY <1>1, <2>4, <3>1, <3>2 DEF LastUndelivered
    <3> QED BY <2>1, <3>3
  <2> HIDE DEF last, first
  <2>5. first \in Nat
    BY <2>1, <2>2
  <2>6. \A o : o \in NewOrdersOf(w, d) <=> o \in first..last
    BY <1>3, <2>3, <2>4, <2>5
  <2>7. NewOrdersOf(w, d) = first..last
    BY <2>6, Zenon
  <2> QED BY <2>7 DEF first
<1> QED BY <1>6, <1>7

(* Orders are numbered without gaps, and so are the undelivered ones, although *)
(* numbers are taken, used and given back by separate statements of            *)
(* concurrent transactions (runNewOrder, runDelivery).                         *)
THEOREM NumbersContiguous == Spec => []OrderNumbersContiguous
BY ContiguousFromInv, Invariance, PTL

(* An order is delivered as a whole: its carrier, its lines and its new_order  *)
(* row agree at any moment (runDelivery).                                      *)
THEOREM DeliveredWhole == Spec => []OrdersDeliveredWhole
BY Invariance, PTL DEF IInv, TableInv

(* The primary key never rejects an order: the number read FOR UPDATE is free  *)
(* when the order is inserted (runNewOrder).                                   *)
THEOREM NumberFresh == Spec => []OrderNumberIsFresh
<1>1. ASSUME IInv PROVE OrderNumberIsFresh
  <2>1. SUFFICES ASSUME NEW k \in Workers, pc[k] = "insertOrder" PROVE ~OrderExists(k)
    BY DEF OrderNumberIsFresh
  <2> DEFINE w == input[k].w
             d == input[k].d
             o == oID[k]
  <2>2. w \in Warehouses /\ d \in Districts
    BY <1>1, <2>1, InputOfStatement DEF IInv, NewOrderStatements, IsNewOrderInput
  <2>3. o = d_next_o_id[<<w, d>>] /\ o \in Nat
    BY <1>1, <2>1 DEF IInv, OrderReads, TypeOK, WorkersTyped
  <2>4. Numbered
    BY <1>1 DEF IInv, TableInv
  <2>5. <<w, d, o>> \notin DOMAIN orders
    <3> HIDE DEF w, d, o
    <3> QED BY <2>2, <2>3, <2>4 DEF Numbered
  <2> QED BY <2>5 DEF OrderExists
<1> QED BY <1>1, Invariance, PTL

(* What a delivery commits is what it picked: the order stays undelivered and  *)
(* the oldest of its district until then (runDelivery).                        *)
THEOREM PickedOldest == Spec => []PickedIsOldest
<1>1. ASSUME IInv PROVE PickedIsOldest
  <2>1. SUFFICES ASSUME NEW k \in Workers, input[k].kind = "delivery",
                        NEW d \in DOMAIN picked[k], picked[k][d] # 0
                 PROVE  /\ picked[k][d] \in NewOrdersOf(input[k].w, d)
                        /\ picked[k][d] = OldestNewOrder(input[k].w, d)
    BY DEF PickedIsOldest
  <2>2. pc[k] \in DeliveryStatements
    BY <1>1, <2>1 DEF IInv, Picks, NoReads
  <2>3. input[k].w \in Warehouses /\ d \in Districts /\ new_order \subseteq OrderKeys
    BY <1>1, <2>1, <2>2, InputOfStatement
       DEF IInv, IsDeliveryInput, Picks, Visited, TypeOK, TablesTyped
  <2>4. /\ <<input[k].w, d, picked[k][d]>> \in new_order
        /\ \A p \in NewOrdersOf(input[k].w, d) : picked[k][d] <= p
    BY <1>1, <2>1, <2>2 DEF IInv, Picks
  <2>5. picked[k][d] \in NewOrdersOf(input[k].w, d)
    BY <2>3, <2>4, NewOrdersOfMember
  <2> QED BY <2>3, <2>4, <2>5, OldestIsTheLeast
<1> QED BY <1>1, Invariance, PTL

(* Numbers are handed out without gaps and without conflicts. *)
THEOREM NumbersHandedOut == Spec => []OrdersNumbered
BY NumbersContiguous, NumberFresh, PTL DEF OrdersNumbered

(* Deliveries take whole orders, the oldest of each district first. *)
THEOREM OrdersTakenWhole == Spec => []OrdersDelivered
BY DeliveredWhole, PickedOldest, PTL DEF OrdersDelivered

------------------------------------------------------------------------------
(* Refinement: a commit is the transaction, other steps change no table.       *)

LEMMA SerialDefinitions ==
  /\ Serial!DistrictKeys = DistrictKeys /\ Serial!CustomerKeys = CustomerKeys
  /\ Serial!StockKeys = StockKeys /\ Serial!Districts = Districts
  /\ Serial!LoadedOrders = LoadedOrders /\ Serial!InitialPayment = InitialPayment
  /\ \A w, d : Serial!NewOrdersOf(w, d) = NewOrdersOf(w, d)
  /\ Serial!tables = tables /\ Serial!money = money
BY DEF Serial!DistrictKeys, DistrictKeys, Serial!CustomerKeys, CustomerKeys, Serial!StockKeys,
       StockKeys, Serial!Districts, Districts, Serial!LoadedOrders, LoadedOrders,
       Serial!InitialPayment, InitialPayment, Serial!NewOrdersOf, NewOrdersOf, Serial!tables,
       tables, Serial!money, money, Serial!CustomerIds, CustomerIds

(* The tables' operators mean the same in both specifications. *)
LEMMA SerialLoad == Load <=> Serial!Load
BY DEF Load, Delivered, LoadedOrders, InitialPayment, DistrictKeys, CustomerKeys, StockKeys,
       Districts, CustomerIds,
       Serial!Load, Serial!Delivered, Serial!LoadedOrders, Serial!InitialPayment,
       Serial!DistrictKeys, Serial!CustomerKeys, Serial!StockKeys, Serial!Districts,
       Serial!CustomerIds, Cardinality, Serial!Cardinality

LEMMA SerialPlaceOrder ==
  ASSUME NEW in, NEW o, NEW q PROVE PlaceOrder(in, o, q) <=> Serial!PlaceOrder(in, o, q)
BY DEF PlaceOrder, Put, StockKeys, money, Serial!PlaceOrder, Serial!Put, Serial!StockKeys,
       Serial!money, Cardinality, Serial!Cardinality

LEMMA CommitNewOrderIsSerial ==
  ASSUME IInv, NEW k \in Workers, CommitNewOrder(k)
  PROVE  input[k] \in Inputs /\ Serial!NewOrder(input[k])
<1> DEFINE in == input[k]
           o == d_next_o_id[<<in.w, in.d>>]
           q == [s \in DOMAIN in.qty |-> RefilledQuantity(stock[s].quantity - in.qty[s])]
<1>1. in \in Inputs /\ in.kind = "newOrder" /\ ~in.bad
  BY DEF IInv, Control, OrderReads, CommitNewOrder, NewOrderStatements
<1>2. o = oID[k] /\ \A s \in DOMAIN in.qty : q[s] = quantity[k][s]
  BY CommitNewOrderReads
<1>3. q = [s \in DOMAIN in.qty |-> Serial!RefilledQuantity(stock[s].quantity - in.qty[s])]
  BY DEF RefilledQuantity, Serial!RefilledQuantity
<1>4. PlaceOrder(in, o, q)
  <2>1. PlaceOrder(in, o, quantity[k])
    BY <1>2 DEF CommitNewOrder
  <2> HIDE DEF q, o, in
  <2> QED BY <1>2, <2>1 DEF PlaceOrder
<1>5. Serial!PlaceOrder(in, o, q)
  <2> HIDE DEF q, o, in
  <2> QED BY <1>4, SerialPlaceOrder
<1> QED BY <1>1, <1>3, <1>5 DEF Serial!NewOrder

LEMMA CommitPaymentIsSerial ==
  ASSUME IInv, NEW k \in Workers, CommitPayment(k)
  PROVE  input[k] \in Inputs /\ Serial!Payment(input[k])
BY DEF IInv, Control, PaymentStatements, CommitPayment, Serial!Payment, Pay, Serial!Pay

LEMMA CommitDeliveryIsSerial ==
  ASSUME IInv, NEW k \in Workers, CommitDelivery(k)
  PROVE  input[k] \in Inputs /\ Serial!Delivery(input[k])
<1> DEFINE w == input[k].w
           served == {d \in Districts : picked[k][d] # 0}
           P == [d \in served |-> picked[k][d]]
<1>1. input[k] \in Inputs /\ input[k].kind = "delivery"
  BY DEF IInv, Control, DeliveryStatements, CommitDelivery
<1>2. ASSUME NEW d \in served
      PROVE  NewOrdersOf(w, d) # {} /\ picked[k][d] = OldestNewOrder(w, d)
  <2>1. w \in Warehouses /\ d \in Districts /\ new_order \subseteq OrderKeys
    BY CommitDeliveryReads DEF IInv, TypeOK, TablesTyped
  <2>2. /\ <<w, d, picked[k][d]>> \in new_order
        /\ \A p \in NewOrdersOf(w, d) : picked[k][d] <= p
    BY CommitDeliveryReads
  <2>3. picked[k][d] \in NewOrdersOf(w, d)
    BY <2>1, <2>2, NewOrdersOfMember
  <2> QED BY <2>1, <2>2, <2>3, OldestIsTheLeast
<1>3. \A d : Serial!OldestNewOrder(w, d) = OldestNewOrder(w, d)
  BY SerialDefinitions DEF Serial!OldestNewOrder, OldestNewOrder
<1>4. P = [d \in served |-> Serial!OldestNewOrder(w, d)]
  BY <1>2, <1>3
<1>5. served \in SUBSET {d \in Serial!Districts : Serial!NewOrdersOf(w, d) # {}}
  BY <1>2, SerialDefinitions
<1>6. Deliver(w, P)
  BY DEF CommitDelivery
<1>7. Serial!Deliver(w, P)
  <2> HIDE DEF P, w
  <2> QED BY <1>6 DEF Deliver, CustomerKeys, Districts, CustomerIds, money, Serial!Deliver,
                      Serial!CustomerKeys, Serial!Districts, Serial!CustomerIds, Serial!money
<1> HIDE DEF served, P
<1> QED BY <1>1, <1>4, <1>5, <1>7 DEF Serial!Delivery

LEMMA OnlyCommitsChangeTables ==
  ASSUME NEW k \in Workers
  PROVE  /\ \A in \in Inputs : Begin(k, in) => UNCHANGED tables
         /\ Abort(k) => UNCHANGED tables
         /\ NewOrder(k) => CommitNewOrder(k) \/ UNCHANGED tables
         /\ Payment(k) => CommitPayment(k) \/ UNCHANGED tables
         /\ Delivery(k) => CommitDelivery(k) \/ UNCHANGED tables
<1>1. \A in \in Inputs : Begin(k, in) => UNCHANGED tables
  BY DEF Begin
<1>2. Abort(k) => UNCHANGED tables
  BY DEF Abort
<1>3. NewOrder(k) => CommitNewOrder(k) \/ UNCHANGED tables
  BY DEF NewOrder, SelectDistrict, InsertOrder, RollbackOrder, SelectStock
<1>4. Payment(k) => CommitPayment(k) \/ UNCHANGED tables
  BY DEF Payment, PaymentUpdateDistrict, PaymentUpdateWarehouse, PaymentSelectCustomer
<1>5. Delivery(k) => CommitDelivery(k) \/ UNCHANGED tables
  BY DEF Delivery, SelectNewOrder, DeliveryUpdateCustomer
<1> QED BY <1>1, <1>2, <1>3, <1>4, <1>5

LEMMA StepIsSerial == IInv /\ [Next]_vars => [Serial!Next]_tables
<1> SUFFICES ASSUME IInv, [Next]_vars PROVE Serial!Next \/ UNCHANGED tables
  OBVIOUS
<1>1. CASE UNCHANGED vars \/ Finished
  BY <1>1 DEF vars, Finished
<1>2. ASSUME NEW k \in Workers, CommitNewOrder(k) \/ CommitPayment(k) \/ CommitDelivery(k)
      PROVE  Serial!Next
  BY <1>2, CommitNewOrderIsSerial, CommitPaymentIsSerial, CommitDeliveryIsSerial
     DEF Serial!Next
<1> QED BY <1>1, <1>2, OnlyCommitsChangeTables DEF Next

(* Whatever the interleaving of their statements, the transactions change the  *)
(* tables as if they ran one after the other (all of tpcc/'s transactions and  *)
(* the procedures of procs_pg.go).                                             *)
THEOREM Refinement == Spec => ImplementsSerial
<1>1. Init => Serial!Init
  BY SerialLoad DEF Init, Serial!Init
<1>2. IInv /\ [Next]_vars => [Serial!Next]_(Serial!tables)
  BY StepIsSerial DEF tables, money, Serial!tables, Serial!money
<1> QED BY <1>1, <1>2, Invariance, PTL DEF Spec, ImplementsSerial, Serial!Spec

------------------------------------------------------------------------------
(***************************************************************************)
(* Deadlocks.  For that the locks a worker holds have to be bounded from   *)
(* above: a row of a kind is locked only between the statement that locks  *)
(* rows of the kind and the end of the transaction.  A delivery's rows are *)
(* those of the orders it has picked and of their customers' districts.    *)
(***************************************************************************)
PickedAt(k, w, d) ==
  /\ pc[k] \in DeliveryStatements
  /\ input[k].w = w /\ d \in DOMAIN picked[k] /\ picked[k][d] # 0

Justified(k, row) ==
  /\ row[1] = "district" => pc[k] \in {"insertOrder", "selectStock", "updateWarehouse",
                                       "selectCustomer", "commitPayment"}
  /\ row[1] = "warehouse" => pc[k] \in {"selectCustomer", "commitPayment"}
  /\ row[1] = "stock" => pc[k] = "selectStock"
  /\ row[1] = "customer" => pc[k] = "commitPayment" \/ PickedAt(k, row[2][1], row[2][2])
  /\ row[1] = "newOrder" => /\ PickedAt(k, row[2][1], row[2][2])
                            /\ picked[k][row[2][2]] = row[2][3]

Holds(k) == \A row \in held[k] : Justified(k, row)

LocksInv == \A k \in Workers : Holds(k)

(* A statement of k changes the state of k alone. *)
LEMMA OnlyItsWorker ==
  ASSUME WorkersTyped, NEW k \in Workers,
         \/ \E in \in Inputs : Begin(k, in)
         \/ NewOrder(k) \/ Payment(k) \/ Delivery(k) \/ Abort(k)
  PROVE  \A j \in Workers \ {k} : /\ pc'[j] = pc[j] /\ input'[j] = input[j]
                                  /\ held'[j] = held[j] /\ picked'[j] = picked[j]
<1> USE DEF Goto, Lock, reads
<1>1. CASE EndTx(k)
  BY <1>1, EndTxEffect DEF Others
<1>2. CASE \E in \in Inputs : Begin(k, in)
  BY <1>2 DEF Begin, WorkersTyped
<1>3. CASE SelectDistrict(k) \/ InsertOrder(k) \/ \E s \in StockKeys : SelectStock(k, s)
  BY <1>3 DEF SelectDistrict, InsertOrder, SelectStock, WorkersTyped
<1>4. CASE PaymentUpdateDistrict(k) \/ PaymentUpdateWarehouse(k) \/ PaymentSelectCustomer(k)
  BY <1>4 DEF PaymentUpdateDistrict, PaymentUpdateWarehouse, PaymentSelectCustomer, WorkersTyped
<1>5. CASE SelectNewOrder(k)
  <2>1. pc[k] = "selectNewOrder" /\ AfterPick(k) /\ input' = input
    BY <1>5 DEF SelectNewOrder
  <2>2. \A j \in Workers \ {k} : held'[j] = held[j] /\ picked'[j] = picked[j]
    BY <1>5 DEF SelectNewOrder, WorkersTyped
  <2> QED BY <2>1, <2>2, AfterPickEffect
<1>6. CASE DeliveryUpdateCustomer(k)
  <2>1. pc[k] = "updateCustomer" /\ AfterUpdate(k) /\ input' = input /\ picked' = picked
    BY <1>6 DEF DeliveryUpdateCustomer
  <2>2. \A j \in Workers \ {k} : held'[j] = held[j]
    BY <1>6 DEF DeliveryUpdateCustomer, WorkersTyped
  <2> QED BY <2>1, <2>2, AfterUpdateEffect
<1> QED
  BY <1>1, <1>2, <1>3, <1>4, <1>5, <1>6
     DEF NewOrder, Payment, Delivery, Abort, RollbackOrder, CommitNewOrder, CommitPayment,
         CommitDelivery

(* So the locks of the other workers stay justified. *)
LEMMA OthersJustified ==
  ASSUME NEW j \in Workers, Holds(j),
         pc'[j] = pc[j], input'[j] = input[j], held'[j] = held[j], picked'[j] = picked[j]
  PROVE  Holds(j)'
BY DEF Holds, Justified, PickedAt

(* A transaction that has ended holds nothing; neither does one that begins.   *)
LEMMA NothingHeld ==
  ASSUME NEW k \in Workers, held'[k] = {}
  PROVE  Holds(k)'
BY DEF Holds

LEMMA NewOrderJustified ==
  ASSUME IInv, NEW k \in Workers, Holds(k), NewOrder(k)
  PROVE  Holds(k)'
<1> USE DEF Goto, Lock, reads
<1>2. CASE EndTx(k)
  BY <1>2, NothingHeld DEF EndTx, IInv, TypeOK, WorkersTyped
<1>3. CASE SelectDistrict(k)
  <2>1. /\ pc[k] = "selectDistrict" /\ pc'[k] = "insertOrder"
        /\ held'[k] = held[k] \cup {DistrictRow(input[k].w, input[k].d)}
    BY <1>3 DEF SelectDistrict, IInv, TypeOK, WorkersTyped
  <2> QED BY <2>1 DEF Holds, Justified, PickedAt, DistrictRow, DeliveryStatements
<1>4. CASE InsertOrder(k)
  <2>1. pc[k] = "insertOrder" /\ pc'[k] = "selectStock" /\ held'[k] = held[k]
    BY <1>4 DEF InsertOrder, IInv, TypeOK, WorkersTyped
  <2> QED BY <2>1 DEF Holds, Justified, PickedAt, DeliveryStatements
<1>5. ASSUME NEW s \in StockKeys, SelectStock(k, s) PROVE Holds(k)'
  <2>1. /\ pc[k] = "selectStock" /\ pc'[k] = "selectStock"
        /\ held'[k] = held[k] \cup {StockRow(s)}
    BY <1>5 DEF SelectStock, IInv, TypeOK, WorkersTyped
  <2> QED BY <2>1 DEF Holds, Justified, PickedAt, StockRow, DeliveryStatements
<1> QED BY <1>2, <1>3, <1>4, <1>5 DEF NewOrder, RollbackOrder, CommitNewOrder

LEMMA PaymentJustified ==
  ASSUME IInv, NEW k \in Workers, Holds(k), Payment(k)
  PROVE  Holds(k)'
<1> USE DEF Goto, Lock, reads
<1>1. CASE EndTx(k)
  BY <1>1, NothingHeld DEF EndTx, IInv, TypeOK, WorkersTyped
<1>2. CASE PaymentUpdateDistrict(k)
  <2>1. /\ pc[k] = "updateDistrict" /\ pc'[k] = "updateWarehouse"
        /\ held'[k] = held[k] \cup {DistrictRow(input[k].w, input[k].d)}
    BY <1>2 DEF PaymentUpdateDistrict, IInv, TypeOK, WorkersTyped
  <2> QED BY <2>1 DEF Holds, Justified, PickedAt, DistrictRow, DeliveryStatements
<1>3. CASE PaymentUpdateWarehouse(k)
  <2>1. /\ pc[k] = "updateWarehouse" /\ pc'[k] = "selectCustomer"
        /\ held'[k] = held[k] \cup {WarehouseRow(input[k].w)}
    BY <1>3 DEF PaymentUpdateWarehouse, IInv, TypeOK, WorkersTyped
  <2> QED BY <2>1 DEF Holds, Justified, PickedAt, WarehouseRow, DeliveryStatements
<1>4. CASE PaymentSelectCustomer(k)
  <2>1. /\ pc[k] = "selectCustomer" /\ pc'[k] = "commitPayment"
        /\ held'[k] = held[k] \cup {CustomerRow(input[k].cust)}
    BY <1>4 DEF PaymentSelectCustomer, IInv, TypeOK, WorkersTyped
  <2> QED BY <2>1 DEF Holds, Justified, PickedAt, CustomerRow, DeliveryStatements
<1> QED BY <1>1, <1>2, <1>3, <1>4 DEF Payment, CommitPayment

(* A delivery goes on to its next statement and keeps the rows it has; the row *)
(* it adds is that of the order it picks, or the customer of one it has.       *)
LEMMA DeliveryJustified ==
  ASSUME IInv, NEW k \in Workers, Holds(k), Delivery(k)
  PROVE  Holds(k)'
<1> DEFINE w == input[k].w
           d == district[k]
<1>1. WorkersTyped /\ WorkerInv(k)
  BY DEF IInv, TypeOK, WorkerInv
<1>2. CASE EndTx(k)
  BY <1>1, <1>2, NothingHeld DEF EndTx, WorkersTyped
<1>3. CASE SelectNewOrder(k)
  <2>1. /\ pc[k] = "selectNewOrder" /\ AfterPick(k) /\ input' = input
    BY <1>3 DEF SelectNewOrder
  <2>2. pc'[k] \in DeliveryStatements
    BY <1>1, <2>1, AfterPickEffect DEF DeliveryStatements
  <2>3. PICK o \in Nat :
          /\ picked' = [picked EXCEPT ![k] = Put(picked[k], d, o)]
          /\ o = 0 => held' = held
          /\ o # 0 => Lock(k, NewOrderRow(w, d, o))
    BY <1>3, SelectNewOrderPick
  <2>4. /\ DOMAIN picked'[k] = DOMAIN picked[k] \cup {d}
        /\ picked'[k][d] = o
        /\ \A e \in DOMAIN picked[k] : e # d => picked'[k][e] = picked[k][e]
    <3>1. picked'[k] = Put(picked[k], d, o)
      BY <1>1, <2>3 DEF WorkersTyped
    <3> QED BY <3>1, Zenon DEF Put
  <2>5. d \notin DOMAIN picked[k]
    <3>1. DOMAIN picked[k] = {e \in Districts : e < d}
      BY <1>1, <2>1 DEF WorkerInv, Picks, Visited, DeliveryStatements
    <3> QED BY <1>1, <3>1 DEF WorkersTyped, Districts
  <2>6. ASSUME NEW row \in held[k] PROVE Justified(k, row)'
    BY <2>1, <2>2, <2>4, <2>5, <2>6 DEF Holds, Justified, PickedAt, DeliveryStatements
  <2>7. ASSUME NEW row, o # 0, row = NewOrderRow(w, d, o) PROVE Justified(k, row)'
    BY <2>1, <2>2, <2>4, <2>7 DEF Justified, PickedAt, NewOrderRow
  <2>8. ASSUME NEW row \in held'[k], row \notin held[k]
        PROVE  o # 0 /\ row = NewOrderRow(w, d, o)
    BY <1>1, <2>3, <2>8 DEF Lock, WorkersTyped
  <2> QED BY <2>6, <2>7, <2>8 DEF Holds
<1>4. CASE DeliveryUpdateCustomer(k)
  <2>1. /\ pc[k] = "updateCustomer" /\ AfterUpdate(k) /\ input' = input /\ picked' = picked
    BY <1>4 DEF DeliveryUpdateCustomer, reads
  <2>2. pc'[k] \in DeliveryStatements
    BY <1>1, <2>1, AfterUpdateEffect
  <2>3. d \in DOMAIN picked[k]
    <3>1. d \in Visited(k)
      BY <1>1, <2>1 DEF Visited, WorkersTyped, Districts
    <3> QED BY <1>1, <2>1, <3>1 DEF WorkerInv, Picks, DeliveryStatements
  <2>4. ASSUME NEW row \in held[k] PROVE Justified(k, row)'
    BY <2>1, <2>2, <2>4 DEF Holds, Justified, PickedAt, DeliveryStatements
  <2>5. ASSUME NEW row \in held'[k], row \notin held[k] PROVE Justified(k, row)'
    <3>1. picked[k][d] # 0 /\ \E r \in NextRows(k) : Lock(k, r)
      BY <1>4, <2>5 DEF DeliveryUpdateCustomer
    <3>2. row \in NextRows(k)
      BY <1>1, <2>5, <3>1 DEF Lock, WorkersTyped
    <3>3. row = CustomerRow(<<w, d, orders[<<w, d, picked[k][d]>>].c>>)
      BY <2>1, <3>1, <3>2 DEF NextRows
    <3> QED BY <2>1, <2>2, <2>3, <3>1, <3>3 DEF Justified, PickedAt, CustomerRow
  <2> QED BY <2>4, <2>5 DEF Holds
<1> QED BY <1>2, <1>3, <1>4 DEF Delivery, CommitDelivery

LEMMA LocksInvStep == IInv /\ LocksInv /\ [Next]_vars => LocksInv'
<1> SUFFICES ASSUME IInv, LocksInv, [Next]_vars PROVE LocksInv'
  OBVIOUS
<1>1. WorkersTyped
  BY DEF IInv, TypeOK
<1>2. ASSUME NEW k \in Workers,
             \/ \E in \in Inputs : Begin(k, in)
             \/ NewOrder(k) \/ Payment(k) \/ Delivery(k) \/ Abort(k)
      PROVE  LocksInv'
  <2>1. \A j \in Workers \ {k} : Holds(j)'
    BY <1>1, <1>2, OnlyItsWorker, OthersJustified DEF LocksInv
  <2>2. CASE \E in \in Inputs : Begin(k, in)
    <3>1. held'[k] = {}
      BY <2>2 DEF Begin, IInv, Control
    <3> QED BY <2>1, <3>1, NothingHeld DEF LocksInv
  <2>3. CASE Abort(k)
    <3>1. held'[k] = {}
      BY <1>1, <2>3 DEF Abort, EndTx, WorkersTyped
    <3> QED BY <2>1, <3>1, NothingHeld DEF LocksInv
  <2>4. CASE NewOrder(k) \/ Payment(k) \/ Delivery(k)
    BY <2>1, <2>4, NewOrderJustified, PaymentJustified, DeliveryJustified DEF LocksInv
  <2> QED BY <1>2, <2>2, <2>3, <2>4
<1>3. CASE UNCHANGED vars
  BY <1>3, OthersJustified DEF LocksInv, vars, reads
<1> QED BY <1>2, <1>3 DEF Next, Finished

(* A blocked worker waits for a row, which another worker of the deadlock holds. *)
LEMMA WaiterOfDeadlock ==
  ASSUME NEW S \in SUBSET Workers, Deadlock(S), NEW k \in S
  PROVE  \E j \in S, row \in NextRows(k) : j # k /\ row \in held[j]
BY DEF Deadlock, WaitsFor

(* The statements at which a worker can be blocked. *)
LEMMA BlockedAt ==
  ASSUME NEW k \in Workers, Blocked(k)
  PROVE  pc[k] \in {"selectDistrict", "updateDistrict", "selectStock", "updateWarehouse",
                    "selectCustomer", "selectNewOrder", "updateCustomer"}
BY DEF Blocked, NextRows

(* Two deliveries cannot both have picked an order of a district: it would be  *)
(* the oldest, whose row one of them holds.                                    *)
LEMMA PickedByOne ==
  ASSUME IInv, NEW j \in Workers, NEW k \in Workers, NEW w, NEW d,
         PickedAt(j, w, d), PickedAt(k, w, d)
  PROVE  j = k
<1>1. Picks(j) /\ Picks(k) /\ Control(j)
  BY DEF IInv
<1>2. w \in Warehouses /\ d \in Districts /\ new_order \subseteq OrderKeys
  <2>1. w \in Warehouses
    BY <1>1, InputOfStatement DEF PickedAt, IsDeliveryInput
  <2>2. d \in Districts
    BY <1>1 DEF PickedAt, Picks, Visited
  <2> QED BY <2>1, <2>2 DEF IInv, TypeOK, TablesTyped
<1>3. /\ NewOrderRow(w, d, picked[j][d]) \in held[j] /\ picked[j][d] \in NewOrdersOf(w, d)
      /\ \A p \in NewOrdersOf(w, d) : picked[j][d] <= p
  BY <1>1, <1>2, NewOrdersOfMember DEF PickedAt, Picks
<1>4. /\ NewOrderRow(w, d, picked[k][d]) \in held[k] /\ picked[k][d] \in NewOrdersOf(w, d)
      /\ \A p \in NewOrdersOf(w, d) : picked[k][d] <= p
  BY <1>1, <1>2, NewOrdersOfMember DEF PickedAt, Picks
<1>5. picked[j][d] = picked[k][d]
  BY <1>2, <1>3, <1>4, OldestIsTheLeast
<1> QED BY <1>3, <1>4, <1>5 DEF IInv, LockInv

(* A delivery in a deadlock does not wait for a customer: who holds it is a    *)
(* payment about to commit, or a delivery with the same order picked.          *)
LEMMA NoDeliveryWaitsForCustomer ==
  ASSUME IInv, LocksInv, NEW S \in SUBSET Workers, Deadlock(S), NEW k \in S
  PROVE  pc[k] # "updateCustomer"
<1> SUFFICES ASSUME pc[k] = "updateCustomer" PROVE FALSE
  OBVIOUS
<1>1. PICK j \in S, row \in NextRows(k) : j # k /\ row \in held[j]
  BY WaiterOfDeadlock
<1>2. \E c : row = CustomerRow(<<input[k].w, district[k], c>>)
  BY <1>1 DEF NextRows
<1>3. PickedAt(k, input[k].w, district[k])
  <2>1. picked[k][district[k]] # 0
    BY <1>1 DEF NextRows
  <2>2. district[k] \in DOMAIN picked[k]
    <3>1. district[k] \in Districts /\ Picks(k)
      BY DEF IInv, TypeOK, WorkersTyped
    <3>2. district[k] \in Visited(k)
      BY <3>1 DEF Visited, Districts
    <3> QED BY <3>1, <3>2 DEF Picks, DeliveryStatements
  <2> QED BY <2>1, <2>2 DEF PickedAt, DeliveryStatements
<1>4. pc[j] = "commitPayment" \/ PickedAt(j, input[k].w, district[k])
  BY <1>1, <1>2 DEF LocksInv, Holds, Justified, CustomerRow
<1>5. pc[j] # "commitPayment"
  BY BlockedAt DEF Deadlock
<1> QED BY <1>1, <1>3, <1>4, <1>5, PickedByOne

(* Nor for an order: who holds it is a delivery further on in the districts,   *)
(* and so on, but the last district has none after it.                         *)
LEMMA NoDeliveryWaitsForOrder ==
  ASSUME IInv, LocksInv, NEW S \in SUBSET Workers, Deadlock(S), NEW k \in S
  PROVE  pc[k] # "selectNewOrder"
<1> SUFFICES ASSUME pc[k] = "selectNewOrder" PROVE FALSE
  OBVIOUS
<1> DEFINE W == {j \in S : pc[j] = "selectNewOrder"}
           Left == {DistrictPerWarehouse - district[j] : j \in W}
<1>1. DistrictPerWarehouse \in Nat /\ \A j \in Workers : district[j] \in Districts
  BY TablesAssumption DEF TablesAssumption, IInv, TypeOK, WorkersTyped
<1>2. Left \subseteq Nat /\ Left # {}
  BY <1>1 DEF Districts
<1>3. PICK n \in Left : \A m \in Left : n <= m
  BY <1>2, LeastElement
<1>4. PICK a \in W : n = DistrictPerWarehouse - district[a]
  BY <1>3
<1>5. PICK j \in S, row \in NextRows(a) : j # a /\ row \in held[j]
  BY <1>4, WaiterOfDeadlock
<1>6. \E o : row = NewOrderRow(input[a].w, district[a], o)
  BY <1>4, <1>5 DEF NextRows
<1>7. PickedAt(j, input[a].w, district[a])
  BY <1>5, <1>6 DEF LocksInv, Holds, Justified, NewOrderRow
<1>8. pc[j] = "selectNewOrder"
  BY <1>7, BlockedAt, NoDeliveryWaitsForCustomer DEF Deadlock, PickedAt, DeliveryStatements
<1>9. district[a] < district[j]
  BY <1>7, <1>8 DEF IInv, Picks, PickedAt, Visited, DeliveryStatements
<1>10. j \in W /\ n <= DistrictPerWarehouse - district[j]
  BY <1>3, <1>8
<1> QED BY <1>1, <1>4, <1>9, <1>10 DEF Districts

(* So a payment does not wait for a customer, nor for its warehouse.           *)
LEMMA NoPaymentWaitsLate ==
  ASSUME IInv, LocksInv, NEW S \in SUBSET Workers, Deadlock(S), NEW k \in S
  PROVE  pc[k] \notin {"selectCustomer", "updateWarehouse"}
<1>1. \A j \in S : pc[j] \in {"selectDistrict", "updateDistrict", "selectStock",
                              "updateWarehouse", "selectCustomer"}
  BY BlockedAt, NoDeliveryWaitsForCustomer, NoDeliveryWaitsForOrder DEF Deadlock
<1>2. ASSUME NEW j \in S PROVE pc[j] # "selectCustomer"
  <2> SUFFICES ASSUME pc[j] = "selectCustomer" PROVE FALSE
    OBVIOUS
  <2>1. PICK i \in S, row \in NextRows(j) : i # j /\ row \in held[i]
    BY WaiterOfDeadlock
  <2>2. row = CustomerRow(input[j].cust)
    BY <2>1 DEF NextRows
  <2>3. pc[i] = "commitPayment" \/ pc[i] \in DeliveryStatements
    BY <2>1, <2>2 DEF LocksInv, Holds, Justified, PickedAt, CustomerRow
  <2> QED BY <1>1, <2>3 DEF DeliveryStatements
<1>3. ASSUME NEW j \in S PROVE pc[j] # "updateWarehouse"
  <2> SUFFICES ASSUME pc[j] = "updateWarehouse" PROVE FALSE
    OBVIOUS
  <2>1. PICK i \in S, row \in NextRows(j) : i # j /\ row \in held[i]
    BY WaiterOfDeadlock
  <2>2. row = WarehouseRow(input[j].w)
    BY <2>1 DEF NextRows
  <2>3. pc[i] \in {"selectCustomer", "commitPayment"}
    BY <2>1, <2>2 DEF LocksInv, Holds, Justified, WarehouseRow
  <2> QED BY <1>1, <1>2, <2>3
<1> QED BY <1>2, <1>3

(* Then who waits for a district waits for an order at its stock, which waits  *)
(* for another one.                                                            *)
LEMMA DeadlockOverStock ==
  ASSUME IInv, LocksInv, NEW S \in SUBSET Workers, Deadlock(S)
  PROVE  \E a, b \in S : a # b /\ pc[a] = "selectStock" /\ pc[b] = "selectStock"
<1>1. \A j \in S : pc[j] \in {"selectDistrict", "updateDistrict", "selectStock"}
  BY BlockedAt, NoDeliveryWaitsForCustomer, NoDeliveryWaitsForOrder, NoPaymentWaitsLate
     DEF Deadlock
<1>2. PICK a \in S : pc[a] = "selectStock"
  <2>1. PICK k \in S : TRUE
    BY DEF Deadlock
  <2>2. ASSUME pc[k] # "selectStock" PROVE \E j \in S : pc[j] = "selectStock"
    <3>1. PICK j \in S, row \in NextRows(k) : j # k /\ row \in held[j]
      BY WaiterOfDeadlock
    <3>2. row = DistrictRow(input[k].w, input[k].d)
      BY <1>1, <2>2, <3>1 DEF NextRows
    <3>3. pc[j] \in {"insertOrder", "selectStock", "updateWarehouse", "selectCustomer",
                     "commitPayment"}
      BY <3>1, <3>2 DEF LocksInv, Holds, Justified, DistrictRow
    <3> QED BY <1>1, <3>3
  <2> QED BY <2>2
<1>3. PICK b \in S, row \in NextRows(a) : b # a /\ row \in held[b]
  BY WaiterOfDeadlock
<1>4. \E s : row = StockRow(s)
  BY <1>2, <1>3 DEF NextRows
<1>5. pc[b] = "selectStock"
  BY <1>3, <1>4 DEF LocksInv, Holds, Justified, StockRow
<1> QED BY <1>2, <1>3, <1>5

LEMMA TwoAtStock == IInv /\ LocksInv => OnlyStockDeadlocks
<1> SUFFICES ASSUME IInv, LocksInv, NEW S \in SUBSET Workers, Deadlock(S)
             PROVE  Cardinality({k \in S : pc[k] = "selectStock"}) >= 2
  BY DEF OnlyStockDeadlocks
<1> DEFINE T == {k \in S : pc[k] = "selectStock"}
<1>1. PICK a \in S, b \in S : a # b /\ pc[a] = "selectStock" /\ pc[b] = "selectStock"
  BY DeadlockOverStock
<1>2. IsFiniteSet(T) /\ Cardinality(T) \in Nat
  BY InputsAssumption, FS_Subset, FS_CardinalityType DEF InputsAssumption
<1>3. Cardinality(T) # 0
  BY <1>1, <1>2, FS_EmptySet
<1>4. Cardinality(T) # 1
  <2>1. ASSUME NEW x PROVE T # {x}
    BY <1>1
  <2> QED BY <1>2, <2>1, FS_Singleton
<1> QED BY <1>2, <1>3, <1>4

(* Payments and deliveries take their rows in one order, so a deadlock always  *)
(* has two orders in it that wait at their stock rows (runNewOrder, FOR UPDATE *)
(* over the order's items in no common order).                                 *)
THEOREM DeadlocksOverStock == Spec => []OnlyStockDeadlocks
<1>1. Init => LocksInv
  BY DEF Init, LocksInv, Holds
<1> QED BY <1>1, Invariance, LocksInvStep, TwoAtStock, PTL DEF Spec

------------------------------------------------------------------------------
(***************************************************************************)
(* The books: what the consistency check adds up.  The inductive invariant *)
(* has the sums over rows of every condition, NULL ones included, that the *)
(* lines of an order are as many as it says, and that new numbers come     *)
(* after the loaded ones.                                                  *)
(***************************************************************************)
HistoryTyped == history \in [DistrictKeys \X CustomerKeys -> Nat]

YtdAdded == \A w \in Warehouses : checkCondition1(w) /\ checkCondition9(w)

LinesCounted ==
  /\ IsFiniteSet(DOMAIN orders)
  /\ \A key \in DOMAIN orders :
       /\ "ol_cnt" \in DOMAIN orders[key] /\ "qty" \in DOMAIN order_line[key]
       /\ orders[key].ol_cnt = LineCount(key)
       /\ \A s \in DOMAIN order_line[key].qty : order_line[key].qty[s] \in 1..10

AfterLoaded ==
  /\ \A dk \in DistrictKeys : d_next_o_id[dk] > OrderPerDistrict
  /\ \A key \in new_order : key[3] > DeliveredPerDistrict

StockTyped ==
  \A s \in StockKeys : /\ stock[s].quantity \in Int /\ stock[s].ytd \in Int
                       /\ stock[s].order_cnt \in Int /\ stock[s].remote_cnt \in Int

BooksInv == /\ HistoryTyped /\ YtdAdded
            /\ BalancesMatch
            /\ LinesCounted /\ AfterLoaded
            /\ StockTyped /\ StockMatchesLines

LEMMA KeysFinite ==
  /\ IsFiniteSet(Districts) /\ IsFiniteSet(CustomerIds)
  /\ IsFiniteSet(DistrictKeys) /\ IsFiniteSet(CustomerKeys) /\ IsFiniteSet(LoadedOrders)
<1>1. IsFiniteSet(Districts) /\ IsFiniteSet(CustomerIds) /\ IsFiniteSet(1..OrderPerDistrict)
  BY TablesAssumption, FS_Interval DEF TablesAssumption, Districts, CustomerIds
<1>2. IsFiniteSet(Warehouses)
  BY TablesAssumption DEF TablesAssumption
<1>3. IsFiniteSet(DistrictKeys)
  BY <1>1, <1>2, FS_Product DEF DistrictKeys
<1>4. IsFiniteSet(CustomerKeys) /\ IsFiniteSet(LoadedOrders)
  BY <1>1, <1>2, TriplesFinite DEF CustomerKeys, LoadedOrders
<1> QED BY <1>1, <1>3, <1>4

(* What is summed is a number, so are the sums. *)
LEMMA PaidTyped ==
  ASSUME HistoryTyped
  PROVE  /\ \A dk \in DistrictKeys : PaidAt(dk) \in Int
         /\ \A ck \in CustomerKeys : PaidBy(ck) \in Int
<1>1. ASSUME NEW dk \in DistrictKeys PROVE PaidAt(dk) \in Int
  <2> DEFINE f == [ck \in CustomerKeys |-> history[<<dk, ck>>]]
  <2>1. IsFiniteSet(DOMAIN f) /\ \A x \in DOMAIN f : f[x] \in Int
    BY KeysFinite DEF HistoryTyped
  <2> HIDE DEF f
  <2>2. SumFunction(f) \in Int
    BY <2>1, SumFunctionType
  <2> QED BY <2>2 DEF PaidAt, f
<1>2. ASSUME NEW ck \in CustomerKeys PROVE PaidBy(ck) \in Int
  <2> DEFINE f == [dk \in DistrictKeys |-> history[<<dk, ck>>]]
  <2>1. IsFiniteSet(DOMAIN f) /\ \A x \in DOMAIN f : f[x] \in Int
    BY KeysFinite DEF HistoryTyped
  <2> HIDE DEF f
  <2>2. SumFunction(f) \in Int
    BY <2>1, SumFunctionType
  <2> QED BY <2>2 DEF PaidBy, f
<1> QED BY <1>1, <1>2

LEMMA DeliveredFinite ==
  ASSUME LinesCounted
  PROVE  \A ck : DeliveredTo(ck) \subseteq DOMAIN orders /\ IsFiniteSet(DeliveredTo(ck))
BY FS_Subset DEF LinesCounted, DeliveredTo

LEMMA OrdersFromFinite ==
  ASSUME LinesCounted
  PROVE  \A s : /\ OrdersFrom(s) \subseteq DOMAIN orders /\ IsFiniteSet(OrdersFrom(s))
                /\ IsFiniteSet({key \in OrdersFrom(s) : key[1] # s[1]})
<1>1. ASSUME NEW s PROVE OrdersFrom(s) \subseteq DOMAIN orders /\ IsFiniteSet(OrdersFrom(s))
  BY FS_Subset DEF LinesCounted, OrdersFrom
<1>2. ASSUME NEW s PROVE IsFiniteSet({key \in OrdersFrom(s) : key[1] # s[1]})
  <2>1. {key \in OrdersFrom(s) : key[1] # s[1]} \in SUBSET OrdersFrom(s)
    OBVIOUS
  <2> QED BY <1>1, <2>1, FS_Subset
<1> QED BY <1>1, <1>2

LEMMA DeliveredTyped ==
  ASSUME TablesTyped, LinesCounted
  PROVE  \A ck : DeliveredAmount(ck) \in Int
<1> TAKE ck
<1> DEFINE f == [key \in DeliveredTo(ck) |-> order_line[key].amount]
<1>1. IsFiniteSet(DOMAIN f) /\ \A x \in DOMAIN f : f[x] \in Int
  BY DeliveredFinite DEF TablesTyped
<1> HIDE DEF f
<1>2. SumFunction(f) \in Int
  BY <1>1, SumFunctionType
<1> QED BY <1>2 DEF DeliveredAmount, f

LEMMA BooksUnchanged ==
  ASSUME BooksInv, UNCHANGED tables
  PROVE  BooksInv'
<1>1. /\ w_ytd' = w_ytd /\ d_ytd' = d_ytd /\ d_next_o_id' = d_next_o_id /\ c_balance' = c_balance
      /\ c_ytd_payment' = c_ytd_payment /\ history' = history /\ orders' = orders
      /\ new_order' = new_order /\ order_line' = order_line /\ stock' = stock
  BY DEF tables, money
<1>2. HistoryTyped' /\ YtdAdded'
  BY <1>1 DEF BooksInv, HistoryTyped, YtdAdded, checkCondition1, checkCondition9, PaidAt
<1>3. BalancesMatch'
  BY <1>1 DEF BooksInv, BalancesMatch, DeliveredAmount, DeliveredTo, PaidBy
<1>4. LinesCounted' /\ AfterLoaded' /\ StockTyped'
  BY <1>1 DEF BooksInv, LinesCounted, LineCount, AfterLoaded, StockTyped
<1>5. StockMatchesLines'
  BY <1>1 DEF BooksInv, StockMatchesLines, OrdersFrom
<1> QED BY <1>2, <1>3, <1>4, <1>5 DEF BooksInv

------------------------------------------------------------------------------
(* PAYMENT: the amount is added to one term of every sum it is a term of.      *)
LEMMA PaymentSums ==
  ASSUME HistoryTyped, NEW dk \in DistrictKeys, NEW ck \in CustomerKeys, NEW h \in Nat,
         history' = [history EXCEPT ![<<dk, ck>>] = history[<<dk, ck>>] + h]
  PROVE  /\ HistoryTyped'
         /\ PaidAt(dk)' = PaidAt(dk) + h
         /\ \A x \in DistrictKeys \ {dk} : PaidAt(x)' = PaidAt(x)
         /\ PaidBy(ck)' = PaidBy(ck) + h
         /\ \A y \in CustomerKeys \ {ck} : PaidBy(y)' = PaidBy(y)
<1>1. \A x \in DistrictKeys, y \in CustomerKeys :
        /\ history[<<x, y>>] \in Nat
        /\ history'[<<x, y>>] = IF x = dk /\ y = ck THEN history[<<x, y>>] + h ELSE history[<<x, y>>]
  BY DEF HistoryTyped
<1>2. HistoryTyped'
  BY DEF HistoryTyped
<1>3. PaidAt(dk)' = PaidAt(dk) + h
  <2>1. PICK f : f = [y \in CustomerKeys |-> history[<<dk, y>>]]
    OBVIOUS
  <2>2. PICK g : g = [y \in CustomerKeys |-> history'[<<dk, y>>]]
    OBVIOUS
  <2>3. /\ DOMAIN f = CustomerKeys /\ DOMAIN g = CustomerKeys
        /\ \A y \in DOMAIN f : f[y] \in Int
        /\ g[ck] = f[ck] + h
        /\ \A y \in DOMAIN f \ {ck} : g[y] = f[y]
    BY <1>1, <2>1, <2>2
  <2>4. SumFunction(g) = (SumFunction(f) - f[ck]) + g[ck] /\ SumFunction(f) \in Int
    BY <2>3, KeysFinite, SumFunctionChanges, SumFunctionType
  <2>5. SumFunction(g) = SumFunction(f) + h
    BY <2>3, <2>4
  <2> QED BY <2>1, <2>2, <2>5 DEF PaidAt
<1>4. ASSUME NEW x \in DistrictKeys \ {dk} PROVE PaidAt(x)' = PaidAt(x)
  <2>1. [y \in CustomerKeys |-> history'[<<x, y>>]] = [y \in CustomerKeys |-> history[<<x, y>>]]
    BY <1>1
  <2> QED BY <2>1 DEF PaidAt
<1>5. PaidBy(ck)' = PaidBy(ck) + h
  <2>1. PICK f : f = [x \in DistrictKeys |-> history[<<x, ck>>]]
    OBVIOUS
  <2>2. PICK g : g = [x \in DistrictKeys |-> history'[<<x, ck>>]]
    OBVIOUS
  <2>3. /\ DOMAIN f = DistrictKeys /\ DOMAIN g = DistrictKeys
        /\ \A x \in DOMAIN f : f[x] \in Int
        /\ g[dk] = f[dk] + h
        /\ \A x \in DOMAIN f \ {dk} : g[x] = f[x]
    BY <1>1, <2>1, <2>2
  <2>4. SumFunction(g) = (SumFunction(f) - f[dk]) + g[dk] /\ SumFunction(f) \in Int
    BY <2>3, KeysFinite, SumFunctionChanges, SumFunctionType
  <2>5. SumFunction(g) = SumFunction(f) + h
    BY <2>3, <2>4
  <2> QED BY <2>1, <2>2, <2>5 DEF PaidBy
<1>6. ASSUME NEW y \in CustomerKeys \ {ck} PROVE PaidBy(y)' = PaidBy(y)
  <2>1. [x \in DistrictKeys |-> history'[<<x, y>>]] = [x \in DistrictKeys |-> history[<<x, y>>]]
    BY <1>1
  <2> QED BY <2>1 DEF PaidBy
<1> QED BY <1>2, <1>3, <1>4, <1>5, <1>6

LEMMA WarehouseSum ==
  ASSUME TablesTyped, NEW kw \in Warehouses, NEW kd \in Districts, NEW h \in Nat,
         d_ytd' = [d_ytd EXCEPT ![<<kw, kd>>] = d_ytd[<<kw, kd>>] + h],
         w_ytd' = [w_ytd EXCEPT ![kw] = w_ytd[kw] + h],
         NEW w \in Warehouses, checkCondition1(w)
  PROVE  checkCondition1(w)'
<1>1. PICK f : f = [d \in Districts |-> d_ytd[<<w, d>>]]
  OBVIOUS
<1>2. PICK g : g = [d \in Districts |-> d_ytd'[<<w, d>>]]
  OBVIOUS
<1>3. /\ \A d \in Districts : d_ytd[<<w, d>>] \in Nat
      /\ \A d \in Districts : d_ytd'[<<w, d>>] = IF w = kw /\ d = kd THEN d_ytd[<<w, d>>] + h
                                                                    ELSE d_ytd[<<w, d>>]
  BY DEF TablesTyped, DistrictKeys
<1>4. w_ytd[w] = SumFunction(f)
  BY <1>1 DEF checkCondition1
<1>5. w_ytd'[w] = SumFunction(g)
  <2>1. CASE w = kw
    <3>1. /\ DOMAIN f = Districts /\ DOMAIN g = Districts
          /\ \A d \in DOMAIN f : f[d] \in Int
          /\ g[kd] = f[kd] + h
          /\ \A d \in DOMAIN f \ {kd} : g[d] = f[d]
      BY <1>1, <1>2, <1>3, <2>1
    <3>2. SumFunction(g) = (SumFunction(f) - f[kd]) + g[kd] /\ SumFunction(f) \in Int
      BY <3>1, KeysFinite, SumFunctionChanges, SumFunctionType
    <3>3. SumFunction(g) = SumFunction(f) + h
      BY <3>1, <3>2
    <3> QED BY <1>4, <2>1, <3>3 DEF TablesTyped
  <2>2. CASE w # kw
    <3>1. f = g
      BY <1>1, <1>2, <1>3, <2>2
    <3> QED BY <1>4, <2>2, <3>1 DEF TablesTyped
  <2> QED BY <2>1, <2>2
<1> QED BY <1>2, <1>5 DEF checkCondition1

LEMMA PayBooks ==
  ASSUME TablesTyped, BooksInv,
         NEW kw \in Warehouses, NEW kd \in Districts, NEW ck \in CustomerKeys, NEW h \in Nat,
         d_ytd' = [d_ytd EXCEPT ![<<kw, kd>>] = d_ytd[<<kw, kd>>] + h],
         w_ytd' = [w_ytd EXCEPT ![kw] = w_ytd[kw] + h],
         c_balance' = [c_balance EXCEPT ![ck] = c_balance[ck] - h],
         c_ytd_payment' = [c_ytd_payment EXCEPT ![ck] = c_ytd_payment[ck] + h],
         history' = [history EXCEPT ![<<<<kw, kd>>, ck>>] = history[<<<<kw, kd>>, ck>>] + h],
         UNCHANGED <<d_next_o_id, orders, new_order, order_line, stock>>
  PROVE  BooksInv'
<1>1. PICK dk \in DistrictKeys : dk = <<kw, kd>>
  BY DEF DistrictKeys
<1>2. HistoryTyped
  BY DEF BooksInv
<1>3. /\ HistoryTyped'
      /\ PaidAt(dk)' = PaidAt(dk) + h
      /\ \A x \in DistrictKeys \ {dk} : PaidAt(x)' = PaidAt(x)
      /\ PaidBy(ck)' = PaidBy(ck) + h
      /\ \A y \in CustomerKeys \ {ck} : PaidBy(y)' = PaidBy(y)
  BY <1>1, <1>2, PaymentSums
<1>4. YtdAdded'
  <2>1. ASSUME NEW w \in Warehouses PROVE checkCondition1(w)'
    BY WarehouseSum DEF BooksInv, YtdAdded
  <2>2. ASSUME NEW w \in Warehouses, NEW d \in Districts
        PROVE  d_ytd'[<<w, d>>] = PaidAt(<<w, d>>)'
    <3>1. <<w, d>> \in DistrictKeys /\ d_ytd[<<w, d>>] = PaidAt(<<w, d>>)
      BY DEF DistrictKeys, BooksInv, YtdAdded, checkCondition9
    <3>2. d_ytd'[<<w, d>>] = IF <<w, d>> = dk THEN d_ytd[<<w, d>>] + h ELSE d_ytd[<<w, d>>]
      BY <1>1, <3>1 DEF TablesTyped
    <3> QED BY <1>3, <3>1, <3>2
  <2> QED BY <2>1, <2>2 DEF YtdAdded, checkCondition9
<1>5. BalancesMatch'
  <2> SUFFICES ASSUME NEW y \in CustomerKeys
               PROVE  /\ c_balance'[y] = DeliveredAmount(y)' - PaidBy(y)'
                      /\ c_ytd_payment'[y] = PaidBy(y)'
    BY DEF BalancesMatch
  <2>1. /\ c_balance[y] = DeliveredAmount(y) - PaidBy(y) /\ c_ytd_payment[y] = PaidBy(y)
        /\ PaidBy(y) \in Int /\ DeliveredAmount(y) \in Int
    BY <1>2, PaidTyped, DeliveredTyped DEF BooksInv, BalancesMatch
  <2>2. DeliveredAmount(y)' = DeliveredAmount(y)
    BY DEF DeliveredAmount, DeliveredTo
  <2>3. CASE y = ck
    <3>1. c_balance'[y] = c_balance[y] - h /\ c_ytd_payment'[y] = c_ytd_payment[y] + h
      BY <2>3 DEF TablesTyped
    <3> QED BY <1>3, <2>1, <2>2, <2>3, <3>1
  <2>4. CASE y # ck
    <3>1. c_balance'[y] = c_balance[y] /\ c_ytd_payment'[y] = c_ytd_payment[y]
      BY <2>4 DEF TablesTyped
    <3> QED BY <1>3, <2>1, <2>2, <2>4, <3>1
  <2> QED BY <2>3, <2>4
<1>6. LinesCounted' /\ AfterLoaded' /\ StockTyped'
  BY DEF BooksInv, LinesCounted, LineCount, AfterLoaded, StockTyped
<1>7. StockMatchesLines'
  BY DEF BooksInv, StockMatchesLines, OrdersFrom
<1> QED BY <1>3, <1>4, <1>5, <1>6, <1>7 DEF BooksInv

LEMMA CommitPaymentBooks ==
  ASSUME IInv, BooksInv, NEW k \in Workers, CommitPayment(k)
  PROVE  BooksInv'
<1>1. /\ input[k].w \in Warehouses /\ input[k].d \in Districts
      /\ input[k].cust \in CustomerKeys /\ input[k].h_amount \in Nat
  BY InputOfStatement DEF IInv, CommitPayment, PaymentStatements, IsPaymentInput
<1> QED BY <1>1, PayBooks DEF IInv, TypeOK, CommitPayment, Pay

------------------------------------------------------------------------------
(* DELIVERY: what becomes delivered to a customer is what it is charged.       *)
DeliveredKeys(w, P) == {<<w, d, P[d]>> : d \in DOMAIN P}

LEMMA DeliverTables ==
  ASSUME TablesTyped, OrderFields, LinesCounted, NEW w, NEW P, Deliver(w, P), NEW keys,
         keys = DeliveredKeys(w, P)
  PROVE  /\ new_order' = new_order \ keys
         /\ DOMAIN orders' = DOMAIN orders /\ DOMAIN order_line' = DOMAIN orders
         /\ \A key \in DOMAIN orders :
              /\ orders'[key].c = orders[key].c
              /\ "ol_cnt" \in DOMAIN orders'[key] /\ orders'[key].ol_cnt = orders[key].ol_cnt
              /\ "qty" \in DOMAIN order_line'[key] /\ order_line'[key].qty = order_line[key].qty
              /\ order_line'[key].amount = order_line[key].amount
              /\ order_line'[key].delivered = (order_line[key].delivered \/ key \in keys)
         /\ UNCHANGED <<money, d_next_o_id, stock>>
<1>1. /\ new_order' = new_order \ keys
      /\ orders' = [key \in DOMAIN orders |->
                     [orders[key] EXCEPT !.carrier = orders[key].carrier \/ key \in keys]]
      /\ order_line' = [key \in DOMAIN order_line |->
             [order_line[key] EXCEPT !.delivered = order_line[key].delivered \/ key \in keys]]
      /\ UNCHANGED <<money, d_next_o_id, stock>>
  BY DEF Deliver, DeliveredKeys
<1>2. DOMAIN order_line = DOMAIN orders
  BY DEF TablesTyped
<1>3. ASSUME NEW key \in DOMAIN orders
      PROVE  /\ orders'[key].c = orders[key].c
             /\ "ol_cnt" \in DOMAIN orders'[key] /\ orders'[key].ol_cnt = orders[key].ol_cnt
             /\ "qty" \in DOMAIN order_line'[key] /\ order_line'[key].qty = order_line[key].qty
             /\ order_line'[key].amount = order_line[key].amount
             /\ order_line'[key].delivered = (order_line[key].delivered \/ key \in keys)
  <2>1. /\ {"c", "carrier", "ol_cnt"} \subseteq DOMAIN orders[key]
        /\ {"amount", "delivered", "qty"} \subseteq DOMAIN order_line[key]
    BY DEF OrderFields, LinesCounted
  <2>2. orders'[key] = [orders[key] EXCEPT !.carrier = orders[key].carrier \/ key \in keys]
    BY <1>1
  <2>3. order_line'[key] =
          [order_line[key] EXCEPT !.delivered = order_line[key].delivered \/ key \in keys]
    BY <1>1, <1>2
  <2>4. /\ orders'[key].c = orders[key].c
        /\ "ol_cnt" \in DOMAIN orders'[key] /\ orders'[key].ol_cnt = orders[key].ol_cnt
    BY <2>1, <2>2
  <2>5. /\ "qty" \in DOMAIN order_line'[key] /\ order_line'[key].qty = order_line[key].qty
        /\ order_line'[key].amount = order_line[key].amount
        /\ order_line'[key].delivered = (order_line[key].delivered \/ key \in keys)
    BY <2>1, <2>3
  <2> QED BY <2>4, <2>5
<1> QED BY <1>1, <1>2, <1>3

LEMMA DeliverBalance ==
  ASSUME TablesTyped, OrdersDeliveredWhole, OrderFields, LinesCounted,
         NEW w \in Warehouses, NEW P, DOMAIN P \subseteq Districts, Deliver(w, P),
         \A d \in DOMAIN P : <<w, d, P[d]>> \in new_order,
         NEW ck \in CustomerKeys
  PROVE  c_balance'[ck] - DeliveredAmount(ck)' = c_balance[ck] - DeliveredAmount(ck)
<1>1. PICK keys : keys = DeliveredKeys(w, P)
  OBVIOUS
<1>2. /\ DOMAIN orders' = DOMAIN orders
      /\ \A key \in DOMAIN orders :
           /\ orders'[key].c = orders[key].c
           /\ order_line'[key].amount = order_line[key].amount
           /\ order_line'[key].delivered = (order_line[key].delivered \/ key \in keys)
  BY <1>1, DeliverTables
<1>3. /\ keys \subseteq DOMAIN orders
      /\ \A key \in keys : ~order_line[key].delivered
  BY <1>1 DEF OrdersDeliveredWhole, DeliveredKeys
<1>4. DeliveredTo(ck) \subseteq DOMAIN orders /\ IsFiniteSet(DeliveredTo(ck))
  BY DeliveredFinite
<1>5. c_balance[ck] \in Int /\ DeliveredAmount(ck) \in Int
  BY DeliveredTyped DEF TablesTyped
<1>6. \A key \in DOMAIN orders : order_line[key].amount \in Int
  BY DEF TablesTyped
<1>7. ck = <<ck[1], ck[2], ck[3]>>
  BY DEF CustomerKeys
<1>8. PICK mine : mine = <<w, ck[2], P[ck[2]]>>
  OBVIOUS
<1>9. PICK f : f = [key \in DeliveredTo(ck) |-> order_line[key].amount]
  OBVIOUS
<1>10. PICK g : g = [key \in DeliveredTo(ck)' |-> order_line'[key].amount]
  OBVIOUS
<1>11. DeliveredAmount(ck) = SumFunction(f) /\ DeliveredAmount(ck)' = SumFunction(g)
  BY <1>9, <1>10 DEF DeliveredAmount
<1>12. CASE ck[1] = w /\ ck[2] \in DOMAIN P /\ orders[mine].c = ck[3]
  <2>1. c_balance'[ck] = c_balance[ck] + order_line[mine].amount
    BY <1>8, <1>12 DEF Deliver
  <2>2. mine \in keys
    BY <1>1, <1>8, <1>12 DEF DeliveredKeys
  <2>3. DeliveredTo(ck)' = DeliveredTo(ck) \cup {mine} /\ mine \notin DeliveredTo(ck)
    <3>1. mine \notin DeliveredTo(ck)
      BY <1>3, <2>2 DEF DeliveredTo
    <3>2. mine \in DeliveredTo(ck)'
      BY <1>2, <1>3, <1>7, <1>8, <1>12, <2>2 DEF DeliveredTo
    <3>3. DeliveredTo(ck) \subseteq DeliveredTo(ck)'
      BY <1>2 DEF DeliveredTo
    <3>4. ASSUME NEW key \in DeliveredTo(ck)', key \notin DeliveredTo(ck) PROVE key = mine
      <4>1. key \in keys /\ <<key[1], key[2], orders[key].c>> = ck
        BY <1>2, <3>4 DEF DeliveredTo
      <4>2. PICK d \in DOMAIN P : key = <<w, d, P[d]>>
        BY <1>1, <4>1 DEF DeliveredKeys
      <4>3. d = ck[2]
        BY <1>7, <4>1, <4>2
      <4> QED BY <1>8, <4>2, <4>3
    <3> QED BY <3>1, <3>2, <3>3, <3>4
  <2>4. SumFunction(g) = SumFunction(f) + g[mine]
    <3>1. /\ DOMAIN f = DeliveredTo(ck) /\ DOMAIN g = DOMAIN f \cup {mine}
          /\ \A key \in DOMAIN f : f[key] \in Int /\ g[key] = f[key]
          /\ g[mine] \in Int
      BY <1>2, <1>3, <1>4, <1>6, <1>9, <1>10, <2>2, <2>3
    <3> QED BY <1>4, <2>3, <3>1, SumFunctionExtends
  <2>5. g[mine] = order_line[mine].amount
    BY <1>2, <1>3, <1>10, <2>2, <2>3
  <2>6. order_line[mine].amount \in Int
    BY <1>3, <1>6, <2>2
  <2> QED BY <1>5, <1>11, <2>1, <2>4, <2>5, <2>6
<1>13. CASE ~(ck[1] = w /\ ck[2] \in DOMAIN P /\ orders[mine].c = ck[3])
  <2>1. c_balance'[ck] = c_balance[ck] + 0
    BY <1>8, <1>13 DEF Deliver
  <2>2. DeliveredTo(ck)' = DeliveredTo(ck)
    <3>1. DeliveredTo(ck) \subseteq DeliveredTo(ck)'
      BY <1>2 DEF DeliveredTo
    <3>2. ASSUME NEW key \in DeliveredTo(ck)', key \notin DeliveredTo(ck) PROVE FALSE
      <4>1. key \in keys /\ <<key[1], key[2], orders[key].c>> = ck
        BY <1>2, <3>2 DEF DeliveredTo
      <4>2. PICK d \in DOMAIN P : key = <<w, d, P[d]>>
        BY <1>1, <4>1 DEF DeliveredKeys
      <4>3. d = ck[2] /\ w = ck[1] /\ orders[key].c = ck[3]
        BY <1>7, <4>1, <4>2
      <4> QED BY <1>8, <1>13, <4>2, <4>3
    <3> QED BY <3>1, <3>2
  <2>3. f = g
    BY <1>2, <1>4, <1>9, <1>10, <2>2
  <2> QED BY <1>5, <1>11, <2>1, <2>3
<1> QED BY <1>12, <1>13

LEMMA DeliverBooks ==
  ASSUME TablesTyped, TablesTyped', OrdersDeliveredWhole, OrderFields, BooksInv,
         NEW w \in Warehouses, NEW P, DOMAIN P \subseteq Districts, Deliver(w, P),
         \A d \in DOMAIN P : <<w, d, P[d]>> \in new_order
  PROVE  BooksInv'
<1>1. PICK keys : keys = DeliveredKeys(w, P)
  OBVIOUS
<1>2. LinesCounted /\ AfterLoaded /\ StockTyped /\ HistoryTyped
  BY DEF BooksInv
<1>3. /\ new_order' = new_order \ keys
      /\ DOMAIN orders' = DOMAIN orders /\ DOMAIN order_line' = DOMAIN orders
      /\ \A key \in DOMAIN orders :
           /\ "ol_cnt" \in DOMAIN orders'[key] /\ orders'[key].ol_cnt = orders[key].ol_cnt
           /\ "qty" \in DOMAIN order_line'[key] /\ order_line'[key].qty = order_line[key].qty
      /\ UNCHANGED <<money, d_next_o_id, stock>>
  BY <1>1, <1>2, DeliverTables
<1>4. /\ w_ytd' = w_ytd /\ d_ytd' = d_ytd /\ c_ytd_payment' = c_ytd_payment
      /\ history' = history /\ d_next_o_id' = d_next_o_id /\ stock' = stock
  BY <1>3 DEF money
<1>5. HistoryTyped' /\ YtdAdded'
  BY <1>4 DEF BooksInv, HistoryTyped, YtdAdded, checkCondition1, checkCondition9, PaidAt
<1>6. LinesCounted' /\ AfterLoaded' /\ StockTyped'
  <2>1. LinesCounted'
    BY <1>2, <1>3 DEF LinesCounted, LineCount
  <2>2. AfterLoaded' /\ StockTyped'
    BY <1>2, <1>3, <1>4 DEF AfterLoaded, StockTyped
  <2> QED BY <2>1, <2>2
<1>7. BalancesMatch'
  <2> SUFFICES ASSUME NEW ck \in CustomerKeys
               PROVE  /\ c_balance'[ck] = DeliveredAmount(ck)' - PaidBy(ck)'
                      /\ c_ytd_payment'[ck] = PaidBy(ck)'
    BY DEF BalancesMatch
  <2>1. PaidBy(ck)' = PaidBy(ck)
    BY <1>4 DEF PaidBy
  <2>2. /\ c_balance[ck] = DeliveredAmount(ck) - PaidBy(ck)
        /\ c_ytd_payment[ck] = PaidBy(ck)
    BY DEF BooksInv, BalancesMatch
  <2>3. c_balance'[ck] - DeliveredAmount(ck)' = c_balance[ck] - DeliveredAmount(ck)
    BY <1>2, DeliverBalance
  <2>4. /\ c_balance[ck] \in Int /\ c_balance'[ck] \in Int /\ PaidBy(ck) \in Int
        /\ DeliveredAmount(ck) \in Int
    BY <1>2, PaidTyped, DeliveredTyped DEF TablesTyped
  <2>5. DeliveredAmount(ck)' \in Int
    <3> DEFINE D == DeliveredTo(ck)'
               f == [key \in D |-> order_line'[key].amount]
    <3>1. D \subseteq DOMAIN orders' /\ IsFiniteSet(D)
      BY <1>6, FS_Subset DEF LinesCounted, DeliveredTo
    <3>2. IsFiniteSet(DOMAIN f) /\ \A x \in DOMAIN f : f[x] \in Int
      BY <3>1 DEF TablesTyped
    <3> HIDE DEF f
    <3>3. SumFunction(f) \in Int
      BY <3>2, SumFunctionType
    <3> QED BY <3>3 DEF DeliveredAmount, f
  <2> QED BY <1>4, <2>1, <2>2, <2>3, <2>4, <2>5
<1>8. StockMatchesLines'
  <2> SUFFICES ASSUME NEW s \in StockKeys
               PROVE  /\ OrdersFrom(s)' = OrdersFrom(s)
                      /\ [key \in OrdersFrom(s)' |-> order_line'[key].qty[s]] =
                            [key \in OrdersFrom(s) |-> order_line[key].qty[s]]
    BY <1>4 DEF BooksInv, StockMatchesLines
  <2>1. OrdersFrom(s)' = OrdersFrom(s)
    BY <1>3 DEF OrdersFrom
  <2>2. OrdersFrom(s) \subseteq DOMAIN orders
    BY DEF OrdersFrom
  <2> QED BY <1>3, <2>1, <2>2
<1> QED BY <1>5, <1>6, <1>7, <1>8 DEF BooksInv

LEMMA CommitDeliveryBooks ==
  ASSUME IInv, BooksInv, NEW k \in Workers, CommitDelivery(k)
  PROVE  BooksInv'
<1> DEFINE P == [d \in {e \in Districts : picked[k][e] # 0} |-> picked[k][d]]
<1>1. TablesTyped /\ OrdersDeliveredWhole /\ OrderFields
  BY DEF IInv, TypeOK, TableInv
<1>2. TablesTyped'
  BY CommitDeliveryTypes
<1>3. /\ input[k].w \in Warehouses
      /\ \A d \in Districts : picked[k][d] # 0 => <<input[k].w, d, picked[k][d]>> \in new_order
  BY CommitDeliveryReads
<1>4. /\ DOMAIN P \subseteq Districts /\ Deliver(input[k].w, P)
      /\ \A d \in DOMAIN P : <<input[k].w, d, P[d]>> \in new_order
  BY <1>3 DEF CommitDelivery
<1> HIDE DEF P
<1> QED BY <1>1, <1>2, <1>3, <1>4, DeliverBooks

------------------------------------------------------------------------------
(* NEW-ORDER: a new key, which is not delivered, and what it takes from stock. *)
PlacedKey(in, n) == <<in.w, in.d, n>>

(* What the tables are with the order at key placed. *)
Placed(in, n, key) ==
  /\ d_next_o_id' = [d_next_o_id EXCEPT ![<<in.w, in.d>>] = n + 1]
  /\ DOMAIN orders' = DOMAIN orders \cup {key}
  /\ DOMAIN order_line' = DOMAIN orders \cup {key}
  /\ new_order' = new_order \cup {key}
  /\ \A ok \in DOMAIN orders : orders'[ok] = orders[ok] /\ order_line'[ok] = order_line[ok]
  /\ "ol_cnt" \in DOMAIN orders'[key] /\ orders'[key].ol_cnt = Cardinality(DOMAIN in.qty)
  /\ "qty" \in DOMAIN order_line'[key] /\ order_line'[key].qty = in.qty
  /\ order_line'[key].delivered = FALSE
  /\ w_ytd' = w_ytd /\ d_ytd' = d_ytd /\ c_ytd_payment' = c_ytd_payment
  /\ history' = history /\ c_balance' = c_balance

LEMMA PlaceTables ==
  ASSUME TablesTyped, NEW in, NEW n, NEW q, PlaceOrder(in, n, q), NEW key,
         key = PlacedKey(in, n), key \notin DOMAIN orders
  PROVE  Placed(in, n, key)
<1> DEFINE order == [c |-> in.c, ol_cnt |-> Cardinality(DOMAIN in.qty), carrier |-> FALSE]
           lines == [qty |-> in.qty, amount |-> in.amount, delivered |-> FALSE]
<1>1. /\ d_next_o_id' = [d_next_o_id EXCEPT ![<<in.w, in.d>>] = n + 1]
      /\ orders' = Put(orders, key, order)
      /\ new_order' = new_order \cup {key}
      /\ order_line' = Put(order_line, key, lines)
      /\ UNCHANGED <<money, c_balance>>
  BY DEF PlaceOrder, PlacedKey
<1>2. /\ "ol_cnt" \in DOMAIN order /\ order.ol_cnt = Cardinality(DOMAIN in.qty)
      /\ "qty" \in DOMAIN lines /\ lines.qty = in.qty /\ lines.delivered = FALSE
  OBVIOUS
<1> HIDE DEF order, lines
<1>3. /\ DOMAIN orders' = DOMAIN orders \cup {key} /\ orders'[key] = order
      /\ \A ok \in DOMAIN orders : ok # key => orders'[ok] = orders[ok]
  BY <1>1, Zenon DEF Put
<1>4. /\ DOMAIN order_line' = DOMAIN order_line \cup {key} /\ order_line'[key] = lines
      /\ \A ok \in DOMAIN order_line : ok # key => order_line'[ok] = order_line[ok]
  BY <1>1, Zenon DEF Put
<1>5. DOMAIN order_line = DOMAIN orders
  BY DEF TablesTyped
<1> QED BY <1>1, <1>2, <1>3, <1>4, <1>5 DEF money, Placed

(* The stock row s counts the new order, if it has a line for it.              *)
LEMMA PlaceOrdersFrom ==
  ASSUME LinesCounted, NEW key, NEW s, key \notin DOMAIN orders, key[3] > OrderPerDistrict,
         DOMAIN orders' = DOMAIN orders \cup {key},
         \A ok \in DOMAIN orders : order_line'[ok] = order_line[ok]
  PROVE  /\ key \notin OrdersFrom(s)
         /\ s \in DOMAIN order_line'[key].qty => OrdersFrom(s)' = OrdersFrom(s) \cup {key}
         /\ s \notin DOMAIN order_line'[key].qty => OrdersFrom(s)' = OrdersFrom(s)
BY DEF OrdersFrom

Sold(s) == SumFunction([key \in OrdersFrom(s) |-> order_line[key].qty[s]])

LEMMA PlaceSold ==
  ASSUME LinesCounted, NEW key, NEW s, key \notin DOMAIN orders, key[3] > OrderPerDistrict,
         DOMAIN orders' = DOMAIN orders \cup {key},
         \A ok \in DOMAIN orders : order_line'[ok] = order_line[ok],
         s \in DOMAIN order_line'[key].qty => order_line'[key].qty[s] \in Int
  PROVE  /\ Sold(s) \in Int
         /\ s \in DOMAIN order_line'[key].qty => Sold(s)' = Sold(s) + order_line'[key].qty[s]
         /\ s \notin DOMAIN order_line'[key].qty => Sold(s)' = Sold(s)
<1>1. OrdersFrom(s) \subseteq DOMAIN orders /\ IsFiniteSet(OrdersFrom(s))
  BY OrdersFromFinite
<1>2. \A ok \in OrdersFrom(s) : order_line[ok].qty[s] \in Int
  BY DEF LinesCounted, OrdersFrom
<1>3. PICK f : f = [ok \in OrdersFrom(s) |-> order_line[ok].qty[s]]
  OBVIOUS
<1>4. PICK g : g = [ok \in OrdersFrom(s)' |-> order_line'[ok].qty[s]]
  OBVIOUS
<1>5. Sold(s) = SumFunction(f) /\ Sold(s)' = SumFunction(g)
  BY <1>3, <1>4 DEF Sold
<1>6. /\ DOMAIN f = OrdersFrom(s) /\ DOMAIN g = OrdersFrom(s)'
      /\ \A ok \in DOMAIN f : f[ok] \in Int
  BY <1>2, <1>3, <1>4
<1>7. Sold(s) \in Int
  BY <1>1, <1>5, <1>6, SumFunctionType
<1>8. ASSUME s \in DOMAIN order_line'[key].qty
      PROVE  Sold(s)' = Sold(s) + order_line'[key].qty[s]
  <2>1. OrdersFrom(s)' = OrdersFrom(s) \cup {key} /\ key \notin OrdersFrom(s)
    BY <1>8, PlaceOrdersFrom
  <2>2. /\ DOMAIN g = DOMAIN f \cup {key} /\ key \notin DOMAIN f
        /\ g[key] = order_line'[key].qty[s] /\ g[key] \in Int
        /\ \A ok \in DOMAIN f : g[ok] = f[ok]
    BY <1>1, <1>3, <1>4, <1>8, <2>1
  <2>3. SumFunction(g) = SumFunction(f) + g[key]
    BY <1>1, <1>6, <2>2, SumFunctionExtends
  <2> QED BY <1>5, <2>2, <2>3
<1>9. ASSUME s \notin DOMAIN order_line'[key].qty PROVE Sold(s)' = Sold(s)
  <2>1. OrdersFrom(s)' = OrdersFrom(s)
    BY <1>9, PlaceOrdersFrom
  <2>2. f = g
    BY <1>1, <1>3, <1>4, <2>1
  <2> QED BY <1>5, <2>2
<1> QED BY <1>7, <1>8, <1>9

(* Stock is refilled by 91 when it would fall below 10. *)
LEMMA RefilledStock ==
  ASSUME NEW q \in Int, NEW sold \in Int, NEW n \in 1..10,
         q >= 10, (q + sold - 10) % 91 = 0
  PROVE  /\ RefilledQuantity(q - n) \in Int
         /\ RefilledQuantity(q - n) >= 10
         /\ (RefilledQuantity(q - n) + (sold + n) - 10) % 91 = 0
<1>1. CASE q - n < 10
  <2>1. RefilledQuantity(q - n) = q - n + 91
    BY <1>1 DEF RefilledQuantity
  <2>2. (q - n + 91) + (sold + n) - 10 = (q + sold - 10) + 91
    OBVIOUS
  <2>3. \A a \in Int : a % 91 = 0 => (a + 91) % 91 = 0
    OBVIOUS
  <2> QED BY <2>1, <2>2, <2>3
<1>2. CASE ~(q - n < 10)
  <2>1. RefilledQuantity(q - n) = q - n
    BY <1>2 DEF RefilledQuantity
  <2>2. (q - n) + (sold + n) - 10 = q + sold - 10
    OBVIOUS
  <2> QED BY <1>2, <2>1, <2>2
<1> QED BY <1>1, <1>2

StockOf(s) ==
  /\ stock[s].ytd = Sold(s)
  /\ stock[s].order_cnt = Cardinality(OrdersFrom(s))
  /\ stock[s].remote_cnt = Cardinality({key \in OrdersFrom(s) : key[1] # s[1]})
  /\ (stock[s].quantity + Sold(s) - 10) % 91 = 0
  /\ stock[s].quantity >= 10

LEMMA StockRows == StockMatchesLines <=> \A s \in StockKeys : StockOf(s)
BY DEF StockMatchesLines, StockOf, Sold

LEMMA PlaceStock ==
  ASSUME TablesTyped, LinesCounted, StockTyped,
         NEW in, NEW n, NEW q, PlaceOrder(in, n, q), NEW key,
         key = PlacedKey(in, n), key \notin DOMAIN orders, n > OrderPerDistrict,
         \A s \in DOMAIN in.qty : /\ in.qty[s] \in 1..10
                                  /\ q[s] = RefilledQuantity(stock[s].quantity - in.qty[s]),
         NEW s \in StockKeys, StockOf(s)
  PROVE  /\ StockOf(s)'
         /\ stock'[s].quantity \in Int /\ stock'[s].ytd \in Int
         /\ stock'[s].order_cnt \in Int /\ stock'[s].remote_cnt \in Int
<1>1. /\ DOMAIN orders' = DOMAIN orders \cup {key}
      /\ \A ok \in DOMAIN orders : order_line'[ok] = order_line[ok]
      /\ order_line'[key].qty = in.qty
  <2>1. Placed(in, n, key)
    BY PlaceTables
  <2> QED BY <2>1 DEF Placed
<1>7. key[1] = in.w /\ key[3] > OrderPerDistrict
  BY DEF PlacedKey
<1>8. s \in DOMAIN order_line'[key].qty => order_line'[key].qty[s] \in Int
  BY <1>1
<1>2. /\ Sold(s) \in Int
      /\ s \in DOMAIN in.qty => Sold(s)' = Sold(s) + in.qty[s]
      /\ s \notin DOMAIN in.qty => Sold(s)' = Sold(s)
  BY <1>1, <1>7, <1>8, PlaceSold
<1>3. /\ key \notin OrdersFrom(s)
      /\ s \in DOMAIN in.qty => OrdersFrom(s)' = OrdersFrom(s) \cup {key}
      /\ s \notin DOMAIN in.qty => OrdersFrom(s)' = OrdersFrom(s)
  BY <1>1, <1>7, PlaceOrdersFrom
<1>4. /\ stock[s].quantity \in Int /\ stock[s].ytd \in Int
      /\ stock[s].order_cnt \in Int /\ stock[s].remote_cnt \in Int
  BY DEF StockTyped
<1>5. CASE s \in DOMAIN in.qty
  <2>1. stock'[s] = [quantity |-> q[s],
                     ytd |-> stock[s].ytd + in.qty[s],
                     order_cnt |-> stock[s].order_cnt + 1,
                     remote_cnt |-> stock[s].remote_cnt + (IF s[1] = in.w THEN 0 ELSE 1)]
    BY <1>5 DEF PlaceOrder
  <2>2. /\ stock'[s].quantity = q[s] /\ stock'[s].ytd = stock[s].ytd + in.qty[s]
        /\ stock'[s].order_cnt = stock[s].order_cnt + 1
        /\ stock'[s].remote_cnt = stock[s].remote_cnt + (IF s[1] = in.w THEN 0 ELSE 1)
    BY <2>1
  <2>3. Cardinality(OrdersFrom(s)') = Cardinality(OrdersFrom(s)) + 1
    BY <1>3, <1>5, OrdersFromFinite, FS_AddElement
  <2>4. Cardinality({ok \in OrdersFrom(s)' : ok[1] # s[1]}) =
          Cardinality({ok \in OrdersFrom(s) : ok[1] # s[1]}) + (IF s[1] = in.w THEN 0 ELSE 1)
    <3>1. PICK R : R = {ok \in OrdersFrom(s) : ok[1] # s[1]}
      OBVIOUS
    <3>2. IsFiniteSet(R) /\ Cardinality(R) \in Nat /\ key \notin R
      BY <1>3, <3>1, OrdersFromFinite, FS_CardinalityType
    <3>3. CASE s[1] = in.w
      <4>1. {ok \in OrdersFrom(s)' : ok[1] # s[1]} = R
        BY <1>7, <1>3, <1>5, <3>1, <3>3
      <4>2. Cardinality(R) + (IF s[1] = in.w THEN 0 ELSE 1) = Cardinality(R)
        BY <3>2, <3>3
      <4> QED BY <3>1, <4>1, <4>2, Zenon
    <3>4. CASE s[1] # in.w
      <4>1. {ok \in OrdersFrom(s)' : ok[1] # s[1]} = R \cup {key}
        BY <1>7, <1>3, <1>5, <3>1, <3>4
      <4>2. Cardinality(R \cup {key}) = Cardinality(R) + 1
        BY <3>2, FS_AddElement
      <4> QED BY <3>1, <3>4, <4>1, <4>2
    <3> QED BY <3>3, <3>4
  <2>5. in.qty[s] \in 1..10 /\ q[s] = RefilledQuantity(stock[s].quantity - in.qty[s])
    BY <1>5
  <2>6. /\ q[s] \in Int /\ q[s] >= 10
        /\ (q[s] + (Sold(s) + in.qty[s]) - 10) % 91 = 0
    <3>1. PICK was, sold, ordered : was = stock[s].quantity /\ sold = Sold(s) /\ ordered = in.qty[s]
      OBVIOUS
    <3>2. was >= 10 /\ (was + sold - 10) % 91 = 0
      BY <3>1 DEF StockOf
    <3>3. was \in Int /\ sold \in Int /\ ordered \in 1..10
      BY <1>2, <1>4, <2>5, <3>1
    <3>4. /\ RefilledQuantity(was - ordered) \in Int
          /\ RefilledQuantity(was - ordered) >= 10
          /\ (RefilledQuantity(was - ordered) + (sold + ordered) - 10) % 91 = 0
      BY <3>2, <3>3, RefilledStock
    <3> QED BY <2>5, <3>1, <3>4
  <2>7. /\ stock'[s].ytd = Sold(s)'
        /\ stock'[s].order_cnt = Cardinality(OrdersFrom(s)')
        /\ stock'[s].remote_cnt = Cardinality({ok \in OrdersFrom(s)' : ok[1] # s[1]})
    BY <1>2, <1>5, <2>2, <2>3, <2>4 DEF StockOf
  <2>8. (stock'[s].quantity + Sold(s)' - 10) % 91 = 0 /\ stock'[s].quantity >= 10
    BY <1>2, <1>5, <2>2, <2>6
  <2>9. /\ stock'[s].quantity \in Int /\ stock'[s].ytd \in Int
        /\ stock'[s].order_cnt \in Int /\ stock'[s].remote_cnt \in Int
    BY <1>4, <2>2, <2>5, <2>6
  <2> QED BY <2>7, <2>8, <2>9 DEF StockOf
<1>6. CASE s \notin DOMAIN in.qty
  <2>1. stock'[s] = stock[s]
    BY <1>6 DEF PlaceOrder
  <2> QED BY <1>2, <1>3, <1>4, <1>6, <2>1 DEF StockOf
<1> QED BY <1>5, <1>6

LEMMA PlaceBooks ==
  ASSUME TablesTyped, BooksInv, NEW in, NEW n \in Nat, NEW q, PlaceOrder(in, n, q),
         <<in.w, in.d>> \in DistrictKeys, n = d_next_o_id[<<in.w, in.d>>],
         <<in.w, in.d, n>> \notin DOMAIN orders,
         \A s \in DOMAIN in.qty : /\ in.qty[s] \in 1..10
                                  /\ q[s] = RefilledQuantity(stock[s].quantity - in.qty[s])
  PROVE  BooksInv'
<1>1. PICK key : key = <<in.w, in.d, n>> /\ key = PlacedKey(in, n)
  BY DEF PlacedKey
<1>2. /\ d_next_o_id' = [d_next_o_id EXCEPT ![<<in.w, in.d>>] = n + 1]
      /\ DOMAIN orders' = DOMAIN orders \cup {key}
      /\ DOMAIN order_line' = DOMAIN orders \cup {key}
      /\ new_order' = new_order \cup {key}
      /\ \A ok \in DOMAIN orders : orders'[ok] = orders[ok] /\ order_line'[ok] = order_line[ok]
      /\ "ol_cnt" \in DOMAIN orders'[key] /\ orders'[key].ol_cnt = Cardinality(DOMAIN in.qty)
      /\ "qty" \in DOMAIN order_line'[key] /\ order_line'[key].qty = in.qty
      /\ order_line'[key].delivered = FALSE
      /\ w_ytd' = w_ytd /\ d_ytd' = d_ytd /\ c_ytd_payment' = c_ytd_payment
      /\ history' = history /\ c_balance' = c_balance
  <2>1. Placed(in, n, key)
    BY <1>1, PlaceTables
  <2> QED BY <2>1 DEF Placed
<1>3. LinesCounted /\ AfterLoaded /\ StockTyped
  BY DEF BooksInv
<1>4. HistoryTyped' /\ YtdAdded'
  BY <1>2 DEF BooksInv, HistoryTyped, YtdAdded, checkCondition1, checkCondition9, PaidAt
<1>5. BalancesMatch'
  <2>1. ASSUME NEW ck PROVE DeliveredAmount(ck)' = DeliveredAmount(ck)
    <3>1. DeliveredTo(ck)' = DeliveredTo(ck)
      BY <1>1, <1>2 DEF DeliveredTo
    <3>2. [ok \in DeliveredTo(ck)' |-> order_line'[ok].amount] =
            [ok \in DeliveredTo(ck) |-> order_line[ok].amount]
      BY <1>2, <1>3, <3>1, DeliveredFinite
    <3> QED BY <3>2 DEF DeliveredAmount
  <2> QED BY <1>2, <2>1 DEF BooksInv, BalancesMatch, PaidBy
<1>6. LinesCounted'
  <2>1. IsFiniteSet(DOMAIN orders')
    BY <1>2, <1>3, FS_AddElement DEF LinesCounted
  <2>2. ASSUME NEW ok \in DOMAIN orders'
        PROVE  /\ "ol_cnt" \in DOMAIN orders'[ok] /\ "qty" \in DOMAIN order_line'[ok]
               /\ orders'[ok].ol_cnt = Cardinality(DOMAIN order_line'[ok].qty)
               /\ \A s \in DOMAIN order_line'[ok].qty : order_line'[ok].qty[s] \in 1..10
    <3>1. CASE ok \in DOMAIN orders
      BY <1>2, <1>3, <3>1 DEF LinesCounted, LineCount
    <3>2. CASE ok = key
      BY <1>2, <3>2
    <3> QED BY <1>2, <3>1, <3>2
  <2> QED BY <2>1, <2>2 DEF LinesCounted, LineCount
<1>7. AfterLoaded'
  <2>1. n > OrderPerDistrict /\ n > DeliveredPerDistrict /\ n + 1 > OrderPerDistrict
    BY <1>3, TablesAssumption DEF AfterLoaded, TablesAssumption
  <2>2. \A dk \in DistrictKeys : d_next_o_id'[dk] > OrderPerDistrict
    BY <1>2, <1>3, <2>1 DEF AfterLoaded, TablesTyped
  <2>3. \A ok \in new_order' : ok[3] > DeliveredPerDistrict
    BY <1>1, <1>2, <1>3, <2>1 DEF AfterLoaded
  <2> QED BY <2>2, <2>3 DEF AfterLoaded
<1>8. StockTyped' /\ StockMatchesLines'
  <2>1. n > OrderPerDistrict
    BY <1>3 DEF AfterLoaded
  <2>2. \A s \in StockKeys : StockOf(s)
    BY StockRows DEF BooksInv
  <2>3. ASSUME NEW s \in StockKeys
        PROVE  /\ StockOf(s)'
               /\ stock'[s].quantity \in Int /\ stock'[s].ytd \in Int
               /\ stock'[s].order_cnt \in Int /\ stock'[s].remote_cnt \in Int
    BY <1>1, <1>3, <2>1, <2>2, PlaceStock
  <2>4. StockMatchesLines' <=> \A s \in StockKeys : StockOf(s)'
    BY DEF StockMatchesLines, StockOf, Sold
  <2> QED BY <2>3, <2>4 DEF StockTyped
<1> QED BY <1>4, <1>5, <1>6, <1>7, <1>8 DEF BooksInv

LEMMA CommitNewOrderBooks ==
  ASSUME IInv, BooksInv, NEW k \in Workers, CommitNewOrder(k)
  PROVE  BooksInv'
<1>1. /\ <<input[k].w, input[k].d>> \in DistrictKeys
      /\ oID[k] \in Nat /\ oID[k] = d_next_o_id[<<input[k].w, input[k].d>>]
      /\ \A s \in DOMAIN input[k].qty :
           quantity[k][s] = RefilledQuantity(stock[s].quantity - input[k].qty[s])
  BY CommitNewOrderReads DEF DistrictKeys
<1>2. \A s \in DOMAIN input[k].qty : input[k].qty[s] \in 1..10
  BY InputOfStatement DEF IInv, CommitNewOrder, NewOrderStatements, IsNewOrderInput
<1>3. <<input[k].w, input[k].d, oID[k]>> \notin DOMAIN orders
  BY CommitNewOrderTableInv
<1>4. TablesTyped /\ PlaceOrder(input[k], oID[k], quantity[k])
  BY DEF IInv, TypeOK, CommitNewOrder
<1> QED BY <1>1, <1>2, <1>3, <1>4, PlaceBooks

------------------------------------------------------------------------------
(* The load balances: it has paid 10.00 for every customer, and its orders     *)
(* have taken nothing from stock.                                              *)
LEMMA LoadPaid ==
  ASSUME Load
  PROVE  /\ HistoryTyped
         /\ \A ck \in CustomerKeys : PaidBy(ck) = InitialPayment
         /\ \A dk \in DistrictKeys : PaidAt(dk) = CustomerPerDistrict * InitialPayment
<1>1. history = [paid \in DistrictKeys \X CustomerKeys |->
                  IF paid[1] = <<paid[2][1], paid[2][2]>> THEN InitialPayment ELSE 0]
  BY DEF Load
<1>2. HistoryTyped
  BY <1>1 DEF HistoryTyped, InitialPayment
<1>3. \A dk \in DistrictKeys, ck \in CustomerKeys :
        history[<<dk, ck>>] = IF dk = <<ck[1], ck[2]>> THEN InitialPayment ELSE 0
  BY <1>1
<1>4. InitialPayment \in Int
  BY DEF InitialPayment
<1>5. ASSUME NEW ck \in CustomerKeys PROVE PaidBy(ck) = InitialPayment
  <2>1. PICK f : f = [dk \in DistrictKeys |-> history[<<dk, ck>>]]
    OBVIOUS
  <2>2. PICK own \in DistrictKeys : own = <<ck[1], ck[2]>>
    BY DEF CustomerKeys, DistrictKeys
  <2>3. f[own] = InitialPayment /\ \A dk \in DistrictKeys \ {own} : f[dk] = 0
    BY <1>3, <2>1, <2>2
  <2>4. SumFunctionOnSet(f, DistrictKeys) = SumFunctionOnSet(f, {own})
    <3>1. /\ {own} \in SUBSET DistrictKeys
          /\ \A x \in {own} : f[x] \in Int
          /\ \A x \in DistrictKeys \ {own} : f[x] = 0
      BY <1>4, <2>3
    <3> QED BY <3>1, KeysFinite, SumDropsZeros
  <2>5. SumFunctionOnSet(f, {own}) = f[own] + SumFunctionOnSet(f, {own} \ {own})
    BY <1>4, <2>3, FS_Singleton, SumTakesOut
  <2>6. {own} \ {own} = {}
    OBVIOUS
  <2>7. SumFunctionOnSet(f, {own}) = InitialPayment
    BY <1>4, <2>3, <2>5, <2>6, SumEmpty
  <2> QED BY <2>1, <2>4, <2>7 DEF PaidBy, SumFunction
<1>6. ASSUME NEW dk \in DistrictKeys PROVE PaidAt(dk) = CustomerPerDistrict * InitialPayment
  <2>1. PICK f : f = [ck \in CustomerKeys |-> history[<<dk, ck>>]]
    OBVIOUS
  <2>2. PICK T \in SUBSET CustomerKeys : T = {ck \in CustomerKeys : dk = <<ck[1], ck[2]>>}
    OBVIOUS
  <2>3. /\ \A ck \in T : f[ck] = InitialPayment
        /\ \A ck \in CustomerKeys \ T : f[ck] = 0
    BY <1>3, <2>1, <2>2
  <2>4. SumFunctionOnSet(f, CustomerKeys) = SumFunctionOnSet(f, T)
    <3>1. \A x \in T : f[x] \in Int
      BY <1>4, <2>3
    <3> QED BY <2>3, <3>1, KeysFinite, SumDropsZeros
  <2>5. Cardinality(T) = CustomerPerDistrict
    <3> DEFINE b == [c \in CustomerIds |-> <<dk[1], dk[2], c>>]
    <3>1. dk = <<dk[1], dk[2]>> /\ dk[1] \in Warehouses /\ dk[2] \in Districts
      BY DEF DistrictKeys
    <3>2. b \in [CustomerIds -> T]
      BY <2>2, <3>1 DEF CustomerKeys
    <3>3. \A c, e \in CustomerIds : b[c] = b[e] => c = e
      OBVIOUS
    <3>4. ASSUME NEW ck \in T PROVE \E c \in CustomerIds : b[c] = ck
      <4>1. ck \in CustomerKeys /\ dk = <<ck[1], ck[2]>>
        BY <2>2
      <4>2. ck[3] \in CustomerIds /\ b[ck[3]] = ck
        BY <4>1 DEF CustomerKeys
      <4> QED BY <4>2
    <3>5. b \in Bijection(CustomerIds, T)
      <4> HIDE DEF b
      <4> QED BY <3>2, <3>3, <3>4 DEF Bijection, Injection, Surjection, IsInjective
    <3>6. ExistsBijection(CustomerIds, T)
      BY <3>5 DEF ExistsBijection
    <3>7. Cardinality(CustomerIds) = CustomerPerDistrict
      BY TablesAssumption, FS_Interval DEF TablesAssumption, CustomerIds
    <3> QED BY <3>6, <3>7, KeysFinite, FS_Bijection
  <2>6. SumFunctionOnSet(f, T) = Cardinality(T) * InitialPayment
    <3>1. IsFiniteSet(T)
      BY KeysFinite, FS_Subset
    <3> QED BY <1>4, <2>3, <3>1, SumConstant
  <2>7. SumFunction(f) = SumFunctionOnSet(f, CustomerKeys)
    BY <2>1 DEF SumFunction
  <2> QED BY <2>1, <2>4, <2>5, <2>6, <2>7 DEF PaidAt
<1> QED BY <1>2, <1>5, <1>6

LEMMA LoadYtd ==
  ASSUME Load, NEW w \in Warehouses
  PROVE  checkCondition1(w) /\ checkCondition9(w)
<1> DEFINE paid == CustomerPerDistrict * InitialPayment
<1>1. /\ \A d \in Districts : d_ytd[<<w, d>>] = paid
      /\ w_ytd[w] = DistrictPerWarehouse * CustomerPerDistrict * InitialPayment
  BY DEF Load, DistrictKeys
<1>2. DistrictPerWarehouse \in Nat /\ CustomerPerDistrict \in Nat /\ paid \in Int
  BY TablesAssumption DEF TablesAssumption, InitialPayment
<1>3. checkCondition9(w)
  BY <1>1, LoadPaid DEF checkCondition9, DistrictKeys
<1>4. checkCondition1(w)
  <2>1. PICK f : f = [d \in Districts |-> d_ytd[<<w, d>>]]
    OBVIOUS
  <2>2. \A d \in Districts : f[d] = paid
    BY <1>1, <2>1
  <2>3. SumFunctionOnSet(f, Districts) = Cardinality(Districts) * paid
    <3> HIDE DEF paid
    <3> QED BY <1>2, <2>2, KeysFinite, SumConstant
  <2>4. Cardinality(Districts) = DistrictPerWarehouse
    BY TablesAssumption, FS_Interval DEF TablesAssumption, Districts
  <2>5. DistrictPerWarehouse * CustomerPerDistrict * InitialPayment = DistrictPerWarehouse * paid
    BY <1>2 DEF InitialPayment
  <2>6. SumFunction(f) = w_ytd[w]
    BY <1>1, <2>1, <2>3, <2>4, <2>5 DEF SumFunction
  <2> QED BY <2>1, <2>6 DEF checkCondition1
<1> QED BY <1>3, <1>4

LEMMA LoadBalances ==
  ASSUME Load, LinesCounted
  PROVE  BalancesMatch
<1> SUFFICES ASSUME NEW ck \in CustomerKeys
             PROVE  /\ c_balance[ck] = DeliveredAmount(ck) - PaidBy(ck)
                    /\ c_ytd_payment[ck] = PaidBy(ck)
  BY DEF BalancesMatch
<1>1. c_balance[ck] = -InitialPayment /\ c_ytd_payment[ck] = InitialPayment
  BY DEF Load
<1>2. PaidBy(ck) = InitialPayment
  BY LoadPaid
<1>3. DeliveredAmount(ck) = 0
  <2>1. PICK f : f = [key \in DeliveredTo(ck) |-> order_line[key].amount]
    OBVIOUS
  <2>2. IsFiniteSet(DeliveredTo(ck))
    BY DeliveredFinite
  <2>3. ASSUME NEW key \in DeliveredTo(ck) PROVE f[key] = 0
    <3>1. key \in DOMAIN orders /\ order_line[key].delivered /\ f[key] = order_line[key].amount
      BY <2>1 DEF DeliveredTo
    <3>2. key \in LoadedOrders
      BY <3>1 DEF Load
    <3>3. /\ order_line[key].delivered = Delivered(key[3])
          /\ order_line[key].amount = IF Delivered(key[3]) THEN 0 ELSE LoadedAmount
      BY <3>2 DEF Load
    <3> QED BY <3>1, <3>3
  <2>4. SumFunctionOnSet(f, DeliveredTo(ck)) = Cardinality(DeliveredTo(ck)) * 0
    BY <2>2, <2>3, SumConstant
  <2>5. Cardinality(DeliveredTo(ck)) \in Nat
    BY <2>2, FS_CardinalityType
  <2>6. SumFunction(f) = 0
    BY <2>1, <2>4, <2>5 DEF SumFunction
  <2> QED BY <2>1, <2>6 DEF DeliveredAmount
<1> QED BY <1>1, <1>2, <1>3 DEF InitialPayment

LEMMA LoadLines ==
  ASSUME Load
  PROVE  LinesCounted
<1>1. DOMAIN orders = LoadedOrders
  BY DEF Load
<1>2. ASSUME NEW key \in LoadedOrders
      PROVE  /\ "ol_cnt" \in DOMAIN orders[key] /\ "qty" \in DOMAIN order_line[key]
             /\ orders[key].ol_cnt = Cardinality(DOMAIN order_line[key].qty)
             /\ \A s \in DOMAIN order_line[key].qty : order_line[key].qty[s] \in 1..10
  <2>1. /\ "ol_cnt" \in DOMAIN orders[key] /\ orders[key].ol_cnt = Cardinality(Items)
        /\ "qty" \in DOMAIN order_line[key]
        /\ order_line[key].qty = [s \in {key[1]} \X Items |-> 5]
    BY DEF Load
  <2>2. PICK W : W = {key[1]}
    OBVIOUS
  <2>3. /\ IsFiniteSet(W) /\ Cardinality(W) = 1
        /\ IsFiniteSet(Items) /\ Cardinality(Items) \in Nat
    BY <2>2, TablesAssumption, FS_Singleton, FS_CardinalityType DEF TablesAssumption
  <2>4. Cardinality(W \X Items) = Cardinality(W) * Cardinality(Items)
    BY <2>3, FS_Product
  <2>5. Cardinality({key[1]} \X Items) = Cardinality(Items)
    BY <2>2, <2>3, <2>4
  <2>6. DOMAIN order_line[key].qty = {key[1]} \X Items
    BY <2>1
  <2>7. \A s \in DOMAIN order_line[key].qty : order_line[key].qty[s] \in 1..10
    BY <2>1
  <2> QED BY <2>1, <2>5, <2>6, <2>7
<1> QED BY <1>1, <1>2, KeysFinite DEF LinesCounted, LineCount

LEMMA LoadBooks == Load => BooksInv
<1> SUFFICES ASSUME Load PROVE BooksInv
  OBVIOUS
<1>1. AfterLoaded
  <2>1. \A dk \in DistrictKeys : d_next_o_id[dk] = OrderPerDistrict + 1
    BY DEF Load
  <2>2. \A key \in new_order : ~Delivered(key[3]) /\ key[3] \in Nat
    BY DEF Load, LoadedOrders
  <2> QED BY <2>1, <2>2, TablesAssumption DEF AfterLoaded, Delivered, TablesAssumption
<1>2. \A s \in StockKeys :
        stock[s] = [quantity |-> 10, ytd |-> 0, order_cnt |-> 0, remote_cnt |-> 0]
  BY DEF Load
<1>3. StockTyped
  BY <1>2 DEF StockTyped
<1>4. ASSUME NEW s \in StockKeys PROVE StockOf(s)
  <2>1. OrdersFrom(s) = {}
    <3>1. \A key \in LoadedOrders : key[3] \in Nat /\ key[3] <= OrderPerDistrict
      BY TablesAssumption DEF LoadedOrders, TablesAssumption
    <3>2. DOMAIN orders = LoadedOrders
      BY DEF Load
    <3> QED BY <3>1, <3>2, TablesAssumption DEF OrdersFrom, TablesAssumption
  <2>2. Sold(s) = 0
    <3>1. PICK f : f = [key \in OrdersFrom(s) |-> order_line[key].qty[s]]
      OBVIOUS
    <3>2. DOMAIN f = {}
      BY <2>1, <3>1
    <3>3. SumFunction(f) = 0
      BY <3>2, SumEmpty DEF SumFunction
    <3> QED BY <3>1, <3>3 DEF Sold
  <2>3. {key \in OrdersFrom(s) : key[1] # s[1]} = {}
    BY <2>1
  <2>4. (10 + 0 - 10) % 91 = 0
    OBVIOUS
  <2> QED BY <1>2, <2>1, <2>2, <2>3, <2>4, FS_EmptySet DEF StockOf
<1>5. LinesCounted /\ HistoryTyped /\ YtdAdded
  BY LoadLines, LoadPaid, LoadYtd DEF YtdAdded
<1>6. BalancesMatch
  BY <1>5, LoadBalances
<1>7. StockMatchesLines
  BY <1>4, StockRows
<1> QED BY <1>1, <1>3, <1>5, <1>6, <1>7 DEF BooksInv

LEMMA BooksStep == IInv /\ BooksInv /\ [Next]_vars => BooksInv'
<1> SUFFICES ASSUME IInv, BooksInv, [Next]_vars PROVE BooksInv'
  OBVIOUS
<1>1. CASE UNCHANGED tables
  BY <1>1, BooksUnchanged
<1>2. CASE \E k \in Workers : CommitNewOrder(k) \/ CommitPayment(k) \/ CommitDelivery(k)
  BY <1>2, CommitNewOrderBooks, CommitPaymentBooks, CommitDeliveryBooks
<1>3. UNCHANGED vars \/ Finished => UNCHANGED tables
  BY DEF vars, Finished
<1> QED BY <1>1, <1>2, <1>3, OnlyCommitsChangeTables DEF Next

(* Every commit of NEW-ORDER, PAYMENT and DELIVERY keeps the books, and no      *)
(* other step changes a table.                                                 *)
THEOREM BooksKept == Spec => []BooksInv
<1>1. Init => BooksInv
  BY LoadBooks DEF Init
<1> QED BY <1>1, Invariance, BooksStep, PTL DEF Spec

(* No update of a row is lost or made twice by concurrent transactions: every  *)
(* customer's balance is what was delivered to it less what it has paid, every *)
(* stock row counts the order lines that name it (the read-modify-write of     *)
(* s_quantity in runNewOrder, of c_balance in runPayment and runDelivery).     *)
THEOREM NothingIsLost == Spec => []NothingLost
<1>1. BooksInv => NothingLost
  BY DEF BooksInv, NothingLost
<1> QED BY <1>1, BooksKept, PTL

------------------------------------------------------------------------------
(* The twelve conditions of the check.                                         *)
LEMMA IntervalEnds ==
  ASSUME NEW a \in Nat, NEW b \in Nat, a <= b
  PROVE  Max(a..b) = b /\ Min(a..b) = a /\ Cardinality(a..b) = b - a + 1
<1>1. b \in a..b /\ \A y \in a..b : b >= y
  OBVIOUS
<1>2. a \in a..b /\ \A y \in a..b : a <= y
  OBVIOUS
<1>3. ASSUME NEW x \in a..b, \A y \in a..b : x >= y PROVE x = b
  BY <1>1, <1>3
<1>4. ASSUME NEW x \in a..b, \A y \in a..b : x <= y PROVE x = a
  BY <1>2, <1>4
<1>5. Max(a..b) = b
  BY <1>1, <1>3 DEF Max
<1>6. Min(a..b) = a
  BY <1>2, <1>4 DEF Min
<1>7. Cardinality(a..b) = b - a + 1
  BY FS_Interval
<1> QED BY <1>5, <1>6, <1>7

(* 2, 3 and 11: the numbers a district has given, and those not delivered yet. *)
LEMMA NumberConditions ==
  ASSUME IInv, BooksInv, NEW w \in Warehouses
  PROVE  checkCondition2(w) /\ checkCondition3(w) /\ checkCondition11(w)
<1> SUFFICES ASSUME NEW d \in Districts, NewOrdersOf(w, d) # {}
             PROVE  /\ d_next_o_id[<<w, d>>] - 1 = Max(OrdersOf(w, d))
                    /\ d_next_o_id[<<w, d>>] - 1 = Max(NewOrdersOf(w, d))
                    /\ Max(NewOrdersOf(w, d)) - Min(NewOrdersOf(w, d)) + 1
                         = Cardinality(NewOrdersOf(w, d))
                    /\ Cardinality(OrdersOf(w, d)) - Cardinality(NewOrdersOf(w, d))
                         >= DeliveredPerDistrict
  BY DEF checkCondition2, checkCondition3, checkCondition11
<1>1. PICK last : last = d_next_o_id[<<w, d>>] - 1
  OBVIOUS
<1>2. PICK first : first = OldestNewOrder(w, d)
  OBVIOUS
<1>3. OrdersOf(w, d) = 1..last /\ NewOrdersOf(w, d) = first..last
  BY <1>1, <1>2, ContiguousFromInv DEF OrderNumbersContiguous
<1>4. last \in Nat
  BY <1>1 DEF IInv, TypeOK, TablesTyped, DistrictKeys
<1>5. /\ first \in NewOrdersOf(w, d) /\ NewOrdersOf(w, d) \subseteq Nat
      /\ <<w, d, first>> \in new_order
  BY <1>2, OldestIsLeast, NewOrdersOfMember DEF IInv, TypeOK, TablesTyped
<1>6. first \in Nat /\ first <= last /\ first > DeliveredPerDistrict
  BY <1>3, <1>4, <1>5 DEF BooksInv, AfterLoaded
<1>7. DeliveredPerDistrict \in Nat
  BY TablesAssumption DEF TablesAssumption
<1>8. /\ Max(1..last) = last /\ Cardinality(1..last) = last - 1 + 1
      /\ Max(first..last) = last /\ Min(first..last) = first
      /\ Cardinality(first..last) = last - first + 1
  BY <1>4, <1>6, <1>7, IntervalEnds
<1> QED BY <1>1, <1>3, <1>4, <1>6, <1>7, <1>8

(* 4 and 6: an order has as many lines as it says.                             *)
LEMMA LineConditions ==
  ASSUME BooksInv, NEW w \in Warehouses
  PROVE  checkCondition4(w) /\ checkCondition6(w)
<1>1. \A key \in DOMAIN orders : orders[key].ol_cnt = LineCount(key)
  BY DEF BooksInv, LinesCounted
<1>2. ASSUME NEW d \in Districts
      PROVE  [key \in OrderKeysOf(w, d) |-> orders[key].ol_cnt]
               = [key \in OrderKeysOf(w, d) |-> LineCount(key)]
  BY <1>1 DEF OrderKeysOf
<1> QED BY <1>1, <1>2 DEF checkCondition4, checkCondition6

(* 5 and 7: an order is delivered in all its parts or in none.                 *)
LEMMA DeliveryConditions ==
  ASSUME IInv, NEW w \in Warehouses
  PROVE  checkCondition5(w) /\ checkCondition7(w)
BY DEF IInv, TableInv, OrdersDeliveredWhole, checkCondition5, checkCondition7

(* 1, 8 and 9: what a warehouse has received, its districts have, and history. *)
LEMMA YtdConditions ==
  ASSUME BooksInv, NEW w \in Warehouses
  PROVE  checkCondition1(w) /\ checkCondition8(w) /\ checkCondition9(w)
<1>1. checkCondition1(w) /\ checkCondition9(w)
  BY DEF BooksInv, YtdAdded
<1>2. [d \in Districts |-> d_ytd[<<w, d>>]] = [d \in Districts |-> PaidAt(<<w, d>>)]
  BY <1>1 DEF checkCondition9
<1> QED BY <1>1, <1>2 DEF checkCondition1, checkCondition8

(* 10 and 12: what a customer owes.                                            *)
LEMMA BalanceConditions ==
  ASSUME IInv, BooksInv, NEW w \in Warehouses
  PROVE  checkCondition10(w) /\ checkCondition12(w)
<1>1. ASSUME NEW ck \in CustomerKeys
      PROVE  /\ c_balance[ck] = DeliveredAmount(ck) - PaidBy(ck)
             /\ c_balance[ck] + c_ytd_payment[ck] = DeliveredAmount(ck)
  <2>1. PaidBy(ck) \in Int /\ DeliveredAmount(ck) \in Int
    BY PaidTyped, DeliveredTyped DEF IInv, TypeOK, BooksInv
  <2> QED BY <2>1 DEF BooksInv, BalancesMatch
<1> QED BY <1>1 DEF checkCondition10, checkCondition12

(* `go-tpc tpcc check` finds the tables consistent whenever it is run, between *)
(* any two statements of concurrent transactions (checkCondition1 to 12): it   *)
(* reports a fault of the database, never one of the workload.                 *)
THEOREM ChecksAlwaysPass == Spec => []ChecksPass
<1>1. IInv /\ BooksInv => ChecksPass
  BY NumberConditions, LineConditions, DeliveryConditions, YtdConditions, BalanceConditions
  DEF ChecksPass
<1> QED BY <1>1, Invariance, BooksKept, PTL

=============================================================================
