----------------------------- MODULE TPCCTables -----------------------------
(***************************************************************************)
(* The TPC-C tables of tpcc/, as the load leaves them, and what the three  *)
(* writing transactions do to them.  A column keeps its name.              *)
(*                                                                         *)
(* Data is reduced to what the consistency conditions read.  The rows an   *)
(* order has in order_line are inserted, updated and summed together, so   *)
(* they are one record: the quantity ordered of each stock row, the sum of *)
(* ol_amount, and whether ol_delivery_d is set.  History is the sum of     *)
(* h_amount per paying district and customer.  A carrier is set or NULL.   *)
(***************************************************************************)
EXTENDS Integers, FiniteSets

CONSTANTS Warehouses,            \* warehouse numbers
          DistrictPerWarehouse,  \* 10 in the code
          CustomerPerDistrict,   \* 3000
          Items,                 \* item numbers
          OrderPerDistrict,      \* 3000 loaded orders, one of each customer
          DeliveredPerDistrict,  \* 2100 of them are delivered
          LoadedAmount           \* SUM(ol_amount) of a loaded undelivered order

Districts == 1..DistrictPerWarehouse
CustomerIds == 1..CustomerPerDistrict

ASSUME TablesAssumption ==
  /\ IsFiniteSet(Warehouses) /\ IsFiniteSet(Items)
  /\ DistrictPerWarehouse \in Nat \ {0} /\ CustomerPerDistrict \in Nat
  /\ OrderPerDistrict \in Nat /\ OrderPerDistrict <= CustomerPerDistrict
  /\ DeliveredPerDistrict \in Nat /\ DeliveredPerDistrict <= OrderPerDistrict
  /\ LoadedAmount \in Nat

VARIABLES w_ytd,          \* warehouse.w_ytd
          d_ytd,          \* district.d_ytd
          d_next_o_id,    \* district.d_next_o_id
          c_balance,      \* customer.c_balance
          c_ytd_payment,  \* customer.c_ytd_payment
          history,        \* SUM(h_amount) per district and customer
          orders,         \* orders, by key: o_c_id, o_ol_cnt, carrier
          new_order,      \* keys of the rows of new_order
          order_line,     \* order_line, by order: qty, amount, delivered
          stock           \* stock rows: quantity, ytd, order_cnt, remote_cnt

money == <<w_ytd, d_ytd, c_ytd_payment, history>>
tables == <<money, d_next_o_id, c_balance, orders, new_order, order_line, stock>>

DistrictKeys == Warehouses \X Districts
CustomerKeys == Warehouses \X Districts \X CustomerIds
StockKeys == Warehouses \X Items
OrderKeys == Warehouses \X Districts \X Nat

(* The function f with k mapped to v, k in its domain or not. *)
Put(f, k, v) == [x \in DOMAIN f \cup {k} |-> IF x = k THEN v ELSE f[x]]

------------------------------------------------------------------------------
(***************************************************************************)
(* The load: every customer has paid 10.00 once and has one order; orders  *)
(* above DeliveredPerDistrict have a new_order row and no carrier.  What   *)
(* the load draws at random is fixed here: the order of the customers, and *)
(* s_quantity, at the lowest value drawn.                                  *)
(***************************************************************************)
InitialPayment == 10

Delivered(o) == o <= DeliveredPerDistrict

LoadedOrders == Warehouses \X Districts \X (1..OrderPerDistrict)

Load ==
  /\ w_ytd = [w \in Warehouses |-> DistrictPerWarehouse * CustomerPerDistrict * InitialPayment]
  /\ d_ytd = [dk \in DistrictKeys |-> CustomerPerDistrict * InitialPayment]
  /\ d_next_o_id = [dk \in DistrictKeys |-> OrderPerDistrict + 1]
  /\ c_balance = [ck \in CustomerKeys |-> -InitialPayment]
  /\ c_ytd_payment = [ck \in CustomerKeys |-> InitialPayment]
  /\ history = [paid \in DistrictKeys \X CustomerKeys |->
                 IF paid[1] = <<paid[2][1], paid[2][2]>> THEN InitialPayment ELSE 0]
  /\ orders = [key \in LoadedOrders |->
                [c |-> 1 + OrderPerDistrict - key[3], ol_cnt |-> Cardinality(Items),
                 carrier |-> Delivered(key[3])]]
  /\ new_order = {key \in LoadedOrders : ~Delivered(key[3])}
  /\ order_line = [key \in LoadedOrders |->
                    [qty |-> [s \in {key[1]} \X Items |-> 5],
                     amount |-> IF Delivered(key[3]) THEN 0 ELSE LoadedAmount,
                     delivered |-> Delivered(key[3])]]
  /\ stock = [s \in StockKeys |->
               [quantity |-> 10, ytd |-> 0, order_cnt |-> 0, remote_cnt |-> 0]]

------------------------------------------------------------------------------
(* Inputs of the transactions, as their callers draw them at random.           *)
(* An order's rows name distinct items; bad: its last item is -1, which does   *)
(* not exist.                                                                  *)
IsNewOrderInput(in) ==
  /\ in.kind = "newOrder"
  /\ in.w \in Warehouses /\ in.d \in Districts /\ in.c \in CustomerIds
  /\ DOMAIN in.qty \subseteq StockKeys
  /\ \A s \in DOMAIN in.qty : in.qty[s] \in 1..10
  /\ in.amount \in Nat
  /\ in.bad \in BOOLEAN

IsPaymentInput(in) ==
  /\ in.kind = "payment"
  /\ in.w \in Warehouses /\ in.d \in Districts
  /\ in.cust \in CustomerKeys
  /\ in.h_amount \in Nat \ {0}

IsDeliveryInput(in) == in.kind = "delivery" /\ in.w \in Warehouses

------------------------------------------------------------------------------
(* What a committed transaction does to the tables.                            *)

RefilledQuantity(q) == IF q < 10 THEN q + 91 ELSE q

(* NEW-ORDER in gives its order the number o; quantity holds the new           *)
(* s_quantity of the rows it has ordered from.                                 *)
PlaceOrder(in, o, quantity) ==
  LET key == <<in.w, in.d, o>>
  IN /\ d_next_o_id' = [d_next_o_id EXCEPT ![<<in.w, in.d>>] = o + 1]
     /\ orders' = Put(orders, key, [c |-> in.c, ol_cnt |-> Cardinality(DOMAIN in.qty),
                                    carrier |-> FALSE])
     /\ new_order' = new_order \cup {key}
     /\ order_line' = Put(order_line, key, [qty |-> in.qty, amount |-> in.amount,
                                            delivered |-> FALSE])
     /\ stock' = [s \in StockKeys |->
                   IF s \in DOMAIN in.qty
                   THEN [quantity |-> quantity[s],
                         ytd |-> stock[s].ytd + in.qty[s],
                         order_cnt |-> stock[s].order_cnt + 1,
                         remote_cnt |-> stock[s].remote_cnt + (IF s[1] = in.w THEN 0 ELSE 1)]
                   ELSE stock[s]]
     /\ UNCHANGED <<money, c_balance>>

Pay(in) ==
  LET dk == <<in.w, in.d>>
  IN /\ d_ytd' = [d_ytd EXCEPT ![dk] = @ + in.h_amount]
     /\ w_ytd' = [w_ytd EXCEPT ![in.w] = @ + in.h_amount]
     /\ c_balance' = [c_balance EXCEPT ![in.cust] = @ - in.h_amount]
     /\ c_ytd_payment' = [c_ytd_payment EXCEPT ![in.cust] = @ + in.h_amount]
     /\ history' = [history EXCEPT ![<<dk, in.cust>>] = @ + in.h_amount]
     /\ UNCHANGED <<d_next_o_id, orders, new_order, order_line, stock>>

\* Mutant: the order lines of the order are not updated.
DeliverWithoutLines(w, picked) ==
  LET keys == {<<w, d, picked[d]>> : d \in DOMAIN picked}
  IN /\ new_order' = new_order \ keys
     /\ orders' = [key \in DOMAIN orders |->
                    [orders[key] EXCEPT !.carrier = @ \/ key \in keys]]
     /\ UNCHANGED <<order_line, money, c_balance, d_next_o_id, stock>>

(* DELIVERY at w delivers order picked[d] of every district d in picked's      *)
(* domain, and charges its amount to its customer.                             *)
Deliver(w, picked) ==
  LET keys == {<<w, d, picked[d]>> : d \in DOMAIN picked}
      Charge(ck) == LET key == <<w, ck[2], picked[ck[2]]>>
                    IN IF /\ ck[1] = w
                          /\ ck[2] \in DOMAIN picked
                          /\ orders[key].c = ck[3]
                       THEN order_line[key].amount ELSE 0
  IN /\ new_order' = new_order \ keys
     /\ orders' = [key \in DOMAIN orders |->
                    [orders[key] EXCEPT !.carrier = @ \/ key \in keys]]
     /\ order_line' = [key \in DOMAIN order_line |->
                        [order_line[key] EXCEPT !.delivered = @ \/ key \in keys]]
     /\ c_balance' = [ck \in CustomerKeys |-> c_balance[ck] + Charge(ck)]
     /\ UNCHANGED <<money, d_next_o_id, stock>>

NewOrdersOf(w, d) == {key[3] : key \in {k \in new_order : k[1] = w /\ k[2] = d}}

OldestNewOrder(w, d) ==
  CHOOSE o \in NewOrdersOf(w, d) : \A p \in NewOrdersOf(w, d) : o <= p
=============================================================================
