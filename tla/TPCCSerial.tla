---------------------------- MODULE TPCCSerial ----------------------------
(***************************************************************************)
(* What the transactions of tpcc/ promise together: the tables change as   *)
(* if the transactions ran one at a time, each in one step.                *)
(***************************************************************************)
EXTENDS TPCCTables

CONSTANT Inputs  \* inputs a transaction may be called with

NewOrder(in) == /\ in.kind = "newOrder"
                /\ ~in.bad
                /\ PlaceOrder(in, d_next_o_id[<<in.w, in.d>>],
                     [s \in DOMAIN in.qty |->
                       RefilledQuantity(stock[s].quantity - in.qty[s])])

Payment(in) == in.kind = "payment" /\ Pay(in)

(* The oldest order of each of some districts.  Not of every district that has *)
(* one: a district may get its first new order after DELIVERY has found none.  *)
Delivery(in) ==
  /\ in.kind = "delivery"
  /\ \E served \in SUBSET {d \in Districts : NewOrdersOf(in.w, d) # {}} :
       Deliver(in.w, [d \in served |-> OldestNewOrder(in.w, d)])

Init == Load

Next == \E in \in Inputs : NewOrder(in) \/ Payment(in) \/ Delivery(in)

Spec == Init /\ [][Next]_tables
=============================================================================
