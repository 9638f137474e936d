------------------------------- MODULE MCTPCC -------------------------------
(* Inputs of TPCC's runs, chosen to meet in districts, stock and customers.    *)
EXTENDS TPCCChecks, TLC

CONSTANTS k1, k2, k3

ThreeWorkers == {k1, k2, k3}
OneWorker == {k3}

Order(w, d, c, qty, amount, bad) ==
  [kind |-> "newOrder", w |-> w, d |-> d, c |-> c, qty |-> qty, amount |-> amount, bad |-> bad]

Payment1(w, d, cust, h) ==
  [kind |-> "payment", w |-> w, d |-> d, cust |-> cust, h_amount |-> h]

DeliveryAt(w) == [kind |-> "delivery", w |-> w]

(* Of the home warehouse's stock, of both warehouses'; in two districts; one   *)
(* that rolls back.                                                            *)
OrderInputs ==
  {Order(1, 1, 1, (<<1, 1>> :> 1), 3, FALSE),
   Order(1, 1, 1, (<<1, 1>> :> 2 @@ <<2, 1>> :> 1), 5, FALSE),
   Order(1, 2, 1, (<<1, 1>> :> 3 @@ <<2, 1>> :> 2), 7, FALSE),
   Order(1, 1, 1, (<<1, 1>> :> 1), 1, TRUE)}

(* Of one customer, at home and at the other warehouse. *)
PaymentInputs ==
  {Payment1(1, 1, <<1, 1, 1>>, 20), Payment1(2, 1, <<1, 1, 1>>, 30)}

MCInputs == OrderInputs \cup PaymentInputs \cup {DeliveryAt(1)}
=============================================================================
