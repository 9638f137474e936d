---------------------------- MODULE MCMeasurement ----------------------------
(* Workers and transactions of Measurement's run. *)
EXTENDS Measurement

CONSTANTS w1, w2, newOrder

MCWorkers == {w1, w2}
OneOp == {newOrder}
==============================================================================
