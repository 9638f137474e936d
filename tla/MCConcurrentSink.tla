-------------------------- MODULE MCConcurrentSink --------------------------
(* Constants of ConcurrentSink's runs. *)
EXTENDS ConcurrentSink

CONSTANTS w1, w2

MCWorkers == {w1, w2}
=============================================================================
