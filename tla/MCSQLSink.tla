------------------------------ MODULE MCSQLSink ------------------------------
(* Constants of SQLSink's runs. *)
EXTENDS SQLSink

CONSTANTS r1, r2, r3

MCRows == {r1, r2, r3}
TwoRows == {r1, r2}
NoRows == {}
=============================================================================
