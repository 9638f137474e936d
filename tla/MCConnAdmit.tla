----------------------------- MODULE MCConnAdmit -----------------------------
(* Callers of ConnAdmit's run. *)
EXTENDS ConnAdmit

CONSTANTS c1, c2

MCCallers == {c1, c2}
==============================================================================
