--------------------------- MODULE MCHeredocLine ----------------------------
(* Model values for the run of HeredocLine. *)
EXTENDS HeredocLine
AllFaults == {"pipe", "fork", "dup2"}
=============================================================================
