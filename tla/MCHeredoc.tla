----------------------------- MODULE MCHeredoc ------------------------------
(* Model values for the run of Heredoc. *)
EXTENDS Heredoc

AllFaults == {"pipe", "fork"}
=============================================================================
