----------------------------- MODULE MCSession ------------------------------
(* Model values for the run of Session. *)
EXTENDS Session

MCCodes == {0, 1}
MCSignals == {11}  \* SIGSEGV
=============================================================================
