----------------------------- MODULE MCExitArg ------------------------------
(* The run of ExitArg needs no further definitions: a long long is cut to   *)
(* ten bits, so that both bounds and codes above 255 are reached.           *)
EXTENDS ExitArg
=============================================================================
