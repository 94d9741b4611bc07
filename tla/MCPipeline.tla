---------------------------- MODULE MCPipeline -----------------------------
(* Model values for the runs of Pipeline. *)
EXTENDS Pipeline

MCCodes == {0, 1}
AllFaults == {"pipe", "fork", "dup2"}
=============================================================================
