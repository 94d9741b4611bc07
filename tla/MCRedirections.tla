--------------------------- MODULE MCRedirections ---------------------------
(* The run of Redirections needs no further definitions.                    *)
EXTENDS Redirections
=============================================================================
