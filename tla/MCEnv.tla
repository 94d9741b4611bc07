------------------------------- MODULE MCEnv --------------------------------
(* Model values for the run of Env: HOME, OLDPWD and PWD are the names 1, 2 *)
(* and 3, with one more name behind them.                                   *)
EXTENDS Env
MCNames == 1..4
=============================================================================
