----------------------------- MODULE MCDocument -----------------------------
(* Delimiters and environments for the run of Document: $a is unset, the    *)
(* empty value, the delimiter, or looks like a reference to a1.             *)
EXTENDS Document
MCDelimiters == {<<"a">>, <<"$", "a">>}
MCEnvironments ==
  {[n \in {<<"a">>, <<"a", "1">>} |-> IF n = <<"a">> THEN v ELSE <<"1">>] :
     v \in {<<>>, <<"a">>, <<"$", "a", "1">>}}
  \cup {[n \in {<<"a", "1">>} |-> <<"1", "a">>]}
MCStatus == <<"1", "1">>
=============================================================================
