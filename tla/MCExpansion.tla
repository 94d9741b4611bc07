---------------------------- MODULE MCExpansion ----------------------------
(* Lines and environments for the run of Expansion: every word of up to    *)
(* MaxWord symbols that the tokenizer can produce (its quotes are closed,  *)
(* its blanks quoted), alone or followed by a quoted reference or a pipe.  *)
EXTENDS Expansion
CONSTANT MaxWord
MCRefs == {"X", "Y"}

Env(x, y) == [r \in MCRefs |-> IF r = "X" THEN x ELSE y]
MCAssignments ==
  {Env(x, <<>>) : x \in {<<>>, <<"a", "a">>, <<" ">>, <<"a", " ", "a">>, <<" ", "a">>,
                         <<"a", " ">>, <<"'">>, <<"\"">>, <<"\"", " ", "\"">>, <<"X">>}}
  \cup {Env(<<"a", " ", "X">>, <<>>), Env(<<"a", " ", "Y">>, <<"a">>),
        Env(<<"a", " ", "Y">>, <<" ">>), Env(<<"Y">>, <<"a", " ">>)}

MCWords ==
  {w \in UNION {[1..n -> {"a", " ", "'", "\"", "X"}] : n \in 1..MaxWord} :
     Balanced(w) /\ ~HasFreeBlank(w)}
Word(s) == [op |-> FALSE, str |-> s]
MCLines ==
  {<<Word(w)>> \o rest : w \in MCWords, 
     rest \in {<<>>, <<Word(<<"\"", "X", "\"">>)>>,
               <<[op |-> TRUE, str |-> <<>>], Word(<<"a">>)>>}}
=============================================================================
