---------------------------- MODULE PipelineAbs ----------------------------
(***************************************************************************)
(* What execute_pipeline (exec/pipes.c) promises its caller: the commands  *)
(* of a line are started from left to right, those that started end with a *)
(* code, and the line's result is published once, after all of them ended, *)
(* as the code of the last one.  There are no pipes and no waiting here.   *)
(***************************************************************************)
EXTENDS Integers

CONSTANT NSeg

Segs == 0 .. NSeg - 1

VARIABLES
  phase,    \* "busy", "done" or "abandoned"
  command,  \* per segment: "new", "refused", "running" or "ended"
  code,     \* per segment: the exit code it ended with
  result    \* $?

vars == <<phase, command, code, result>>

IsCode(c) == c \in Nat /\ c < 256

Init ==
  /\ phase = "busy"
  /\ command = [i \in Segs |-> "new"]
  /\ code = [i \in Segs |-> 0]
  /\ IsCode(result)

(* The next command from the left starts, or cannot be forked. *)
Start(i) ==
  /\ phase = "busy" /\ command[i] = "new"
  /\ \A k \in Segs : k < i => command[k] # "new"
  /\ command' \in {[command EXCEPT ![i] = "running"],
                   [command EXCEPT ![i] = "refused"]}
  /\ UNCHANGED <<phase, code, result>>

End(i) ==
  /\ phase = "busy" /\ command[i] = "running"
  /\ command' = [command EXCEPT ![i] = "ended"]
  /\ code' \in [Segs -> Nat] /\ IsCode(code'[i])
  /\ \A k \in Segs \ {i} : code'[k] = code[k]
  /\ UNCHANGED <<phase, result>>

(* Ctrl-C ends some of the running commands at once with code 130, the     *)
(* prompt's handler may publish 130 as well.                               *)
Interrupt ==
  /\ phase = "busy"
  /\ \E D \in SUBSET {i \in Segs : command[i] = "running"} :
       /\ command' = [i \in Segs |-> IF i \in D THEN "ended" ELSE command[i]]
       /\ code' = [i \in Segs |-> IF i \in D THEN 130 ELSE code[i]]
  /\ result' \in {result, 130}
  /\ UNCHANGED phase

(* Every command that started has ended: publish the code of the last one. *)
Publish ==
  /\ phase = "busy"
  /\ \A i \in Segs : command[i] \in {"ended", "refused"}
  /\ result' = IF command[NSeg - 1] = "ended" THEN code[NSeg - 1] ELSE 0
  /\ phase' = "done"
  /\ UNCHANGED <<command, code>>

(* The pipes could not be made: nothing starts, nothing is published. *)
Abandon ==
  /\ phase = "busy"
  /\ \A i \in Segs : command[i] = "new"
  /\ phase' = "abandoned"
  /\ UNCHANGED <<command, code, result>>

Next ==
  \/ \E i \in Segs : Start(i) \/ End(i)
  \/ Interrupt \/ Publish \/ Abandon

Spec == Init /\ [][Next]_vars
=============================================================================
