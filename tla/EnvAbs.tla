------------------------------- MODULE EnvAbs -------------------------------
(***************************************************************************)
(* What export, unset and cd promise: the environment is one value per     *)
(* name, cd moves the shell and keeps OLDPWD and PWD in step.  There is no *)
(* list and no order of names here.  A name that the shell was given more  *)
(* than once has its further values underneath the first, where only unset *)
(* brings them up.                                                         *)
(***************************************************************************)
EXTENDS Sequences

CONSTANTS Names, HOME, OLDPWD, PWD, Dirs, Root, Empty, NoValue

VARIABLES
  value,  \* per name: its values, the first one counts; NoValue: exported only
  cwd     \* the working directory of the shell

IsSet(n) == value[n] # <<>> /\ Head(value[n]) # NoValue

Assigned(values, v) ==
  IF values = <<>> THEN <<v>> ELSE IF v = NoValue THEN values ELSE <<v>> \o Tail(values)

Export(n, v) ==
  /\ value' = [value EXCEPT ![n] = Assigned(@, v)]
  /\ UNCHANGED cwd

Unset(n) ==
  /\ value[n] # <<>> /\ value' = [value EXCEPT ![n] = Tail(@)]
  /\ UNCHANGED cwd

Leaving == IF IsSet(PWD) THEN Head(value[PWD]) ELSE Empty

(* The two variables follow; PWD does not when getcwd fails. *)
Move(d) ==
  /\ cwd' = d
  /\ LET left == [value EXCEPT ![OLDPWD] = Assigned(@, Leaving)]
     IN value' \in {left, [left EXCEPT ![PWD] = Assigned(@, d)]}

(* A shell started in this one: what had no value has the value "". *)
NestedShell ==
  /\ value' = [n \in Names |->
                 [k \in DOMAIN value[n] |->
                    IF value[n][k] = NoValue THEN Empty ELSE value[n][k]]]
  /\ UNCHANGED cwd

Next ==
  \/ \E n \in Names, v \in Dirs \cup {NoValue} : Export(n, v)
  \/ \E n \in Names : Unset(n)
  \/ \E d \in Dirs : Move(d)
  \/ NestedShell

(* Every entry of an envp has a value. *)
Init == value \in [Names -> Seq(Dirs \cup {Empty})] /\ cwd \in Dirs

Spec == Init /\ [][Next]_<<value, cwd>>
=============================================================================
