------------------------------ MODULE Lookup -------------------------------
(***************************************************************************)
(* From the first word of a command to a program or a status: get_cmd_path *)
(* (exec/exec_command.c) and what the child does with its answer (main.c   *)
(* for a simple command, exec/pipes.c and exec/pipes_exec.c in a pipeline; *)
(* the two copies do the same).  The child looks at each entry of PATH     *)
(* with stat, then once more at what it found, then calls execve.  Other   *)
(* processes may change any of these files between two of its steps.       *)
(***************************************************************************)
EXTENDS Integers, Sequences, FiniteSets, FiniteSetsExt, SequencesExt

CONSTANTS
  Dirs,       \* directories that PATH may name
  Here,       \* where a word with a / leads, whatever PATH holds
  Paths,      \* values of PATH: sequences of Dirs and EmptyItem
  EmptyItem,  \* nothing between two colons
  NoPath,     \* PATH is not set
  MaxChanges  \* bound: changes by other processes

ASSUME LookupAssumption ==
  /\ Here \notin Dirs /\ EmptyItem \notin Dirs \cup {Here}
  /\ "none" \notin Dirs \cup {Here}
  /\ \A p \in Paths : p \in Seq(Dirs \cup {EmptyItem})
  /\ NoPath \notin Paths /\ MaxChanges \in Nat

Places == Dirs \cup {Here}

(* What may be at a place, by what stat and execve make of it: "notdir"    *)
(* means that a directory of the path is a file, "badformat" an executable *)
(* file that is no program, "nointerp" a script without its interpreter.   *)
Contents == {"none", "notdir", "program", "noexec", "badformat", "nointerp", "dir"}
StatFails(c) == c \in {"none", "notdir"}

VARIABLES
  slash,    \* the word holds a /
  path,     \* the value of PATH
  pc,       \* "split", "search", "stat", "execve", "running", "exited"
  k,        \* find_in_paths: the items of PATH before k have been tried
  chosen,   \* full_path: a place, or None
  status,   \* exit status
  files,    \* what is at each place
  changes,  \* changes so far
  was,      \* what each place has held since the start (not in the code)
  atomic    \* what an atomic lookup would have answered at each moment since
            \* the start (not in the code)

vars == <<slash, path, pc, k, chosen, status, files, changes, was, atomic>>

None == "none"

-----------------------------------------------------------------------------
(* The search. *)

(* search_path_in_env: the items of PATH; ft_split leaves no empty one. *)
PathDirs == IF path = NoPath THEN {} ELSE {n \in DOMAIN path : path[n] # EmptyItem}

(* Mutant of StatusOfExecve: every error is "not found". *)
StatusOfExecveAlways127(c) == 127

(* handle_execve_error, by the error that execve gives for c. *)
StatusOfExecve(c) == IF c \in {"none", "nointerp"} THEN 127 ELSE 126

(* What the shell answers when nothing changes under it: the first entry   *)
(* where anything is, be it a program or not, decides.                     *)
Answer(f) ==
  LET there == IF slash THEN {1} ELSE {n \in PathDirs : ~StatFails(f[path[n]])}
      place == IF slash THEN Here ELSE path[Min(there)]
  IN IF there = {} THEN [place |-> None, status |-> 127]
     ELSE [place |-> place,
           status |-> IF f[place] = "program" THEN 0 ELSE StatusOfExecve(f[place])]

(* The places that the word and PATH speak of (an empty item speaks of the *)
(* working directory, wherever the code looks); the others stay empty.     *)
Concerned ==
  IF slash THEN {Here} ELSE IF path = NoPath THEN {}
  ELSE {IF d = EmptyItem THEN Here ELSE d : d \in ToSet(path)}

Init ==
  /\ slash \in BOOLEAN /\ path \in Paths \cup {NoPath}
  /\ pc = "split" /\ k = 1 /\ chosen = None /\ status = 0
  /\ \E f \in [Concerned -> Contents] :
       files = [p \in Places |-> IF p \in Concerned THEN f[p] ELSE "none"]
  /\ changes = 0
  /\ was = [p \in Places |-> {files[p]}] /\ atomic = {Answer(files)}

fileVars == <<files, changes, was, atomic>>

(* get_cmd_path: a word with a / is taken as it is. *)
Split ==
  /\ pc = "split"
  /\ IF slash THEN pc' = "stat" /\ chosen' = Here
              ELSE pc' = "search" /\ UNCHANGED chosen
  /\ UNCHANGED <<slash, path, k, status, fileVars>>

(* Mutant of SearchNext: the entries are tried from the last one.          *)
SearchNextFromEnd ==
  /\ pc = "search"
  /\ \E n \in PathDirs :
       /\ n <= Len(path) + 1 - k
       /\ \A m \in PathDirs : m <= Len(path) + 1 - k => m <= n
       /\ IF StatFails(files[path[n]])
            THEN k' = Len(path) + 2 - n /\ UNCHANGED <<pc, chosen>>
            ELSE pc' = "stat" /\ chosen' = path[n] /\ UNCHANGED k
  /\ UNCHANGED <<slash, path, status, fileVars>>

(* One round of find_in_paths. *)
SearchNext ==
  /\ pc = "search"
  /\ \E n \in PathDirs :
       /\ n >= k /\ \A m \in PathDirs : m >= k => n <= m
       /\ IF StatFails(files[path[n]])
            THEN k' = n + 1 /\ UNCHANGED <<pc, chosen>>
            ELSE pc' = "stat" /\ chosen' = path[n] /\ UNCHANGED k
  /\ UNCHANGED <<slash, path, status, fileVars>>

Exit(code) ==
  /\ pc' = "exited" /\ status' = code
  /\ UNCHANGED <<slash, path, k, chosen, fileVars>>

CommandNotFound == pc = "search" /\ (\A n \in PathDirs : n < k) /\ Exit(127)

-----------------------------------------------------------------------------
(* What was found. *)

IsADirectory == pc = "stat" /\ files[chosen] = "dir" /\ Exit(126)

(* Any other file, or none any more. *)
NotADirectory ==
  /\ pc = "stat" /\ files[chosen] # "dir"
  /\ pc' = "execve"
  /\ UNCHANGED <<slash, path, k, chosen, status, fileVars>>

Execve ==
  /\ pc = "execve" /\ files[chosen] = "program"
  /\ pc' = "running"
  /\ UNCHANGED <<slash, path, k, chosen, status, fileVars>>

ExecveFails ==
  /\ pc = "execve" /\ files[chosen] # "program"
  /\ Exit(StatusOfExecve(files[chosen]))

-----------------------------------------------------------------------------
(* Other processes put a file at a place, replace or remove it. *)
Change ==
  /\ pc \notin {"running", "exited"} /\ changes < MaxChanges
  /\ \E p \in Concerned, c \in Contents :
       /\ c # files[p]
       /\ files' = [files EXCEPT ![p] = c]
       /\ was' = [was EXCEPT ![p] = @ \cup {c}]
  /\ atomic' = atomic \cup {Answer(files')}
  /\ changes' = changes + 1
  /\ UNCHANGED <<slash, path, pc, k, chosen, status>>

Ended == pc \in {"running", "exited"} /\ UNCHANGED vars

Next ==
  \/ Split \/ SearchNext \/ CommandNotFound
  \/ IsADirectory \/ NotADirectory \/ Execve \/ ExecveFails
  \/ Change \/ Ended

Spec == Init /\ [][Next]_vars

-----------------------------------------------------------------------------
(* Properties *)

TypeOK ==
  /\ pc \in {"split", "search", "stat", "execve", "running", "exited"}
  /\ k \in Nat \ {0} /\ chosen \in Places \cup {None}
  /\ status \in {0, 126, 127} /\ files \in [Places -> Contents]
  /\ changes \in 0..MaxChanges

(* The child's two looks at each file and its execve are three moments,    *)
(* yet as long as at most one file changes meanwhile the outcome is the    *)
(* one of a lookup in a single moment.  The only exception is a file that  *)
(* disappears after it was found: that is an error even when a later entry *)
(* of PATH has the program, since the search is not resumed.               *)
AsIfAtomic ==
  changes <= 1 /\ pc \in {"running", "exited"} =>
    \/ [place |-> chosen, status |-> status] \in atomic
    \/ chosen # None /\ StatFails(files[chosen])

(* However the files change, the outcome has its reason: every entry in    *)
(* front of the one that decides was empty at some moment, what runs is in *)
(* a directory that PATH names, 127 means missing (everywhere, or where it *)
(* had been found) and 126 that something else than a program was there.   *)
OutcomeHasReason ==
  pc \in {"running", "exited"} =>
    /\ ~slash => \A n \in PathDirs :
         n < k \/ chosen = None => \E c \in was[path[n]] : StatFails(c)
    /\ pc = "running" => chosen \in IF slash THEN {Here} ELSE ToSet(path) \cap Dirs
    /\ status = 127 /\ chosen # None =>
         was[chosen] \cap {"none", "nointerp"} # {}
    /\ status = 126 =>
         was[chosen] \cap {"notdir", "noexec", "badformat", "dir"} # {}
=============================================================================
