------------------------------ MODULE Session ------------------------------
(***************************************************************************)
(* The read-execute loop of main (main.c): what one interactive session    *)
(* does to $? (glb_list()->exit_status), to the loop's own exit_status, to *)
(* the shell's disposition of SIGINT and to its children, line after line. *)
(*                                                                         *)
(* exit_status is a local that main never initialises; it is passed to     *)
(* execute_pipeline, where a child that runs unset exits with whatever it  *)
(* holds.  The disposition starts as "general" (SA_RESTART), a line that   *)
(* starts with << makes it "heredoc" (no SA_RESTART), a pipeline leaves it *)
(* "ignored"; nothing brings "general" back.  How a pipeline and a here-   *)
(* document run is the subject of Pipeline and Heredoc: here they are one  *)
(* step with the outcomes these modules allow.                             *)
(***************************************************************************)
EXTENDS Integers

CONSTANTS
  Garbage,  \* the uninitialised content of exit_status
  Codes,    \* exit codes of programs and builtins
  Signals,  \* signals other than SIGINT that can kill a child
  MaxInt    \* bound: Ctrl-C during the session

ASSUME SessionAssumption ==
  /\ Codes \subseteq Nat /\ \A c \in Codes : c < 256
  /\ Signals \subseteq 1..64
  /\ Garbage \notin Nat /\ MaxInt \in Nat

SIGINT == 2

(* What a child exits with before its command runs: no words, an error of  *)
(* a redirection, a command that is not found or cannot be executed.       *)
ShellCodes == {0, 1, 126, 127}

(* What main has to run for a line: a pipeline, cd/export/unset/exit in    *)
(* the shell, anything else in a child, or nothing (redirections only).    *)
Kinds == {"pipeline", "cdexport", "unset", "exit", "child", "nothing"}
(* heredoc: the line has a <<; first: it is the first token of the line,   *)
(* once expanding has removed the words that vanish.                       *)
Lines == {l \in [kind : Kinds, heredoc : BOOLEAN, first : BOOLEAN] :
            l.first => l.heredoc}

VARIABLES
  pc,       \* "prompt", "redirect", "execute", "forked", "wait", "eintr",
            \* "exited", "crashed"; in expanding for ever: "endless"; waiting
            \* for a reader that waits for room in its pipe: "blocked"; for
            \* a pipeline with a child that does: "stuck"
  line,     \* the line being executed
  disp,     \* the shell's SIGINT: "general", "heredoc", "ignored"
  glb,      \* glb_list()->exit_status
  local,    \* main's exit_status
  child,    \* the foreground child: "none", "setup", "blocked" (on a
            \* document of its own), "running", "dead"
  childSig, \* its SIGINT: "shell" (a handler of the shell), "ignored",
            \* "default", "own" (a handler of the program)
  ws,       \* its wait status once dead
  live,     \* children of earlier lines that still run
  zombies,  \* children that ended and were never waited for
  ints,     \* Ctrl-C so far
  piped,    \* history: a pipeline has run (not in the code)
  given     \* history: a line has started with << (not in the code)

childVars  == <<child, childSig, ws>>
orphanVars == <<live, zombies>>
history    == <<piped, given>>
vars == <<pc, line, disp, glb, local, child, childSig, ws,
          live, zombies, ints, piped, given>>

Init ==
  /\ pc = "prompt" /\ line = [kind |-> "nothing", heredoc |-> FALSE, first |-> FALSE]
  /\ disp = "general" /\ glb = 0 /\ local = Garbage
  /\ child = "none" /\ childSig = "shell" /\ ws = 0
  /\ live = 0 /\ zombies = 0 /\ ints = 0
  /\ piped = FALSE /\ given = FALSE

-----------------------------------------------------------------------------
(* Reading a line. *)

(* check_errors: readline returned NULL. *)
EndOfInput ==
  /\ pc = "prompt" /\ pc' = "exited"
  /\ UNCHANGED <<line, disp, glb, local, childVars, orphanVars, ints, history>>

(* input_error and check_parsing_errors reject a line with status 2. *)
RejectLine ==
  /\ pc = "prompt" /\ glb' = 2
  /\ UNCHANGED <<pc, line, disp, local, childVars, orphanVars, ints, history>>

(* A line of blanks has no token: check_parsing_errors reads token->op     *)
(* through NULL.  expanding may also read past a string (see Expansion).   *)
BlankLine ==
  /\ pc = "prompt" /\ pc' = "crashed"
  /\ UNCHANGED <<line, disp, glb, local, childVars, orphanVars, ints, history>>

(* expanding does not return for a variable whose value has a blank and a  *)
(* reference to the variable itself (see Expansion).                       *)
EndlessLine ==
  /\ pc = "prompt" /\ pc' = "endless"
  /\ UNCHANGED <<line, disp, glb, local, childVars, orphanVars, ints, history>>

(* expanding returns, then set_signal_handler. *)
AcceptLine(l) ==
  /\ pc = "prompt" /\ pc' = "redirect" /\ line' = l
  /\ disp' = IF l.first THEN "heredoc" ELSE disp
  /\ given' = (given \/ l.first)
  /\ UNCHANGED <<glb, local, childVars, orphanVars, ints, piped>>

-----------------------------------------------------------------------------
(* Executing it. *)

(* redirection_infos returns: its result is not looked at. *)
RedirectionsDone ==
  /\ pc = "redirect" /\ pc' = "execute"
  /\ UNCHANGED <<line, disp, glb, local, childVars, orphanVars, ints, history>>

(* A document of the line is larger than its pipe: the reader waits for    *)
(* room, the shell for the reader (Blocked in Heredoc).                    *)
HeredocBlocks ==
  /\ pc = "redirect" /\ line.heredoc /\ pc' = "blocked"
  /\ UNCHANGED <<line, disp, glb, local, childVars, orphanVars, ints, history>>

(* Ctrl-C ends some of the children left behind. *)
OrphansLeft(n) == live' = n /\ zombies' = zombies + live - n

(* A here-document of the line is cancelled: the reader dies.  When the    *)
(* shell's handler interrupts waitpid it is not waited for, and a reader   *)
(* that has not reset its signals yet even lives on (see Heredoc).         *)
CancelHeredoc ==
  /\ pc \in {"redirect", "blocked"} /\ line.heredoc
  /\ ints < MaxInt /\ ints' = ints + 1
  /\ glb' = 130 /\ pc' = "redirect"
  /\ \E n \in 0..live :
       \/ OrphansLeft(n)
       \/ disp = "heredoc" /\ live' = n /\ zombies' = zombies + live - n + 1
       \/ /\ disp = "heredoc" /\ pc = "redirect"
          /\ live' = n + 1 /\ zombies' = zombies + live - n
  /\ UNCHANGED <<line, disp, local, childVars, history>>

Low8(v) == IF v = Garbage THEN Garbage ELSE v % 256

(* What execute_pipeline can report of its last child (see Pipeline); 0    *)
(* when it could not be forked.  A last segment that runs unset exits with *)
(* the local exit_status.                                                  *)
PipelineStatuses ==
  Codes \cup ShellCodes \cup {130} \cup {128 + s : s \in Signals} \cup {Low8(local)}

(* ignore_interactive_signals and save_exit_status. *)
PipelineEnds ==
  /\ \E c \in PipelineStatuses : local' = c /\ glb' = c
  /\ disp' = "ignored" /\ piped' = TRUE
  /\ pc' = "prompt"
  /\ UNCHANGED <<line, childVars, given>>

RunPipeline ==
  /\ pc = "execute" /\ line.kind = "pipeline"
  /\ PipelineEnds
  /\ UNCHANGED <<orphanVars, ints>>

(* A child that asks again for a document gets one larger than its pipe    *)
(* (see HeredocLine): the child waits for its reader, the shell for it.    *)
PipelineBlocks ==
  /\ pc = "execute" /\ line.kind = "pipeline" /\ line.heredoc
  /\ pc' = "stuck" /\ disp' = "ignored" /\ piped' = TRUE
  /\ UNCHANGED <<line, glb, local, childVars, orphanVars, ints, given>>

(* Ctrl-C: the children of the pipeline have the default action. *)
KillPipeline ==
  /\ pc = "stuck" /\ ints < MaxInt /\ ints' = ints + 1
  /\ PipelineEnds
  /\ \E n \in 0..live : OrphansLeft(n)

(* Its pipes could not be made. *)
AbandonPipeline ==
  /\ pc = "execute" /\ line.kind = "pipeline"
  /\ pc' = "prompt"
  /\ UNCHANGED <<line, disp, glb, local, childVars, orphanVars, ints, history>>

(* Mutant of ParentBuiltin: exit_status is not reset before the builtin. *)
ParentBuiltinNoReset ==
  /\ pc = "execute" /\ line.kind \in {"cdexport", "unset"}
  /\ \E c \in IF line.kind = "unset" THEN {local} ELSE {0, 1} :
       local' = c /\ glb' = c
  /\ pc' = "prompt"
  /\ UNCHANGED <<line, disp, childVars, orphanVars, ints, history>>

(* exit_status = 0, then cd and export store their result, unset nothing. *)
ParentBuiltin ==
  /\ pc = "execute" /\ line.kind \in {"cdexport", "unset"}
  /\ \E c \in IF line.kind = "unset" THEN {0} ELSE {0, 1} :
       local' = c /\ glb' = c
  /\ pc' = "prompt"
  /\ UNCHANGED <<line, disp, childVars, orphanVars, ints, history>>

ExitBuiltin ==
  /\ pc = "execute" /\ line.kind = "exit"
  /\ local' = 0 /\ pc' = "exited"
  /\ UNCHANGED <<line, disp, glb, childVars, orphanVars, ints, history>>

NothingToRun ==
  /\ pc = "execute" /\ line.kind = "nothing"
  /\ pc' = "prompt"
  /\ UNCHANGED <<line, disp, glb, local, childVars, orphanVars, ints, history>>

(* Mutant of Fork: SIGINT is ignored before the fork and not after it. *)
ForkIgnoring ==
  /\ pc = "execute" /\ line.kind = "child"
  /\ local' = 0 /\ pc' = "forked" /\ disp' = "ignored"
  /\ child' = "setup" /\ childSig' = "ignored" /\ ws' = 0
  /\ UNCHANGED <<line, glb, orphanVars, ints, history>>

(* The child keeps the shell's disposition: main does not reset it. *)
Fork ==
  /\ pc = "execute" /\ line.kind = "child"
  /\ local' = 0 /\ pc' = "forked"
  /\ child' = "setup" /\ ws' = 0
  /\ childSig' = IF disp = "ignored" THEN "ignored" ELSE "shell"
  /\ UNCHANGED <<line, disp, glb, orphanVars, ints, history>>

ForkFails ==
  /\ pc = "execute" /\ line.kind = "child"
  /\ local' = 0 /\ glb' = 1 /\ pc' = "prompt"
  /\ UNCHANGED <<line, disp, childVars, orphanVars, ints, history>>

EnterWait ==
  /\ pc = "forked" /\ pc' = "wait"
  /\ UNCHANGED <<line, disp, glb, local, childVars, orphanVars, ints, history>>

(* WEXITSTATUS of a normal exit, else 128 + signal. *)
Decode(s) == IF s % 128 = 0 THEN s \div 256 ELSE 128 + (s % 128)

(* Mutants of WaitReturns: the raw status is reported; a status left by a  *)
(* signal is not looked at; waitpid is repeated until the child has exited *)
(* normally.                                                               *)
WaitReturnsRaw ==
  /\ pc = "wait" /\ child = "dead"
  /\ local' = ws /\ glb' = ws
  /\ child' = "none" /\ pc' = "prompt"
  /\ UNCHANGED <<line, disp, childSig, ws, orphanVars, ints, history>>
WaitReturnsNoSignal ==
  /\ pc = "wait" /\ child = "dead"
  /\ local' = ws /\ glb' = IF ws % 128 = 0 THEN ws \div 256 ELSE glb
  /\ child' = "none" /\ pc' = "prompt"
  /\ UNCHANGED <<line, disp, childSig, ws, orphanVars, ints, history>>
WaitReturnsExitedOnly ==
  /\ pc = "wait" /\ child = "dead" /\ ws % 128 = 0
  /\ local' = ws /\ glb' = Decode(ws)
  /\ child' = "none" /\ pc' = "prompt"
  /\ UNCHANGED <<line, disp, childSig, ws, orphanVars, ints, history>>

(* waitpid returns the child: its raw status stays in exit_status. *)
WaitReturns ==
  /\ pc = "wait" /\ child = "dead"
  /\ local' = ws /\ glb' = Decode(ws)
  /\ child' = "none" /\ pc' = "prompt"
  /\ UNCHANGED <<line, disp, childSig, ws, orphanVars, ints, history>>

(* waitpid failed with EINTR: exit_status is still 0 and is decoded as     *)
(* such, the child stays unreaped.                                         *)
WaitFailed ==
  /\ pc = "eintr"
  /\ glb' = Decode(local)
  /\ IF child = "dead" THEN zombies' = zombies + 1 /\ UNCHANGED live
                       ELSE live' = live + 1 /\ UNCHANGED zombies
  /\ child' = "none" /\ pc' = "prompt"
  /\ UNCHANGED <<line, disp, local, childSig, ws, ints, history>>

-----------------------------------------------------------------------------
(* The foreground child and the children left behind. *)

(* The child ends before or after execve: a redirection error, a builtin,  *)
(* a command not found, or the program's own exit.                         *)
ChildExits ==
  /\ child \in {"setup", "running"}
  /\ child' = "dead" /\ \E c \in Codes \cup ShellCodes : ws' = c * 256
  /\ UNCHANGED <<pc, line, disp, glb, local, childSig, orphanVars, ints, history>>

(* A signal other than SIGINT kills it, the program or already the copy of *)
(* the shell (SIGSEGV, when the operand of a redirection has vanished at   *)
(* the end of the line); the kernel adds 128 when it dumps the memory.     *)
ChildKilled ==
  /\ child \in {"setup", "running"}
  /\ child' = "dead" /\ \E s \in Signals : ws' \in {s, s + 128}
  /\ UNCHANGED <<pc, line, disp, glb, local, childSig, orphanVars, ints, history>>

(* It asks again for a document, larger than the pipe (see HeredocLine).   *)
ChildBlocks ==
  /\ child = "setup" /\ line.heredoc /\ child' = "blocked"
  /\ ws' = ws
  /\ UNCHANGED <<pc, line, disp, glb, local, childSig, orphanVars, ints, history>>

(* execve resets a handler to the default action and keeps SIG_IGN; the    *)
(* program may then install a handler of its own.                          *)
Exec ==
  /\ child = "setup" /\ child' = "running"
  /\ childSig' \in {IF childSig = "ignored" THEN "ignored" ELSE "default", "own"}
  /\ UNCHANGED <<pc, line, disp, glb, local, ws, orphanVars, ints, history>>

OrphanEnds ==
  /\ live > 0 /\ live' = live - 1 /\ zombies' = zombies + 1
  /\ UNCHANGED <<pc, line, disp, glb, local, childVars, ints, history>>

-----------------------------------------------------------------------------
(* Ctrl-C reaches the shell, its child and the children left behind. *)

(* Mutant of InterruptsWait: signal_handler_general without SA_RESTART. *)
InterruptsWaitNoRestart == disp # "ignored"

(* Does the handler make a blocked waitpid return EINTR? *)
InterruptsWait == disp = "heredoc"

(* A child blocked on a document loses its reader and goes on without it.  *)
Interrupt ==
  /\ pc \notin {"exited", "crashed", "blocked", "stuck"}
  /\ ints < MaxInt /\ ints' = ints + 1
  /\ glb' = IF disp = "ignored" THEN glb ELSE 130
  /\ \/ /\ child = "running" /\ childSig \in {"default", "own"}
        /\ child' = "dead" /\ ws' = SIGINT
     \/ /\ child = "blocked" /\ child' = "setup" /\ ws' = ws
     \/ /\ child # "blocked" /\ ~(child = "running" /\ childSig = "default")
        /\ UNCHANGED <<child, ws>>
  /\ \/ pc' = pc
     \/ InterruptsWait /\ pc = "wait" /\ child # "dead" /\ pc' = "eintr"
  /\ \E n \in 0..live : OrphansLeft(n)
  /\ UNCHANGED <<line, disp, local, childSig, history>>

-----------------------------------------------------------------------------

Ended == pc \in {"exited", "crashed", "endless"} /\ UNCHANGED vars

(* Only Ctrl-C goes on from here. *)
Blocked == (pc \in {"blocked", "stuck"} \/ child = "blocked") /\ UNCHANGED vars

Shell ==
  \/ RedirectionsDone
  \/ RunPipeline \/ AbandonPipeline \/ ParentBuiltin \/ ExitBuiltin
  \/ NothingToRun \/ Fork \/ ForkFails \/ EnterWait
  \/ WaitReturns \/ WaitFailed

Next ==
  \/ EndOfInput \/ RejectLine \/ BlankLine \/ EndlessLine
  \/ \E l \in Lines : AcceptLine(l)
  \/ Shell \/ HeredocBlocks \/ CancelHeredoc \/ PipelineBlocks \/ KillPipeline
  \/ ChildExits \/ ChildKilled \/ ChildBlocks \/ Exec \/ OrphanEnds
  \/ Interrupt \/ Ended \/ Blocked

(* The shell runs when it can, the programs end and so does a document     *)
(* that its user started; nobody has to type a line or Ctrl-C.             *)
Spec == Init /\ [][Next]_vars /\ WF_vars(Shell) /\ WF_vars(ChildExits)

-----------------------------------------------------------------------------
(* Properties *)

(* What waitpid stores: an exit code in the second byte, or a signal. *)
RawStatuses ==
  {c * 256 : c \in 0..255}
    \cup UNION {{s, s + 128} : s \in Signals \cup {SIGINT}}

TypeOK ==
  /\ pc \in {"prompt", "redirect", "execute", "forked", "wait", "eintr",
             "exited", "crashed", "endless", "blocked", "stuck"}
  /\ line \in Lines /\ disp \in {"general", "heredoc", "ignored"}
  /\ glb \in 0..255 \cup {Garbage}
  /\ local \in RawStatuses \cup 0..255 \cup {Garbage}
  /\ child \in {"none", "setup", "blocked", "running", "dead"}
  /\ childSig \in {"shell", "ignored", "default", "own"}
  /\ ws \in RawStatuses /\ live \in 0..MaxInt /\ zombies \in 0..MaxInt
  /\ ints \in 0..MaxInt /\ piped \in BOOLEAN /\ given \in BOOLEAN

(* The loop is back at its prompt after a foreground command with the      *)
(* command's own code in $?, and the command reaped, whatever was typed or *)
(* interrupted meanwhile, unless the line or an earlier one started with   *)
(* << and no pipeline has run since.                                       *)
SimpleStatus ==
  [][pc' = "prompt" /\ pc \in {"wait", "eintr"} /\ disp # "heredoc" =>
       child = "dead" /\ glb' = Decode(ws)]_vars

(* Only the here-document handler, which does not restart waitpid, leaves  *)
(* children behind, and each costs a Ctrl-C: a shell that was never given  *)
(* a line starting with << has neither zombies nor programs that still run *)
(* behind its prompt, whatever it ran and whatever was interrupted.        *)
NoOrphanWithoutHeredoc ==
  live + zombies > 0 => given /\ ints >= live + zombies

(* Until a pipeline has run, Ctrl-C kills the program in the foreground    *)
(* unless the program asked for SIGINT itself.                             *)
CtrlCKills ==
  [][ints' > ints /\ child = "running" /\ childSig # "own" /\ ~piped =>
       child' = "dead"]_vars

(* The uninitialised exit_status reaches $? only through a pipeline whose  *)
(* last command is unset, and the next command that main runs itself, in   *)
(* the shell or in a child, ends that: main stores before it reads.        *)
GarbageOnlyThroughPipeline ==
  glb = Garbage => piped /\ (pc = "prompt" => local = Garbage)

(* Every line that main starts on comes to its end, however often it is    *)
(* interrupted, when the programs it starts end and its documents are      *)
(* ended.  The exceptions: an expansion without end, and a document larger *)
(* than its pipe, asked for by the shell (blocked), by a child of the      *)
(* pipeline (stuck) or by the foreground child.  When Ctrl-C leads out of  *)
(* one of these three, the claim is about the rest of the line again.      *)
LineEnds ==
  pc # "prompt" ~>
    \/ pc \in {"prompt", "exited", "crashed", "endless", "blocked", "stuck"}
    \/ child = "blocked"
=============================================================================
