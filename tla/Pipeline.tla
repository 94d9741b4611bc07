------------------------------ MODULE Pipeline ------------------------------
(***************************************************************************)
(* One call of execute_pipeline (exec/pipes.c): the shell creates NSeg - 1 *)
(* pipes, forks one child per segment, ignores the interactive signals,    *)
(* closes its copies of the pipe ends, reaps the children in order and     *)
(* reports the status of the last one.  The children run concurrently with *)
(* the shell and with each other and share the pipes.                      *)
(*                                                                         *)
(* Segments and pipes are numbered as in the code: pipe k joins segment k  *)
(* to segment k + 1.  Reads, writes, end-of-file, SIGPIPE and wait are the *)
(* kernel's; a program is what the shell can execute: it reads its input,  *)
(* writes at most MaxOut units and exits with a code of Codes.             *)
(***************************************************************************)
EXTENDS Integers

CONSTANTS
  NSeg,    \* number of segments, count_segments(tokens)
  Cap,     \* capacity of a pipe, in units
  MaxOut,  \* bound: units a program writes
  Codes,   \* exit codes of the programs
  MaxInt,  \* bound: terminal interrupts (Ctrl-C) during the call
  Faults   \* the system calls of {"pipe", "fork", "dup2"} that may fail

ASSUME PipelineAssumption ==
  /\ NSeg \in Nat \ {0}
  /\ Cap \in Nat \ {0}
  /\ MaxOut \in Nat
  /\ MaxInt \in Nat
  /\ Codes \subseteq Nat /\ \A c \in Codes : c < 256
  /\ 0 \in Codes
  /\ Faults \subseteq {"pipe", "fork", "dup2"}

Segs  == 0 .. NSeg - 1
Pipes == 0 .. NSeg - 2
NoPipe == -1   \* descriptor 0 or 1 is not a pipe end: terminal, file, closed

VARIABLES
  pc,        \* where the shell is in execute_pipeline
  idx,       \* its loop counter i
  shell,     \* pipes whose pfds ends the shell holds
  st,        \* per segment: pids[i] and where the child is
  held,      \* per child: pipes whose inherited pfds ends are still open
  j,         \* per child: loop counter of setup_child_pipes
  stdin,     \* per child: the pipe whose reading end is descriptor 0
  stdout,    \* per child: the pipe whose writing end is descriptor 1
  status,    \* per child: the wait status it terminated with
  buf,       \* per pipe: units written and not yet read
  todo,      \* per child: units its program has still to write
  eof,       \* per child: its program has read end-of-file
  last,      \* last_status
  glbStatus, \* glb->exit_status
  ints       \* interrupts delivered so far

shellVars == <<pc, idx, shell, last, glbStatus>>
progVars  == <<buf, todo, eof>>
vars == <<pc, idx, shell, st, held, j, stdin, stdout, status,
          buf, todo, eof, last, glbStatus, ints>>

(* Wait statuses, encoded as the kernel does. *)
Exited(code)   == code * 256
Signaled(sig)  == sig
SIGINT  == 2
SIGSEGV == 11
SIGPIPE == 13

(* extract_exit_status: WEXITSTATUS for a normal exit, else 128 + signal. *)
ExtractExitStatus(ws) == IF ws % 128 = 0 THEN ws \div 256 ELSE 128 + (ws % 128)

ShellStates == {"create", "spawn", "ignore", "close", "wait",
                "done", "abandoned"}
ChildStates == {"none", "nofork", "dupin", "dupout", "closing", "signals",
                "redirect", "exec", "run", "dead", "reaped"}
Alive  == {"dupin", "dupout", "closing", "signals", "redirect", "exec", "run"}
Forked == Alive \cup {"dead", "reaped"}

(* Which processes keep an end of pipe k open. *)
HasWriter(k) == \/ k \in shell
                \/ \E i \in Segs : k \in held[i] \/ stdout[i] = k
HasReader(k) == \/ k \in shell
                \/ \E i \in Segs : k \in held[i] \/ stdin[i] = k

Init ==
  /\ pc = "create" /\ idx = 0 /\ shell = {}
  /\ st = [i \in Segs |-> "none"]
  /\ held = [i \in Segs |-> {}]
  /\ j = [i \in Segs |-> 0]
  /\ stdin = [i \in Segs |-> NoPipe]
  /\ stdout = [i \in Segs |-> NoPipe]
  /\ status = [i \in Segs |-> 0]
  /\ buf = [k \in Pipes |-> 0]
  /\ todo = [i \in Segs |-> 0]
  /\ eof = [i \in Segs |-> FALSE]
  /\ last = 0
  /\ glbStatus \in Codes
  /\ ints = 0

-----------------------------------------------------------------------------
(* The shell. *)

childVars == <<st, held, j, stdin, stdout, status>>

(* create_pipes, one round of its loop: pipe(pfds[i]). *)
CreatePipe ==
  /\ pc = "create" /\ idx < NSeg - 1
  /\ shell' = shell \cup {idx}
  /\ idx' = idx + 1
  /\ UNCHANGED <<pc, last, glbStatus, childVars, progVars, ints>>

(* Mutant of CreatePipeFails: return without cleanup_pipes. *)
CreatePipeFailsNoCleanup ==
  /\ pc = "create" /\ idx < NSeg - 1
  /\ "pipe" \in Faults
  /\ pc' = "abandoned"
  /\ UNCHANGED <<idx, shell, last, glbStatus, childVars, progVars, ints>>

(* pipe() fails: cleanup_pipes closes the pipes made so far and            *)
(* execute_pipeline returns without touching the exit status.              *)
CreatePipeFails ==
  /\ pc = "create" /\ idx < NSeg - 1
  /\ "pipe" \in Faults
  /\ shell' = {}
  /\ pc' = "abandoned"
  /\ UNCHANGED <<idx, last, glbStatus, childVars, progVars, ints>>

CreateDone ==
  /\ pc = "create" /\ idx = NSeg - 1
  /\ pc' = "spawn" /\ idx' = 0
  /\ UNCHANGED <<shell, last, glbStatus, childVars, progVars, ints>>

(* spawn_child: fork.  The child inherits the shell's pipe ends and runs   *)
(* setup_child_pipes only when there is more than one segment.             *)
SpawnChild ==
  /\ pc = "spawn" /\ idx < NSeg
  /\ st' = [st EXCEPT ![idx] = IF NSeg > 1 THEN "dupin" ELSE "signals"]
  /\ held' = [held EXCEPT ![idx] = shell]
  /\ idx' = idx + 1
  /\ UNCHANGED <<pc, shell, last, glbStatus, j, stdin, stdout, status,
                 progVars, ints>>

(* fork() fails: pids[i] = -1, the loop goes on with the next segment. *)
SpawnFails ==
  /\ pc = "spawn" /\ idx < NSeg
  /\ "fork" \in Faults
  /\ st' = [st EXCEPT ![idx] = "nofork"]
  /\ idx' = idx + 1
  /\ UNCHANGED <<pc, shell, last, glbStatus, held, j, stdin, stdout, status,
                 progVars, ints>>

SpawnDone ==
  /\ pc = "spawn" /\ idx = NSeg
  /\ pc' = "ignore"
  /\ UNCHANGED <<idx, shell, last, glbStatus, childVars, progVars, ints>>

(* ignore_interactive_signals: from here on Ctrl-C leaves the shell alone. *)
IgnoreSignals ==
  /\ pc = "ignore"
  /\ pc' = "close" /\ idx' = 0
  /\ UNCHANGED <<shell, last, glbStatus, childVars, progVars, ints>>


(* free_pipes, one round of close_all_pipes. *)
ClosePipe ==
  /\ pc = "close" /\ idx < NSeg - 1
  /\ shell' = shell \ {idx}
  /\ idx' = idx + 1
  /\ UNCHANGED <<pc, last, glbStatus, childVars, progVars, ints>>

CloseDone ==
  /\ pc = "close" /\ idx = NSeg - 1
  /\ pc' = "wait" /\ idx' = 0 /\ last' = 0
  /\ UNCHANGED <<shell, glbStatus, childVars, progVars, ints>>

(* Mutant of WaitChild: the status of every child is kept. *)
WaitChildKeepsAll ==
  /\ pc = "wait" /\ idx < NSeg
  /\ st[idx] = "dead"
  /\ st' = [st EXCEPT ![idx] = "reaped"]
  /\ last' = status[idx]
  /\ idx' = idx + 1
  /\ UNCHANGED <<pc, shell, glbStatus, held, j, stdin, stdout, status,
                 progVars, ints>>

(* wait_children: waitpid blocks until child i is dead; only the status of *)
(* the last segment is kept.                                               *)
WaitChild ==
  /\ pc = "wait" /\ idx < NSeg
  /\ st[idx] = "dead"
  /\ st' = [st EXCEPT ![idx] = "reaped"]
  /\ last' = IF idx = NSeg - 1 THEN status[idx] ELSE last
  /\ idx' = idx + 1
  /\ UNCHANGED <<pc, shell, glbStatus, held, j, stdin, stdout, status,
                 progVars, ints>>

(* Mutant of SkipUnforked: only the last child is waited for. *)
SkipAllButLast ==
  /\ pc = "wait" /\ idx < NSeg
  /\ st[idx] \notin Forked \/ idx < NSeg - 1
  /\ idx' = idx + 1
  /\ UNCHANGED <<pc, shell, last, glbStatus, childVars, progVars, ints>>

(* pids[i] > 0 does not hold: nothing to wait for. *)
SkipUnforked ==
  /\ pc = "wait" /\ idx < NSeg
  /\ st[idx] \notin Forked
  /\ idx' = idx + 1
  /\ UNCHANGED <<pc, shell, last, glbStatus, childVars, progVars, ints>>

(* extract_exit_status and save_exit_status. *)
SaveStatus ==
  /\ pc = "wait" /\ idx = NSeg
  /\ glbStatus' = ExtractExitStatus(last)
  /\ pc' = "done"
  /\ UNCHANGED <<idx, shell, last, childVars, progVars, ints>>

Shell ==
  \/ CreatePipe \/ CreatePipeFails \/ CreateDone
  \/ SpawnChild \/ SpawnFails \/ SpawnDone
  \/ IgnoreSignals \/ ClosePipe \/ CloseDone
  \/ WaitChild \/ SkipUnforked \/ SaveStatus

-----------------------------------------------------------------------------
(* The child of segment i. *)

(* Termination with wait status ws: the kernel closes every descriptor. *)
Die(i, ws) ==
  /\ st' = [st EXCEPT ![i] = "dead"]
  /\ status' = [status EXCEPT ![i] = ws]
  /\ held' = [held EXCEPT ![i] = {}]
  /\ stdin' = [stdin EXCEPT ![i] = NoPipe]
  /\ stdout' = [stdout EXCEPT ![i] = NoPipe]
  /\ UNCHANGED <<shellVars, j, progVars, ints>>

(* Mutant of DupIn: off by one in "unless first". *)
DupInOffByOne(i) ==
  /\ st[i] = "dupin"
  /\ stdin' = [stdin EXCEPT ![i] = IF i > 1 THEN i - 1 ELSE NoPipe]
  /\ st' = [st EXCEPT ![i] = "dupout"]
  /\ UNCHANGED <<shellVars, held, j, stdout, status, progVars, ints>>

(* dup2(pfds[idx - 1][READING_END], STDIN_FILENO), unless first. *)
DupIn(i) ==
  /\ st[i] = "dupin"
  /\ i > 0 => i - 1 \in held[i]
  /\ stdin' = [stdin EXCEPT ![i] = IF i > 0 THEN i - 1 ELSE NoPipe]
  /\ st' = [st EXCEPT ![i] = "dupout"]
  /\ UNCHANGED <<shellVars, held, j, stdout, status, progVars, ints>>

(* Mutant of DupOut: off by one in "unless last". *)
DupOutOffByOne(i) ==
  /\ st[i] = "dupout"
  /\ stdout' = [stdout EXCEPT ![i] = IF i < NSeg - 2 THEN i ELSE NoPipe]
  /\ st' = [st EXCEPT ![i] = "closing"]
  /\ UNCHANGED <<shellVars, held, j, stdin, status, progVars, ints>>

(* dup2(pfds[idx][WRITING_END], STDOUT_FILENO), unless last. *)
DupOut(i) ==
  /\ st[i] = "dupout"
  /\ i < NSeg - 1 => i \in held[i]
  /\ stdout' = [stdout EXCEPT ![i] = IF i < NSeg - 1 THEN i ELSE NoPipe]
  /\ st' = [st EXCEPT ![i] = "closing"]
  /\ UNCHANGED <<shellVars, held, j, stdin, status, progVars, ints>>

(* A dup2 that fails ends the child with exit(1). *)
DupFails(i) ==
  /\ \/ st[i] = "dupin" /\ i > 0
     \/ st[i] = "dupout" /\ i < NSeg - 1
  /\ "dup2" \in Faults
  /\ Die(i, Exited(1))

(* Mutants of CloseInherited: only the child's own two pipes are closed;   *)
(* the loop runs once too often.                                           *)
CloseInheritedOwn(i) ==
  /\ st[i] = "closing" /\ j[i] < NSeg - 1
  /\ held' = [held EXCEPT ![i] = IF j[i] \in {i - 1, i} THEN @ \ {j[i]} ELSE @]
  /\ j' = [j EXCEPT ![i] = @ + 1]
  /\ UNCHANGED <<shellVars, st, stdin, stdout, status, progVars, ints>>
CloseInheritedTooFar(i) ==
  /\ st[i] = "closing" /\ j[i] <= NSeg - 1
  /\ held' = [held EXCEPT ![i] = @ \ {j[i]}]
  /\ j' = [j EXCEPT ![i] = @ + 1]
  /\ UNCHANGED <<shellVars, st, stdin, stdout, status, progVars, ints>>

(* The closing loop of setup_child_pipes. *)
CloseInherited(i) ==
  /\ st[i] = "closing" /\ j[i] < NSeg - 1
  /\ held' = [held EXCEPT ![i] = @ \ {j[i]}]
  /\ j' = [j EXCEPT ![i] = @ + 1]
  /\ UNCHANGED <<shellVars, st, stdin, stdout, status, progVars, ints>>

CloseInheritedDone(i) ==
  /\ st[i] = "closing" /\ j[i] = NSeg - 1
  /\ st' = [st EXCEPT ![i] = "signals"]
  /\ UNCHANGED <<shellVars, held, j, stdin, stdout, status, progVars, ints>>

(* child_executor: signal(SIGINT, SIG_DFL), signal(SIGQUIT, SIG_DFL). *)
DefaultSignals(i) ==
  /\ st[i] = "signals"
  /\ st' = [st EXCEPT ![i] = "redirect"]
  /\ UNCHANGED <<shellVars, held, j, stdin, stdout, status, progVars, ints>>

(* execute_redirections: exit(1) on an error; a redirected descriptor no   *)
(* longer refers to the pipe.  An operator that is the last token of its   *)
(* segment, its operand having vanished in the expansion, has no next      *)
(* token to look into: the child crashes.                                  *)
Redirect(i) ==
  /\ st[i] = "redirect"
  /\ \/ \E ws \in {Exited(1), Signaled(SIGSEGV)} : Die(i, ws)
     \/ \E keepIn, keepOut \in BOOLEAN :
          /\ stdin' = IF keepIn THEN stdin ELSE [stdin EXCEPT ![i] = NoPipe]
          /\ stdout' = IF keepOut THEN stdout ELSE [stdout EXCEPT ![i] = NoPipe]
          /\ st' = [st EXCEPT ![i] = "exec"]
          /\ UNCHANGED <<shellVars, held, j, status, progVars, ints>>

(* exec_resolved_command: exit(0) without words, 127 when the command is   *)
(* not found, 126 for a directory or an execve error, 1 without an         *)
(* environment array, else the program (or the builtin) runs.              *)
Exec(i) ==
  /\ st[i] = "exec"
  /\ \/ \E code \in {0, 1, 126, 127} : Die(i, Exited(code))
     \/ \E n \in 0..MaxOut :
          /\ todo' = [todo EXCEPT ![i] = n]
          /\ st' = [st EXCEPT ![i] = "run"]
          /\ UNCHANGED <<shellVars, held, j, stdin, stdout, status,
                         buf, eof, ints>>

Setup(i) ==
  \/ DupIn(i) \/ DupOut(i) \/ DupFails(i)
  \/ CloseInherited(i) \/ CloseInheritedDone(i)
  \/ DefaultSignals(i) \/ Redirect(i) \/ Exec(i)

-----------------------------------------------------------------------------
(* The program of segment i and the kernel's pipes. *)

ReadsPipe(i)  == stdin[i] # NoPipe
WritesPipe(i) == stdout[i] # NoPipe

Read(i) ==
  /\ st[i] = "run" /\ ReadsPipe(i) /\ ~eof[i]
  /\ buf[stdin[i]] > 0
  /\ buf' = [buf EXCEPT ![stdin[i]] = @ - 1]
  /\ UNCHANGED <<shellVars, childVars, todo, eof, ints>>

(* read() returns 0: the pipe is empty and nobody can write to it. *)
ReadEof(i) ==
  /\ st[i] = "run" /\ ReadsPipe(i) /\ ~eof[i]
  /\ buf[stdin[i]] = 0
  /\ ~HasWriter(stdin[i])
  /\ eof' = [eof EXCEPT ![i] = TRUE]
  /\ UNCHANGED <<shellVars, childVars, buf, todo, ints>>

(* write() blocks while the pipe is full and somebody can read it. *)
Write(i) ==
  /\ st[i] = "run" /\ todo[i] > 0
  /\ WritesPipe(i) => HasReader(stdout[i]) /\ buf[stdout[i]] < Cap
  /\ todo' = [todo EXCEPT ![i] = @ - 1]
  /\ buf' = IF WritesPipe(i) THEN [buf EXCEPT ![stdout[i]] = @ + 1] ELSE buf
  /\ UNCHANGED <<shellVars, childVars, eof, ints>>

(* write() to a pipe nobody can read: SIGPIPE has its default action. *)
WriteBroken(i) ==
  /\ st[i] = "run" /\ todo[i] > 0
  /\ WritesPipe(i) /\ ~HasReader(stdout[i])
  /\ Die(i, Signaled(SIGPIPE))

(* The program has written everything and read its input to the end. *)
Finish(i) ==
  /\ st[i] = "run" /\ todo[i] = 0
  /\ ReadsPipe(i) => eof[i]
  /\ \E code \in Codes : Die(i, Exited(code))

(* It may also exit earlier, as head or false do; it never has to. *)
Quit(i) ==
  /\ st[i] = "run"
  /\ \E code \in Codes : Die(i, Exited(code))

Program(i) == Read(i) \/ ReadEof(i) \/ Write(i) \/ WriteBroken(i) \/ Finish(i)

-----------------------------------------------------------------------------
(* Ctrl-C reaches every process of the terminal's foreground group.  A     *)
(* child past signal(SIGINT, SIG_DFL) dies, a program may have a handler   *)
(* of its own; before that it has the shell's disposition and lives.  The  *)
(* shell's handler stores 130 unless an earlier pipeline left SIGINT       *)
(* ignored; past ignore_interactive_signals it stores nothing.             *)
Interrupt ==
  /\ ints < MaxInt
  /\ ints' = ints + 1
  /\ \E D \in SUBSET {i \in Segs : st[i] \in {"redirect", "exec", "run"}} :
       /\ \A i \in Segs : st[i] \in {"redirect", "exec"} => i \in D
       /\ st' = [i \in Segs |-> IF i \in D THEN "dead" ELSE st[i]]
       /\ status' = [i \in Segs |->
                       IF i \in D THEN Signaled(SIGINT) ELSE status[i]]
       /\ held' = [i \in Segs |-> IF i \in D THEN {} ELSE held[i]]
       /\ stdin' = [i \in Segs |-> IF i \in D THEN NoPipe ELSE stdin[i]]
       /\ stdout' = [i \in Segs |-> IF i \in D THEN NoPipe ELSE stdout[i]]
  /\ \/ glbStatus' = 130 /\ pc \in {"create", "spawn", "ignore"}
     \/ UNCHANGED glbStatus
  /\ UNCHANGED <<pc, idx, shell, last, j, progVars>>

Terminated == pc \in {"done", "abandoned"} /\ UNCHANGED vars

Next ==
  \/ Shell
  \/ \E i \in Segs : Setup(i) \/ Program(i) \/ Quit(i)
  \/ Interrupt
  \/ Terminated

(* The scheduler runs every process that can run; nobody has to press      *)
(* Ctrl-C and no program has to leave early.                               *)
Fairness ==
  /\ WF_vars(Shell)
  /\ \A i \in Segs : WF_vars(Setup(i) \/ Program(i))

Spec == Init /\ [][Next]_vars /\ Fairness

-----------------------------------------------------------------------------
(* Properties *)

TypeOK ==
  /\ pc \in ShellStates /\ idx \in 0..NSeg
  /\ shell \subseteq Pipes
  /\ st \in [Segs -> ChildStates]
  /\ held \in [Segs -> SUBSET Pipes]
  /\ j \in [Segs -> 0 .. NSeg - 1]
  /\ stdin \in [Segs -> Pipes \cup {NoPipe}]
  /\ stdout \in [Segs -> Pipes \cup {NoPipe}]
  /\ status \in [Segs -> Nat] /\ \A i \in Segs : status[i] < 65536
  /\ buf \in [Pipes -> 0..Cap]
  /\ todo \in [Segs -> 0..MaxOut]
  /\ eof \in [Segs -> BOOLEAN]
  /\ last \in Nat /\ last < 65536
  /\ glbStatus \in Nat /\ glbStatus < 256
  /\ ints \in 0..MaxInt

(* When child i runs the user's command, the only pipe ends left open in   *)
(* it are the reading end of pipe i - 1 as descriptor 0 and the writing    *)
(* end of pipe i as descriptor 1: setup_child_pipes leaks no other end, in *)
(* whatever order the children and the shell's closing loop run.           *)
OnlyOwnEnds ==
  \A i \in Segs : st[i] \in {"signals", "redirect", "exec", "run"} =>
    /\ held[i] = {}
    /\ stdin[i] \in {i - 1, NoPipe}
    /\ stdout[i] \in {i, NoPipe} \ {NSeg - 1}

(* The shell blocks in waitpid, and returns to its prompt, only after it   *)
(* has closed both ends of every pipe it made; an abandoned pipeline has   *)
(* started nobody.                                                         *)
ShellKeepsNoEnd ==
  /\ pc \in {"wait", "done", "abandoned"} => shell = {}
  /\ pc = "abandoned" => \A i \in Segs : st[i] = "none"

(* A program is told end-of-file only when it has taken every unit out of  *)
(* its pipe and no process will ever add one: its predecessor is gone, was *)
(* never forked, or has redirected its output elsewhere.                   *)
EofMeansUpstreamGone ==
  \A i \in Segs : eof[i] =>
    /\ i > 0 /\ buf[i - 1] = 0
    /\ ~HasWriter(i - 1)
    /\ st[i - 1] \in {"nofork", "exec", "run", "dead", "reaped"}

(* A program dies of SIGPIPE only when its successor will never read again *)
(* (it is gone, was never forked or has redirected its input), never       *)
(* because the successor has not been forked or set up yet.                *)
SigpipeMeansReaderGone ==
  \A i \in Segs :
    st[i] \in {"dead", "reaped"} /\ status[i] = Signaled(SIGPIPE) =>
      /\ i < NSeg - 1
      /\ ~HasReader(i)
      /\ st[i + 1] \in {"nofork", "exec", "run", "dead", "reaped"}

(* When execute_pipeline returns, every child it forked has been reaped    *)
(* and glb->exit_status is the extracted status of the last segment (0     *)
(* when that segment could not be forked), whatever was interrupted before *)
(* ignore_interactive_signals and in whatever order the children ended.    *)
ReportedStatus ==
  pc = "done" =>
    /\ \A i \in Segs : st[i] \in {"reaped", "nofork"}
    /\ glbStatus = IF st[NSeg - 1] = "reaped"
                     THEN ExtractExitStatus(status[NSeg - 1]) ELSE 0

(* execute_pipeline implements the promise of PipelineAbs. *)
CommandView ==
  [i \in Segs |-> CASE st[i] = "none"               -> "new"
                    [] st[i] = "nofork"             -> "refused"
                    [] st[i] \in Alive              -> "running"
                    [] st[i] \in {"dead", "reaped"} -> "ended"]
CodeView == [i \in Segs |-> ExtractExitStatus(status[i])]
PhaseView == IF pc \in {"done", "abandoned"} THEN pc ELSE "busy"
Abs == INSTANCE PipelineAbs
         WITH command <- CommandView, code <- CodeView,
              phase <- PhaseView, result <- glbStatus
ImplementsAbs == Abs!Spec

(* execute_pipeline always returns: no process waits for an end-of-file    *)
(* that a forgotten descriptor prevents, and no writer for a reader that   *)
(* is gone, although no program ever leaves early.                         *)
Terminates == <>(pc \in {"done", "abandoned"})
=============================================================================
