------------------------------ MODULE Heredoc ------------------------------
(***************************************************************************)
(* One call of open_heredoc_and_write_pipe (exec/heredoc.c): the shell     *)
(* makes a pipe and forks a reader; the reader copies the lines the user   *)
(* types into the pipe up to the delimiter; the shell waits for the reader *)
(* and returns the reading end, or -1.  Nobody reads the pipe before that. *)
(*                                                                         *)
(* Ctrl-C reaches both processes.  What it does to the shell depends on    *)
(* the disposition of SIGINT it was left with: "general" is                *)
(* signal_handler_general (installed with SA_RESTART), "heredoc" is        *)
(* signal_handler_heredoc (set_signal_handler installs it without          *)
(* SA_RESTART when this line or an earlier one starts with <<; nothing but *)
(* a pipeline takes it away again), "ignored" is left behind by any        *)
(* earlier pipeline.                                                       *)
(***************************************************************************)
EXTENDS Integers

CONSTANTS
  Cap,       \* capacity of the pipe, in bytes
  MaxLen,    \* bound: bytes of one expanded line
  MaxTyped,  \* bound: bytes of all lines, newlines included
  MaxInt,    \* bound: Ctrl-C during the call
  Faults     \* the system calls of {"pipe", "fork", "dup2"} that may fail;
             \* dup2 is called on a document, in HeredocLine

ASSUME HeredocAssumption ==
  /\ Cap \in Nat \ {0}
  /\ MaxLen \in Nat /\ MaxTyped \in Nat /\ MaxInt \in Nat
  /\ Faults \subseteq {"pipe", "fork", "dup2"}

Dispositions == {"general", "heredoc", "ignored"}

VARIABLES
  pc,        \* the shell: "pipe", "fork", "close", "wait", "garbage", "returned"
  disp,      \* its disposition of SIGINT
  shellEnds, \* which of pipefd[0] ("r") and pipefd[1] ("w") it holds
  result,    \* "none", "fd" (pipefd[0]) or "failed" (-1)
  glbStatus, \* glb_list()->exit_status
  child,     \* the reader: "none", "setup", "closing", "reading", "writing",
             \* "dead", "reaped"
  childEnds, \* the pipe ends it holds
  status,    \* how it ended: "none", "exit0", "exit1", "SIGINT", "SIGPIPE"
  pending,   \* bytes of the current line, newline included, still to write
  typed,     \* bytes of the lines read so far, newlines included
  inPipe,    \* bytes in the pipe
  ints       \* Ctrl-C so far

shellVars == <<pc, disp, shellEnds, result, glbStatus>>
childVars == <<child, childEnds, status, pending, typed, inPipe>>
vars == <<pc, disp, shellEnds, result, glbStatus,
          child, childEnds, status, pending, typed, inPipe, ints>>

Init ==
  /\ pc = "pipe" /\ disp \in Dispositions
  /\ shellEnds = {} /\ result = "none" /\ glbStatus = 0
  /\ child = "none" /\ childEnds = {} /\ status = "none"
  /\ pending = 0 /\ typed = 0 /\ inPipe = 0 /\ ints = 0

-----------------------------------------------------------------------------
(* The shell. *)

MakePipe ==
  /\ pc = "pipe"
  /\ pc' = "fork" /\ shellEnds' = {"r", "w"}
  /\ UNCHANGED <<disp, result, glbStatus, childVars, ints>>

PipeFails ==
  /\ pc = "pipe" /\ "pipe" \in Faults
  /\ pc' = "returned" /\ result' = "failed"
  /\ UNCHANGED <<disp, shellEnds, glbStatus, childVars, ints>>

Fork ==
  /\ pc = "fork"
  /\ pc' = "close"
  /\ child' = "setup" /\ childEnds' = shellEnds
  /\ UNCHANGED <<disp, shellEnds, result, glbStatus,
                 status, pending, typed, inPipe, ints>>

ForkFails ==
  /\ pc = "fork" /\ "fork" \in Faults
  /\ pc' = "returned" /\ result' = "failed" /\ shellEnds' = {}
  /\ UNCHANGED <<disp, glbStatus, childVars, ints>>

(* handle_parent_process: close(pipefd[1]). *)
CloseWritingEnd ==
  /\ pc = "close"
  /\ pc' = "wait" /\ shellEnds' = shellEnds \ {"w"}
  /\ UNCHANGED <<disp, result, glbStatus, childVars, ints>>

(* Mutant of Verdict: a killed reader is not noticed. *)
VerdictIgnoresSignal(ws) == IF ws = "exit1" THEN "failed" ELSE "fd"

(* What handle_parent_process makes of a wait status. *)
Verdict(ws) == IF ws \in {"SIGINT", "exit1"} THEN "failed" ELSE "fd"

(* Mutant of Conclude: the reading end is not closed on the way out. *)
ConcludeKeepsEnd(ws) ==
  /\ pc' = "returned" /\ result' = Verdict(ws)
  /\ glbStatus' = IF ws = "SIGINT" THEN 130 ELSE glbStatus
  /\ UNCHANGED <<disp, shellEnds, childEnds, pending, typed, inPipe, ints>>

(* The rest of handle_parent_process, given the content of status. *)
Conclude(ws) ==
  /\ pc' = "returned" /\ result' = Verdict(ws)
  /\ glbStatus' = IF ws = "SIGINT" THEN 130 ELSE glbStatus
  /\ shellEnds' = IF Verdict(ws) = "fd" THEN shellEnds ELSE shellEnds \ {"r"}
  /\ UNCHANGED <<disp, childEnds, pending, typed, inPipe, ints>>

(* Mutant of Reap: waitpid is repeated until the reader exited normally. *)
ReapExitedOnly ==
  /\ pc = "wait" /\ child = "dead" /\ status \in {"exit0", "exit1"}
  /\ child' = "reaped"
  /\ Conclude(status)
  /\ UNCHANGED status

(* waitpid returns the reader. *)
Reap ==
  /\ pc = "wait" /\ child = "dead"
  /\ child' = "reaped"
  /\ Conclude(status)
  /\ UNCHANGED status

(* waitpid returned EINTR: status was never written, any content of it is  *)
(* possible, and the reader stays a child of the shell.                    *)
ConcludeOnGarbage ==
  /\ pc = "garbage"
  /\ \E ws \in {"exit0", "exit1", "SIGINT", "SIGPIPE"} : Conclude(ws)
  /\ UNCHANGED <<child, status>>

Shell ==
  \/ MakePipe \/ PipeFails \/ Fork \/ ForkFails
  \/ CloseWritingEnd \/ Reap \/ ConcludeOnGarbage

-----------------------------------------------------------------------------
(* The reader. *)

Die(ws) ==
  /\ child' = "dead" /\ status' = ws /\ childEnds' = {}
  /\ UNCHANGED <<shellVars, pending, typed, inPipe, ints>>

(* setup_heredoc_signals: SIGINT gets its default action. *)
SetupSignals ==
  /\ child = "setup"
  /\ child' = "closing"
  /\ UNCHANGED <<shellVars, childEnds, status, pending, typed, inPipe, ints>>

(* close(pipefd[0]) *)
CloseReadingEnd ==
  /\ child = "closing"
  /\ child' = "reading" /\ childEnds' = childEnds \ {"r"}
  /\ UNCHANGED <<shellVars, status, pending, typed, inPipe, ints>>

(* Mutant of ReadLine: the terminating NUL is written too. *)
ReadLineWithNul ==
  /\ child = "reading"
  /\ \E n \in 0..MaxLen :
       /\ typed + n + 1 <= MaxTyped
       /\ typed' = typed + n + 1 /\ pending' = n + 2
  /\ child' = "writing"
  /\ UNCHANGED <<shellVars, childEnds, status, inPipe, ints>>

(* readline returns a line that is not the delimiter: it is expanded and   *)
(* written with a newline.                                                 *)
ReadLine ==
  /\ child = "reading"
  /\ \E n \in 0..MaxLen :
       /\ typed + n + 1 <= MaxTyped
       /\ typed' = typed + n + 1 /\ pending' = n + 1
  /\ child' = "writing"
  /\ UNCHANGED <<shellVars, childEnds, status, inPipe, ints>>

(* The line is the delimiter: _exit(0). *)
Delimiter == child = "reading" /\ Die("exit0")

(* Ctrl-D: readline returns NULL, a warning and _exit(0). *)
EndOfInput == child = "reading" /\ Die("exit0")

CanBeRead == "r" \in shellEnds \cup childEnds

(* write_line_to_pipe blocks on a full pipe. *)
WriteByte ==
  /\ child = "writing" /\ pending > 0
  /\ CanBeRead /\ inPipe < Cap
  /\ pending' = pending - 1 /\ inPipe' = inPipe + 1
  /\ UNCHANGED <<shellVars, child, childEnds, status, typed, ints>>

LineWritten ==
  /\ child = "writing" /\ pending = 0
  /\ child' = "reading"
  /\ UNCHANGED <<shellVars, childEnds, status, pending, typed, inPipe, ints>>

(* The shell has given up on the pipe: SIGPIPE, or a write error and       *)
(* _exit(1) when the shell was started with SIGPIPE ignored.               *)
WriteFails ==
  /\ child = "writing" /\ pending > 0 /\ ~CanBeRead
  /\ \E ws \in {"SIGPIPE", "exit1"} : Die(ws)

Reader ==
  \/ SetupSignals \/ CloseReadingEnd
  \/ WriteByte \/ LineWritten \/ WriteFails

-----------------------------------------------------------------------------
(* Ctrl-C *)

(* The reader dies once SIGINT has its default action in it. *)
InterruptReader ==
  IF child \in {"closing", "reading", "writing"}
    THEN /\ child' = "dead" /\ status' = "SIGINT" /\ childEnds' = {}
         /\ UNCHANGED <<pending, typed, inPipe>>
    ELSE UNCHANGED childVars

(* Mutant of InterruptShell: signal_handler_general without SA_RESTART. *)
InterruptShellNoRestart ==
  /\ glbStatus' = IF disp = "ignored" THEN glbStatus ELSE 130
  /\ \/ pc' = pc
     \/ /\ disp # "ignored" /\ pc = "wait" /\ child # "dead"
        /\ pc' = "garbage"
  /\ UNCHANGED <<disp, shellEnds, result>>

(* A handler stores 130.  Without SA_RESTART a waitpid that is blocked     *)
(* returns EINTR, unless the reader's death gets there first.              *)
InterruptShell ==
  /\ glbStatus' = IF disp = "ignored" THEN glbStatus ELSE 130
  /\ \/ pc' = pc
     \/ /\ disp = "heredoc" /\ pc = "wait" /\ child # "dead"
        /\ pc' = "garbage"
  /\ UNCHANGED <<disp, shellEnds, result>>

Interrupt ==
  /\ ints < MaxInt /\ ints' = ints + 1
  /\ InterruptReader /\ InterruptShell

Returned == pc = "returned" /\ UNCHANGED vars

(* The reader waits for room, the shell for the reader: only a further     *)
(* Ctrl-C gets them out.                                                   *)
Blocked ==
  /\ pc = "wait" /\ child = "writing" /\ pending > 0 /\ inPipe = Cap
  /\ UNCHANGED vars

Next ==
  \/ Shell \/ Reader
  \/ ReadLine \/ Delimiter \/ EndOfInput
  \/ Interrupt \/ Returned \/ Blocked

(* Both processes run when they can, and the user ends the document.       *)
Spec ==
  /\ Init /\ [][Next]_vars
  /\ WF_vars(Shell) /\ WF_vars(Reader) /\ WF_vars(Delimiter)

-----------------------------------------------------------------------------
(* Properties *)

TypeOK ==
  /\ pc \in {"pipe", "fork", "close", "wait", "garbage", "returned"}
  /\ disp \in Dispositions
  /\ shellEnds \subseteq {"r", "w"} /\ childEnds \subseteq {"r", "w"}
  /\ result \in {"none", "fd", "failed"} /\ glbStatus \in {0, 130}
  /\ child \in {"none", "setup", "closing", "reading", "writing", "dead", "reaped"}
  /\ status \in {"none", "exit0", "exit1", "SIGINT", "SIGPIPE"}
  /\ pending \in 0 .. MaxLen + 1 /\ typed \in 0..MaxTyped
  /\ inPipe \in 0..Cap /\ ints \in 0..MaxInt

(* The call leaves no reader behind, neither a zombie nor one that still   *)
(* competes for the terminal, as long as waitpid is restarted.             *)
ReaderGone ==
  pc = "returned" /\ disp # "heredoc" => child \in {"none", "reaped"}

(* A document whose reader Ctrl-C killed is reported as 130, even when the *)
(* shell itself ignores SIGINT because of an earlier pipeline, and it is   *)
(* not handed to the command, with one exception: under a handler that     *)
(* does not restart waitpid (this line or an earlier one starts with <<)   *)
(* the shell may have given up waiting for its reader.  It then decides on *)
(* an uninitialized status and may hand the cancelled document over; the   *)
(* reader is never reaped.                                                 *)
CancelledNotUsed ==
  pc = "returned" /\ status = "SIGINT" =>
    /\ glbStatus = 130
    /\ result = "failed" \/ (disp = "heredoc" /\ child = "dead")

(* Whatever failed or was interrupted, the caller gets either the reading  *)
(* end, and then it is the only end the shell holds, or -1 and no end.  A  *)
(* document that is handed over by a reader that ended is complete and     *)
(* will end: every byte typed is in the pipe and nobody can add to it.     *)
AcceptedIsComplete ==
  pc = "returned" =>
    /\ shellEnds = IF result = "fd" THEN {"r"} ELSE {}
    /\ result = "fd" /\ child = "reaped" =>
         inPipe = typed /\ pending = 0 /\ childEnds = {}

(* The reader and the shell wait for each other only on a document larger  *)
(* than the pipe (nobody reads it before the reader has ended): any        *)
(* shorter document is handed over or refused, cancelled or not.           *)
ReturnsOrOverflows == <>(pc = "returned" \/ inPipe + pending > Cap)
=============================================================================
