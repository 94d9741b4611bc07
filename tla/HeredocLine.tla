---------------------------- MODULE HeredocLine ----------------------------
(***************************************************************************)
(* One line with a here-document, from the request by the shell to the     *)
(* command that reads the document.  The shell asks for it before it forks *)
(* (redirection_infos); when it gets none (-1 stays in the token) it forks *)
(* the command all the same, and the child asks again (open_redir_fd in    *)
(* exec/execute_redirections.c), now with the shell waiting for the child  *)
(* and the child for a reader of its own, all three at the terminal.       *)
(*                                                                         *)
(* Each request is a call as in Heredoc, whose shell is then the process   *)
(* that asks.  The command is one that the shell forks, alone or last in a *)
(* pipeline; what it does once it runs is in Session and Pipeline.         *)
(***************************************************************************)
EXTENDS Heredoc  \* its variables: the request in progress, or the last one

VARIABLES
  kind,      \* "simple" or "pipeline"
  lineDisp,  \* the shell's disposition of SIGINT when it reads the line
  sh,        \* the shell: "request", "forked", "wait", "eintr", "prompt"
  glb,       \* its glb_list()->exit_status once it has forked
  cmd,       \* the child: "none", "unforked" (fork failed), "setup",
             \* "redirect", "request", "run", "dead"
  cmdEnd,    \* how it ended: "none", "exit1", "SIGINT"
  left       \* readers of the first request that live on

callVars == <<pc, disp, shellEnds, result, glbStatus,
              child, childEnds, status, pending, typed, inPipe>>
ownVars == <<kind, lineDisp, sh, glb, cmd, cmdEnd, left>>
lineVars == <<pc, disp, shellEnds, result, glbStatus,
              child, childEnds, status, pending, typed, inPipe, ints,
              kind, lineDisp, sh, glb, cmd, cmdEnd, left>>

LineInit ==
  /\ Init /\ lineDisp = disp /\ kind \in {"simple", "pipeline"}
  /\ sh = "request" /\ glb = 0 /\ cmd = "none" /\ cmdEnd = "none" /\ left = 0

(* The steps of a request, by the shell or by the child. *)
Requesting == sh = "request" \/ cmd = "request"
Request ==
  /\ \/ Requesting /\ Shell
     \/ Reader \/ ReadLine \/ Delimiter \/ EndOfInput
  /\ UNCHANGED ownVars

-----------------------------------------------------------------------------
(* The shell. *)

(* Whatever redirection_infos returned, main goes on.  The pipes of the    *)
(* pipeline may not be made: execute_pipeline returns and stores nothing.  *)
ForkCommand ==
  /\ sh = "request" /\ pc = "returned"
  /\ \/ /\ sh' = "forked" /\ glb' = glbStatus
        /\ cmd' = IF kind = "pipeline" THEN "setup" ELSE "redirect"
     \/ /\ kind = "pipeline" /\ "pipe" \in Faults
        /\ sh' = "prompt" /\ glb' = glbStatus /\ cmd' = cmd
  /\ UNCHANGED <<callVars, ints, kind, lineDisp, cmdEnd, left>>

(* The fork of the command fails: main stores 1, spawn_child leaves no     *)
(* process to wait for.                                                    *)
CannotFork ==
  /\ sh = "request" /\ pc = "returned" /\ "fork" \in Faults
  /\ cmd' = "unforked"
  /\ IF kind = "pipeline" THEN sh' = "forked" /\ glb' = glbStatus
                          ELSE sh' = "prompt" /\ glb' = 1
  /\ UNCHANGED <<callVars, ints, kind, lineDisp, cmdEnd, left>>

(* main waits as it is; execute_pipeline ignores SIGINT first. *)
EnterWait ==
  /\ sh = "forked" /\ sh' = "wait"
  /\ UNCHANGED <<callVars, ints, kind, lineDisp, glb, cmd, cmdEnd, left>>
ShellDisp == IF kind = "pipeline" /\ sh \in {"wait", "prompt"} THEN "ignored" ELSE lineDisp

(* Mutant of Wait: a 130 from the cancelled request is kept.               *)
WaitKeepsCancel ==
  /\ sh = "wait" /\ cmd \in {"dead", "unforked"}
  /\ glb' = IF cmdEnd = "SIGINT" \/ glb = 130 THEN 130
            ELSE IF cmd = "unforked" THEN 0 ELSE 1
  /\ sh' = "prompt"
  /\ UNCHANGED <<callVars, ints, kind, lineDisp, cmd, cmdEnd, left>>

(* The status of the child; the initial 0 of last_status when the pipeline *)
(* has no last child.                                                      *)
Wait ==
  /\ sh = "wait" /\ cmd \in {"dead", "unforked"}
  /\ glb' = IF cmd = "unforked" THEN 0 ELSE IF cmdEnd = "SIGINT" THEN 130 ELSE 1
  /\ sh' = "prompt"
  /\ UNCHANGED <<callVars, ints, kind, lineDisp, cmd, cmdEnd, left>>

(* waitpid returned EINTR: exit_status is still 0. *)
WaitFailed ==
  /\ sh = "eintr"
  /\ glb' = 0 /\ sh' = "prompt"
  /\ UNCHANGED <<callVars, ints, kind, lineDisp, cmd, cmdEnd, left>>

-----------------------------------------------------------------------------
(* The child. *)

(* child_executor: SIGINT gets its default action in a pipeline. *)
DefaultSignals ==
  /\ cmd = "setup" /\ cmd' = "redirect"
  /\ UNCHANGED <<callVars, ints, kind, lineDisp, sh, glb, cmdEnd, left>>

(* handle_fd: dup2 of the document the shell got. *)
UseFirst ==
  /\ cmd = "redirect" /\ result = "fd"
  /\ cmd' = "run"
  /\ UNCHANGED <<callVars, ints, kind, lineDisp, sh, glb, cmdEnd, left>>

(* dup2 fails: exit(1).  The shell still holds the document, until         *)
(* close_redirection_fds.                                                  *)
CannotUseFirst ==
  /\ cmd = "redirect" /\ result = "fd" /\ "dup2" \in Faults
  /\ cmd' = "dead" /\ cmdEnd' = "exit1"
  /\ UNCHANGED <<callVars, ints, kind, lineDisp, sh, glb, left>>

CmdDisp == IF kind = "pipeline" THEN "default" ELSE lineDisp

(* open_redir_fd: the number is -1. *)
AskAgain ==
  /\ cmd = "redirect" /\ result = "failed"
  /\ cmd' = "request"
  /\ pc' = "pipe" /\ disp' = CmdDisp /\ shellEnds' = {} /\ result' = "none"
  /\ child' = "none" /\ childEnds' = {} /\ status' = "none"
  /\ pending' = 0 /\ typed' = 0 /\ inPipe' = 0
  /\ left' = IF child \in {"none", "dead", "reaped"} THEN 0 ELSE 1
  /\ UNCHANGED <<glbStatus, ints, kind, lineDisp, sh, glb, cmdEnd>>

(* Mutant of Answered: the result is not looked at. *)
AnsweredUnchecked ==
  /\ cmd = "request" /\ pc = "returned"
  /\ cmd' = "run"
  /\ UNCHANGED <<callVars, ints, kind, lineDisp, sh, glb, cmdEnd, left>>

(* handle_fd: dup2 of the document the child got itself. *)
Answered ==
  /\ cmd = "request" /\ pc = "returned" /\ result = "fd"
  /\ cmd' = "run"
  /\ UNCHANGED <<callVars, ints, kind, lineDisp, sh, glb, cmdEnd, left>>

(* handle_fd: the child exits with 1 when it gets none either, or when     *)
(* dup2 fails; its end of the pipe goes with it.                           *)
Unanswered ==
  /\ cmd = "request" /\ pc = "returned"
  /\ result = "failed" \/ "dup2" \in Faults
  /\ cmd' = "dead" /\ cmdEnd' = "exit1" /\ shellEnds' = {}
  /\ UNCHANGED <<pc, disp, result, glbStatus, childVars, ints, kind, lineDisp,
                 sh, glb, left>>

-----------------------------------------------------------------------------
(* Ctrl-C reaches the shell, the child and the reader together. *)

InterruptWaitingShell ==
  /\ glb' = IF ShellDisp = "ignored" THEN glb ELSE 130
  /\ \/ sh' = sh
     \/ ShellDisp = "heredoc" /\ sh = "wait" /\ cmd # "dead" /\ sh' = "eintr"

CmdMayDie == CmdDisp = "default" /\ cmd \in {"redirect", "request"}

(* Mutant of KillCommand: the reader survives the child that asked.        *)
KillCommandAlone ==
  /\ CmdMayDie
  /\ cmd' = "dead" /\ cmdEnd' = "SIGINT"
  /\ shellEnds' = IF cmd = "request" THEN {} ELSE shellEnds
  /\ UNCHANGED <<child, childEnds, status, pc, disp, result, glbStatus, pending, typed, inPipe>>

(* A child with the default action dies, and so does its reader, which has *)
(* inherited it.                                                           *)
KillCommand ==
  /\ CmdMayDie
  /\ cmd' = "dead" /\ cmdEnd' = "SIGINT"
  /\ shellEnds' = IF cmd = "request" THEN {} ELSE shellEnds
  /\ IF cmd = "request" /\ child \notin {"none", "reaped"}
       THEN child' = "dead" /\ childEnds' = {} /\ UNCHANGED <<status, pending, typed, inPipe>>
       ELSE InterruptReader
  /\ UNCHANGED <<pc, disp, result, glbStatus>>

(* What is not a request has no reader but one that was given up.          *)
InterruptCommand ==
  \/ KillCommand
  \/ ~CmdMayDie /\ cmd = "request" /\ InterruptShell /\ InterruptReader
       /\ UNCHANGED <<cmd, cmdEnd>>
  \/ ~CmdMayDie /\ cmd # "request" /\ InterruptReader
       /\ UNCHANGED <<pc, disp, shellEnds, result, glbStatus, cmd, cmdEnd>>

InterruptLine ==
  /\ ints < MaxInt /\ ints' = ints + 1 /\ sh # "prompt" /\ cmd # "run"
  /\ IF sh = "request"
       THEN /\ InterruptShell /\ InterruptReader
            /\ UNCHANGED <<sh, glb, cmd, cmdEnd>>
       ELSE InterruptWaitingShell /\ InterruptCommand
  /\ UNCHANGED <<kind, lineDisp, left>>

LeftReaderEnds ==
  /\ left > 0 /\ left' = left - 1
  /\ UNCHANGED <<callVars, ints, kind, lineDisp, sh, glb, cmd, cmdEnd>>

Settled == (cmd = "run" \/ sh = "prompt") /\ UNCHANGED lineVars
LineBlocked == Blocked /\ UNCHANGED lineVars

LineNext ==
  \/ Request
  \/ ForkCommand \/ CannotFork \/ EnterWait \/ Wait \/ WaitFailed
  \/ DefaultSignals \/ UseFirst \/ CannotUseFirst
  \/ AskAgain \/ Answered \/ Unanswered
  \/ InterruptLine \/ LeftReaderEnds \/ Settled \/ LineBlocked

LineSpec == LineInit /\ [][LineNext]_lineVars

-----------------------------------------------------------------------------
(* Properties *)

LineTypeOK ==
  /\ sh \in {"request", "forked", "wait", "eintr", "prompt"}
  /\ cmd \in {"none", "unforked", "setup", "redirect", "request", "run", "dead"}
  /\ cmdEnd \in {"none", "exit1", "SIGINT"} /\ glb \in {0, 1, 130}
  /\ kind \in {"simple", "pipeline"} /\ lineDisp \in Dispositions
  /\ disp \in Dispositions \cup {"default"} /\ left \in 0..1

(* No waitpid of this line can have been given up.  The exception is a     *)
(* line on which Ctrl-C was typed under signal_handler_heredoc, which      *)
(* set_signal_handler installs for this line when it starts with << and    *)
(* leaves in place for all later lines, until a pipeline ignores SIGINT.   *)
Undisturbed == lineDisp # "heredoc" \/ ints = 0

(* A command that runs has a document that its user ended, all of it and   *)
(* nobody else's end of the pipe, however often the document was cancelled *)
(* and asked for again, unless Ctrl-C came under the handler that does not *)
(* restart waitpid (Undisturbed): then it may run on half a document.      *)
RunsWithDocument ==
  cmd = "run" /\ Undisturbed =>
    /\ result = "fd" /\ child = "reaped" /\ status = "exit0"
    /\ inPipe = typed /\ shellEnds = {"r"} /\ childEnds = {}

(* When the shell reads the next line, no child of this one and no reader  *)
(* of either request is left at the terminal, although the child that      *)
(* asked may have been killed while it waited for its reader, unless       *)
(* Ctrl-C came under the handler that does not restart waitpid.            *)
PromptIsAlone ==
  sh = "prompt" /\ Undisturbed =>
    /\ cmd \in {"none", "unforked", "dead"}
    /\ left = 0 /\ child \in {"none", "dead", "reaped"}

(* The status of a line whose command does not get to run.  A child that   *)
(* gave up exits with 1, and the 130 that the shell stored when its own    *)
(* request was cancelled does not outlast it; Ctrl-C reports 130 only when *)
(* it killed the child of a pipeline.  A fork that fails is 1 for a simple *)
(* command, but for the last of a pipeline it counts as a success, 0, even *)
(* after a cancelled document.  Without the pipes of a pipeline nothing is *)
(* stored, and then the 130 of a cancelled document stays.  All this       *)
(* unless Ctrl-C came under the handler that does not restart waitpid.     *)
CancelledLineStatus ==
  sh = "prompt" /\ Undisturbed =>
    /\ cmd = "dead" => /\ glb = IF cmdEnd = "SIGINT" THEN 130 ELSE 1
                       /\ cmdEnd = "SIGINT" => kind = "pipeline"
    /\ cmd = "unforked" => glb = IF kind = "simple" THEN 1 ELSE 0
    /\ cmd = "none" => kind = "pipeline" /\ (status = "SIGINT" => glb = 130)
=============================================================================
