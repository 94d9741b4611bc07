---------------------------- MODULE HeredocProofs ----------------------------
(***************************************************************************)
(* The safety properties of Heredoc, for one request of a document, and of *)
(* HeredocLine, for the line that asks for it, hold for a pipe of any      *)
(* capacity, documents of any length and any number of Ctrl-C; the one of  *)
(* Document, for any lines, delimiter and environment.                     *)
(***************************************************************************)
EXTENDS HeredocLine, Document, SequenceTheorems, WellFoundedInduction, TLAPS

-----------------------------------------------------------------------------
(* One request: the shell and its reader. *)

(* Which pipe ends each process holds follows from where it is. *)
EndsInv ==
  /\ pc = "pipe" => shellEnds = {}
  /\ pc \in {"fork", "close"} => shellEnds = {"r", "w"}
  /\ pc \in {"wait", "garbage"} => shellEnds = {"r"}
  /\ pc = "returned" => shellEnds = IF result = "fd" THEN {"r"} ELSE {}
  /\ child \in {"setup", "closing"} => childEnds = {"r", "w"}
  /\ child \in {"reading", "writing"} => childEnds = {"w"}
  /\ child \in {"none", "dead", "reaped"} => childEnds = {}

(* The shell and its reader: none before the fork, none reaped before the  *)
(* return; the status of a reader that is reaped decides.                  *)
ReaderInv ==
  /\ pc \in {"pipe", "fork"} => child = "none"
  /\ pc \in {"close", "wait", "garbage"} => child \notin {"none", "reaped"}
  /\ pc = "returned" /\ child = "none" => result = "failed"
  /\ pc = "returned" /\ child = "reaped" =>
       /\ result = Verdict(status)
       /\ status = "SIGINT" => glbStatus = 130

(* Giving up has stored 130: only Ctrl-C leads there, and the handler runs *)
(* first.                                                                  *)
GivenUpInv ==
  pc = "garbage" \/ (pc = "returned" /\ child \notin {"none", "reaped"}) =>
    disp = "heredoc" /\ glbStatus = 130

(* A reader that died of its pipe can no longer be waited for: as long as  *)
(* the shell waits it holds the reading end.                               *)
StatusInv ==
  /\ status = "none" <=> child \notin {"dead", "reaped"}
  /\ status \in {"exit1", "SIGPIPE"} => pc = "returned" /\ child = "dead"

(* No byte is lost between the lines read and the pipe. *)
BytesInv ==
  /\ inPipe + pending = typed
  /\ child \in {"none", "setup", "closing", "reading"} \/ status = "exit0" =>
       pending = 0

IInv == TypeOK /\ EndsInv /\ ReaderInv /\ GivenUpInv /\ StatusInv /\ BytesInv

-----------------------------------------------------------------------------
(* The call starts in the invariant. *)
LEMMA Initially == Init => IInv
  BY HeredocAssumption
  DEF Init, IInv, TypeOK, EndsInv, ReaderInv, GivenUpInv, StatusInv, BytesInv, Dispositions

(* The steps of the shell. *)
LEMMA ShellStep ==
  ASSUME IInv, Shell
  PROVE  IInv'
<1> USE DEF IInv, TypeOK, EndsInv, ReaderInv, GivenUpInv, StatusInv, BytesInv, childVars
<1>1. CASE MakePipe BY <1>1 DEF MakePipe
<1>2. CASE PipeFails BY <1>2 DEF PipeFails
<1>3. CASE Fork BY <1>3 DEF Fork
<1>4. CASE ForkFails BY <1>4 DEF ForkFails
<1>5. CASE CloseWritingEnd BY <1>5 DEF CloseWritingEnd
<1>6. CASE Reap BY <1>6 DEF Reap, Conclude, Verdict
<1>7. CASE ConcludeOnGarbage
  <2>1. PICK ws \in {"exit0", "exit1", "SIGINT", "SIGPIPE"} : Conclude(ws)
    BY <1>7 DEF ConcludeOnGarbage
  <2> QED BY <1>7, <2>1 DEF ConcludeOnGarbage, Conclude, Verdict
<1> QED BY <1>1, <1>2, <1>3, <1>4, <1>5, <1>6, <1>7 DEF Shell

(* The steps of the reader and of the user at its terminal. *)
LEMMA ReaderStep ==
  ASSUME IInv, Reader \/ ReadLine \/ Delimiter \/ EndOfInput
  PROVE  IInv'
<1> USE HeredocAssumption
        DEF IInv, TypeOK, EndsInv, ReaderInv, GivenUpInv, StatusInv, BytesInv,
            shellVars
<1>1. CASE SetupSignals BY <1>1 DEF SetupSignals
<1>2. CASE CloseReadingEnd BY <1>2 DEF CloseReadingEnd
<1>3. CASE WriteByte BY <1>3 DEF WriteByte
<1>4. CASE LineWritten BY <1>4 DEF LineWritten
<1>5. CASE WriteFails
  <2>1. PICK ws \in {"SIGPIPE", "exit1"} : Die(ws)
    BY <1>5 DEF WriteFails
  <2>2. pc = "returned" /\ child = "writing" /\ status = "none"
    BY <1>5 DEF WriteFails, CanBeRead
  <2> QED BY <2>1, <2>2 DEF Die
<1>6. CASE ReadLine BY <1>6 DEF ReadLine
<1>7. CASE Delimiter \/ EndOfInput
  <2>1. child = "reading" /\ Die("exit0")
    BY <1>7 DEF Delimiter, EndOfInput
  <2> QED BY <2>1 DEF Die
<1> QED BY <1>1, <1>2, <1>3, <1>4, <1>5, <1>6, <1>7 DEF Reader

(* Ctrl-C in both processes at once. *)
LEMMA InterruptStep ==
  ASSUME IInv, Interrupt
  PROVE  IInv'
<1> USE HeredocAssumption
        DEF IInv, TypeOK, EndsInv, ReaderInv, GivenUpInv, StatusInv, BytesInv
<1>1. CASE child \in {"closing", "reading", "writing"}
  BY <1>1 DEF Interrupt, InterruptReader, InterruptShell, Verdict
<1>2. CASE child \notin {"closing", "reading", "writing"}
  <2>1. UNCHANGED <<child, childEnds, status, pending, typed, inPipe>>
    BY <1>2 DEF Interrupt, InterruptReader, childVars
  <2>2. /\ ints' \in 0..MaxInt
        /\ glbStatus' = IF disp = "ignored" THEN glbStatus ELSE 130
        /\ UNCHANGED <<disp, shellEnds, result>>
    BY DEF Interrupt, InterruptShell
  <2>3. CASE pc' = pc
    BY <2>1, <2>2, <2>3 DEF Verdict
  <2>4. CASE pc = "wait" /\ disp = "heredoc" /\ pc' = "garbage"
    BY <2>1, <2>2, <2>4 DEF Verdict
  <2> QED BY <2>3, <2>4 DEF Interrupt, InterruptShell
<1> QED BY <1>1, <1>2

(* Every step of the shell, the reader or the user keeps it. *)
LEMMA Step == IInv /\ [Next]_vars => IInv'
<1> SUFFICES ASSUME IInv, [Next]_vars PROVE IInv'
  OBVIOUS
<1>1. CASE UNCHANGED vars
  BY <1>1 DEF vars, IInv, TypeOK, EndsInv, ReaderInv, GivenUpInv, StatusInv, BytesInv, Verdict
<1>2. CASE Next
  BY <1>1, <1>2, ShellStep, ReaderStep, InterruptStep DEF Next, Returned, Blocked
<1> QED BY <1>1, <1>2

(* Hence it always holds. *)
THEOREM Invariance == Spec => []IInv
  BY Initially, Step, PTL DEF Spec

-----------------------------------------------------------------------------
(* Every variable keeps to its values; the pipe never holds more than its  *)
(* capacity.                                                               *)
THEOREM TypeCorrect == Spec => []TypeOK
<1>1. IInv => TypeOK BY DEF IInv
<1> QED BY <1>1, Invariance, PTL

(* No call leaves a reader behind, except under the handler that this line *)
(* or an earlier one installed by starting with <<.                        *)
THEOREM ReaderIsGone == Spec => []ReaderGone
<1>1. IInv => ReaderGone BY DEF IInv, GivenUpInv, ReaderGone
<1> QED BY <1>1, Invariance, PTL

(* A document cancelled with Ctrl-C is reported as 130, and it is refused  *)
(* unless the shell, under a handler that does not restart waitpid, gave   *)
(* up waiting and never reaped the reader.                                 *)
THEOREM CancelledIsRefused == Spec => []CancelledNotUsed
<1>1. IInv => CancelledNotUsed
  <2> SUFFICES ASSUME IInv, pc = "returned", status = "SIGINT"
               PROVE  /\ glbStatus = 130
                      /\ result = "failed" \/ (disp = "heredoc" /\ child = "dead")
    BY DEF CancelledNotUsed
  <2>1. child \in {"dead", "reaped"} BY DEF IInv, TypeOK, StatusInv
  <2>2. CASE child = "dead" BY <2>2 DEF IInv, GivenUpInv
  <2>3. CASE child = "reaped" BY <2>3 DEF IInv, ReaderInv, Verdict
  <2> QED BY <2>1, <2>2, <2>3
<1> QED BY <1>1, Invariance, PTL

(* A document handed over is complete, and the shell holds the reading end *)
(* exactly then.                                                           *)
THEOREM AcceptedIsWhole == Spec => []AcceptedIsComplete
<1>1. IInv => AcceptedIsComplete
  <2> SUFFICES ASSUME IInv, pc = "returned"
               PROVE  /\ shellEnds = IF result = "fd" THEN {"r"} ELSE {}
                      /\ result = "fd" /\ child = "reaped" =>
                           inPipe = typed /\ pending = 0 /\ childEnds = {}
    BY DEF AcceptedIsComplete
  <2>1. shellEnds = IF result = "fd" THEN {"r"} ELSE {}
    BY DEF IInv, EndsInv
  <2>2. ASSUME result = "fd", child = "reaped"
        PROVE  inPipe = typed /\ pending = 0 /\ childEnds = {}
    <3>1. status = "exit0"
      BY <2>2 DEF IInv, TypeOK, ReaderInv, StatusInv, Verdict
    <3> QED BY <2>2, <3>1 DEF IInv, TypeOK, EndsInv, BytesInv
  <2> QED BY <2>1, <2>2
<1> QED BY <1>1, Invariance, PTL

-----------------------------------------------------------------------------
(* The line: the shell, its child, and the request of either. *)

(* The variables of the request in progress. *)
CallTypes ==
  /\ pc \in {"pipe", "fork", "close", "wait", "garbage", "returned"}
  /\ shellEnds \subseteq {"r", "w"} /\ childEnds \subseteq {"r", "w"}
  /\ result \in {"none", "fd", "failed"} /\ glbStatus \in {0, 130}
  /\ child \in {"none", "setup", "closing", "reading", "writing", "dead", "reaped"}
  /\ status \in {"none", "exit0", "exit1", "SIGINT", "SIGPIPE"}
  /\ pending \in Nat /\ typed \in Nat /\ inPipe \in Nat

(* Who asks, and with which disposition of SIGINT.  A request under way    *)
(* has no result; the shell forks, and the child uses or repeats the       *)
(* request, only once there is one.                                        *)
AskerInv ==
  /\ sh = "request" => cmd = "none"
  /\ cmd = "none" => sh \in {"request", "prompt"} /\ disp = lineDisp /\ left = 0
  /\ cmd = "request" => disp = CmdDisp
  /\ disp \in {lineDisp, CmdDisp}
  /\ sh # "request" /\ cmd \notin {"request", "dead"} => pc = "returned"
  /\ result = "none" <=> pc # "returned"
  /\ cmd = "run" => result = "fd"

(* Which pipe ends the asking process and its reader hold. *)
LineEnds ==
  /\ pc = "pipe" => shellEnds = {}
  /\ pc \in {"fork", "close"} => shellEnds = {"r", "w"}
  /\ pc = "wait" => shellEnds = {"r"}
  /\ pc = "returned" => shellEnds = IF result = "fd" THEN {"r"} ELSE {}
  /\ child \in {"setup", "closing"} => childEnds = {"r", "w"}
  /\ child \in {"reading", "writing"} => childEnds = {"w"}
  /\ child \in {"none", "dead", "reaped"} => childEnds = {}

(* Its waitpid is not given up, so the reader is there from the fork until *)
(* it is reaped, its end decides, and the pipe can be read meanwhile.      *)
LineReader ==
  /\ pc \in {"pipe", "fork"} => child = "none"
  /\ pc \in {"close", "wait"} => child \notin {"none", "reaped"}
  /\ pc # "garbage"
  /\ pc = "returned" => child \in {"none", "reaped"}
  /\ pc = "returned" /\ child = "none" => result = "failed"
  /\ pc = "returned" /\ child = "reaped" => result = Verdict(status)
  /\ status = "none" <=> child \notin {"dead", "reaped"}
  /\ status \notin {"exit1", "SIGPIPE"}

(* No byte is lost between the lines read and the pipe. *)
LineBytes ==
  /\ inPipe + pending = typed
  /\ child \in {"none", "setup", "closing", "reading"} \/ status = "exit0" =>
       pending = 0

(* How the command ends; only a child of a pipeline can be killed.  A      *)
(* request of the shell that Ctrl-C cancelled has stored 130.              *)
EndInv ==
  /\ cmd = "dead" => child \in {"none", "dead", "reaped"}
  /\ cmd = "dead" <=> cmdEnd # "none"
  /\ cmdEnd = "SIGINT" => kind = "pipeline"
  /\ left = 0 /\ sh # "eintr"
  /\ sh = "prompt" =>
       /\ cmd \in {"none", "unforked", "dead"}
       /\ cmd = "dead" => glb = IF cmdEnd = "SIGINT" THEN 130 ELSE 1
       /\ cmd = "unforked" => glb = IF kind = "simple" THEN 1 ELSE 0
       /\ cmd = "none" => kind = "pipeline" /\ glb = glbStatus
  /\ cmd = "unforked" /\ kind = "simple" => sh = "prompt"
  /\ cmd = "none" /\ pc = "returned" /\ status = "SIGINT" => glbStatus = 130

(* Once Ctrl-C was typed under the handler that does not restart waitpid,  *)
(* the shell and the child may have given up waiting: there only the types *)
(* and the asker are claimed.                                              *)
LineIInv ==
  /\ LineTypeOK /\ CallTypes /\ AskerInv
  /\ ints \in Nat
  /\ Undisturbed =>
       /\ EndInv
       /\ cmd # "dead" => LineEnds /\ LineReader /\ LineBytes

-----------------------------------------------------------------------------
(* The shell reads the line in the invariant. *)
LEMMA LineInitially == LineInit => LineIInv
  BY DEF LineInit, Init, Dispositions, LineIInv, LineTypeOK, CallTypes, AskerInv,
         EndInv, LineEnds, LineReader, LineBytes, Undisturbed, CmdDisp

(* The steps of the process that asks. *)
LEMMA AskStep ==
  ASSUME LineIInv, Requesting, Shell, UNCHANGED ownVars
  PROVE  LineIInv'
<1> USE DEF LineIInv, LineTypeOK, CallTypes, AskerInv, EndInv, LineEnds, LineReader,
            LineBytes, Requesting, Undisturbed, CmdDisp, Dispositions, ownVars, childVars
<1>1. CASE MakePipe BY <1>1 DEF MakePipe
<1>2. CASE PipeFails BY <1>2 DEF PipeFails
<1>3. CASE Fork BY <1>3 DEF Fork
<1>4. CASE ForkFails BY <1>4 DEF ForkFails
<1>5. CASE CloseWritingEnd BY <1>5 DEF CloseWritingEnd
<1>6. CASE Reap
  <2>1. /\ pc = "wait" /\ pc' = "returned" /\ child = "dead" /\ child' = "reaped"
        /\ result' = Verdict(status) /\ Verdict(status) \in {"fd", "failed"}
        /\ glbStatus' = IF status = "SIGINT" THEN 130 ELSE glbStatus
        /\ shellEnds' = IF Verdict(status) = "fd" THEN shellEnds ELSE shellEnds \ {"r"}
        /\ UNCHANGED <<disp, childEnds, status, pending, typed, inPipe, ints>>
    BY <1>6 DEF Reap, Conclude, Verdict
  <2>2. LineTypeOK' /\ CallTypes' /\ AskerInv' /\ ints' \in Nat
    BY <2>1
  <2>3. ASSUME Undisturbed'
        PROVE  EndInv' /\ LineEnds' /\ LineReader' /\ LineBytes'
    BY <2>1, <2>3 DEF Verdict
  <2> QED BY <2>2, <2>3
<1>7. CASE ConcludeOnGarbage
  BY <1>7 DEF ConcludeOnGarbage, Conclude, Verdict
<1> QED BY <1>1, <1>2, <1>3, <1>4, <1>5, <1>6, <1>7 DEF Shell

(* The steps of its reader and of the user at the terminal. *)
LEMMA LineReaderStep ==
  ASSUME LineIInv, UNCHANGED ownVars,
         Reader \/ ReadLine \/ Delimiter \/ EndOfInput
  PROVE  LineIInv'
<1> USE DEF LineIInv, LineTypeOK, CallTypes, AskerInv, EndInv, LineEnds, LineReader,
            LineBytes, Undisturbed, CmdDisp, Dispositions, ownVars, shellVars
<1>1. CASE SetupSignals BY <1>1 DEF SetupSignals
<1>2. CASE CloseReadingEnd BY <1>2 DEF CloseReadingEnd
<1>3. CASE WriteByte BY <1>3 DEF WriteByte
<1>4. CASE LineWritten BY <1>4 DEF LineWritten
<1>5. CASE WriteFails BY <1>5 DEF WriteFails, CanBeRead, Die
<1>6. CASE ReadLine BY <1>6 DEF ReadLine
<1>7. CASE Delimiter BY <1>7 DEF Delimiter, Die
<1>8. CASE EndOfInput BY <1>8 DEF EndOfInput, Die
<1> QED BY <1>1, <1>2, <1>3, <1>4, <1>5, <1>6, <1>7, <1>8 DEF Reader

(* The steps of the shell and of its child around the requests. *)
LEMMA LineStep ==
  ASSUME LineIInv,
         \/ ForkCommand \/ CannotFork \/ EnterWait \/ Wait \/ WaitFailed
         \/ DefaultSignals \/ UseFirst \/ CannotUseFirst
         \/ AskAgain \/ Answered \/ Unanswered \/ LeftReaderEnds
  PROVE  LineIInv'
<1> USE DEF LineIInv, LineTypeOK, CallTypes, AskerInv, EndInv, LineEnds, LineReader,
            LineBytes, Undisturbed, CmdDisp, Dispositions, callVars
<1>1. CASE ForkCommand BY <1>1 DEF ForkCommand
<1>2. CASE EnterWait BY <1>2 DEF EnterWait
<1>3. CASE Wait
  <2>1. /\ sh = "wait" /\ sh' = "prompt" /\ cmd \in {"dead", "unforked"}
        /\ glb' = IF cmd = "unforked" THEN 0 ELSE IF cmdEnd = "SIGINT" THEN 130 ELSE 1
        /\ UNCHANGED <<callVars, ints, kind, lineDisp, cmd, cmdEnd, left>>
    BY <1>3 DEF Wait
  <2>2. LineTypeOK' /\ CallTypes' /\ AskerInv' /\ ints' \in Nat
    BY <2>1
  <2>3. ASSUME Undisturbed PROVE EndInv'
    BY <2>1, <2>3
  <2>4. ASSUME Undisturbed, cmd # "dead" PROVE (LineEnds /\ LineReader /\ LineBytes)'
    BY <2>1, <2>4 DEF Verdict
  <2> QED BY <2>1, <2>2, <2>3, <2>4
<1>4. CASE WaitFailed BY <1>4 DEF WaitFailed
<1>5. CASE DefaultSignals BY <1>5 DEF DefaultSignals
<1>6. CASE UseFirst BY <1>6 DEF UseFirst
<1>7. CASE AskAgain BY <1>7 DEF AskAgain
<1>8. CASE Answered BY <1>8 DEF Answered
<1>9. CASE LeftReaderEnds BY <1>9 DEF LeftReaderEnds
<1>10. CASE CannotFork BY <1>10 DEF CannotFork
<1>11. CASE CannotUseFirst BY <1>11 DEF CannotUseFirst
<1>12. CASE Unanswered BY <1>12 DEF Unanswered, childVars
<1> QED BY <1>1, <1>2, <1>3, <1>4, <1>5, <1>6, <1>7, <1>8, <1>9, <1>10, <1>11,
           <1>12

(* Ctrl-C under the handler that does not restart waitpid: only the types  *)
(* and the asker are claimed from here on.                                 *)
LEMMA InterruptTypes ==
  ASSUME LineIInv, InterruptLine
  PROVE  LineTypeOK' /\ CallTypes' /\ AskerInv' /\ ints' \in Nat \ {0}
<1> USE DEF LineIInv, LineTypeOK, CallTypes, AskerInv, CmdDisp, Dispositions
<1>1. ints' \in Nat \ {0} BY DEF InterruptLine
<1>2. /\ sh # "prompt" /\ UNCHANGED <<kind, lineDisp, left>>
      /\ glb' \in {0, 1, 130} /\ (sh = "request" <=> sh' = "request")
      /\ sh' \in {"request", "forked", "wait", "eintr"}
  BY DEF InterruptLine, InterruptWaitingShell
<1>3. ASSUME InterruptReader
      PROVE  /\ childEnds' \subseteq {"r", "w"}
             /\ child' \in {"none", "setup", "closing", "reading", "writing", "dead", "reaped"}
             /\ status' \in {"none", "exit0", "exit1", "SIGINT", "SIGPIPE"}
             /\ UNCHANGED <<pending, typed, inPipe>>
  BY <1>3 DEF InterruptReader, childVars
<1>4. ASSUME InterruptShell, InterruptReader, UNCHANGED <<cmd, cmdEnd>>,
             sh = "request" \/ cmd = "request"
      PROVE  LineTypeOK' /\ CallTypes' /\ AskerInv'
  <2>1. /\ glbStatus' \in {0, 130} /\ UNCHANGED <<disp, shellEnds, result>>
        /\ pc' = pc \/ (pc = "wait" /\ pc' = "garbage")
    BY <1>4 DEF InterruptShell
  <2> QED BY <1>2, <1>3, <1>4, <2>1
<1>5. ASSUME KillCommand, sh # "request" PROVE LineTypeOK' /\ CallTypes' /\ AskerInv'
  <2>1. /\ cmd' = "dead" /\ cmdEnd' = "SIGINT" /\ UNCHANGED <<pc, disp, result, glbStatus>>
        /\ shellEnds' \in {shellEnds, {}}
    BY <1>5 DEF KillCommand
  <2>2. /\ childEnds' \subseteq {"r", "w"}
        /\ child' \in {"none", "setup", "closing", "reading", "writing", "dead", "reaped"}
        /\ status' \in {"none", "exit0", "exit1", "SIGINT", "SIGPIPE"}
        /\ UNCHANGED <<pending, typed, inPipe>>
    BY <1>3, <1>5 DEF KillCommand
  <2>3. LineTypeOK' /\ AskerInv' BY <1>2, <1>5, <2>1
  <2>4. shellEnds' \subseteq {"r", "w"} BY <2>1
  <2>5. CallTypes' BY <2>1, <2>2, <2>4
  <2> QED BY <2>3, <2>5
<1>6. ASSUME InterruptReader, sh # "request", cmd # "request",
             UNCHANGED <<pc, disp, shellEnds, result, glbStatus, cmd, cmdEnd>>
      PROVE  LineTypeOK' /\ CallTypes' /\ AskerInv'
  BY <1>2, <1>3, <1>6
<1> HIDE DEF LineIInv, LineTypeOK, CallTypes, AskerInv, CmdDisp, Dispositions
<1>7. CASE sh = "request" BY <1>1, <1>4, <1>7 DEF InterruptLine
<1>8. CASE sh # "request"
  BY <1>1, <1>4, <1>5, <1>6, <1>8 DEF InterruptLine, InterruptCommand
<1> QED BY <1>7, <1>8

(* Ctrl-C while somebody asks and survives it, under a handler that        *)
(* restarts waitpid or with SIGINT ignored: the reader dies of it.         *)
LEMMA InterruptAsking ==
  ASSUME LineIInv, lineDisp # "heredoc", Requesting,
         InterruptShell, InterruptReader,
         UNCHANGED <<kind, lineDisp, cmd, cmdEnd, left>>,
         UNCHANGED sh, sh # "prompt"
  PROVE  EndInv' /\ LineEnds' /\ LineReader' /\ LineBytes'
<1> USE DEF LineIInv, LineTypeOK, CallTypes, AskerInv, EndInv, LineEnds, LineReader,
            LineBytes, Requesting, Undisturbed, CmdDisp
<1>1. disp # "heredoc" /\ cmd # "dead" BY DEF CmdDisp
<1>2. /\ glbStatus' = IF disp = "ignored" THEN glbStatus ELSE 130
      /\ UNCHANGED <<pc, disp, shellEnds, result>>
  BY <1>1 DEF InterruptShell
<1>3. UNCHANGED <<pending, typed, inPipe>>
  BY DEF InterruptReader, childVars
<1>4. CASE child \in {"closing", "reading", "writing"}
  <2>1. child' = "dead" /\ status' = "SIGINT" /\ childEnds' = {}
    BY <1>4 DEF InterruptReader
  <2>2. pc # "returned" BY <1>1, <1>4
  <2> QED BY <1>1, <1>2, <1>3, <1>4, <2>1, <2>2
<1>5. CASE child \notin {"closing", "reading", "writing"}
  <2>1. UNCHANGED <<child, childEnds, status>>
    BY <1>5 DEF InterruptReader, childVars
  <2> QED BY <1>1, <1>2, <1>3, <2>1 DEF Verdict
<1> QED BY <1>4, <1>5

(* Ctrl-C in the shell, in the child and in a reader at once. *)
LEMMA LineInterruptStep == ASSUME LineIInv, InterruptLine PROVE LineIInv'
<1>1. /\ LineTypeOK' /\ CallTypes' /\ AskerInv' /\ ints' \in Nat
      /\ Undisturbed' => lineDisp # "heredoc"
  <2>1. UNCHANGED lineDisp BY DEF InterruptLine
  <2> QED BY <2>1, InterruptTypes DEF Undisturbed
<1> SUFFICES ASSUME lineDisp # "heredoc"
             PROVE  EndInv' /\ (cmd' # "dead" => LineEnds' /\ LineReader' /\ LineBytes')
  BY <1>1 DEF LineIInv
<1>2. /\ sh # "prompt" /\ UNCHANGED <<sh, kind, lineDisp, left>>
      /\ Undisturbed /\ (cmd # "none" \/ sh = "request")
  BY DEF InterruptLine, InterruptWaitingShell, ShellDisp, Undisturbed, LineIInv, AskerInv
<1>3. CASE sh = "request"
  BY <1>2, <1>3, InterruptAsking DEF InterruptLine, Requesting
<1>4. CASE sh # "request" /\ cmd = "request" /\ ~CmdMayDie
  BY <1>2, <1>4, InterruptAsking
  DEF InterruptLine, InterruptCommand, KillCommand, Requesting
<1>5. ASSUME sh # "request", KillCommand
      PROVE  EndInv' /\ cmd' = "dead"
  <2>1. /\ cmd' = "dead" /\ cmdEnd' = "SIGINT" /\ kind = "pipeline"
        /\ cmd \in {"redirect", "request"}
    BY <1>5 DEF KillCommand, CmdMayDie, CmdDisp, LineIInv, LineTypeOK, Dispositions
  <2>2. child' \in {"none", "dead", "reaped"}
    <3>1. CASE cmd = "request" /\ child \notin {"none", "reaped"}
      BY <1>5, <3>1 DEF KillCommand
    <3>2. CASE ~(cmd = "request" /\ child \notin {"none", "reaped"})
      <4>1. InterruptReader /\ child \in {"none", "dead", "reaped"}
        BY <1>2, <1>5, <2>1, <3>2
        DEF KillCommand, LineIInv, Undisturbed, AskerInv, LineReader
      <4> QED BY <4>1 DEF InterruptReader, childVars
    <3> QED BY <3>1, <3>2
  <2> QED BY <1>2, <2>1, <2>2 DEF EndInv, LineIInv, Undisturbed
<1>6. CASE sh # "request" /\ ~KillCommand /\ cmd # "request"
  <2>1. /\ InterruptReader
        /\ UNCHANGED <<pc, disp, shellEnds, result, glbStatus, cmd, cmdEnd>>
    BY <1>6 DEF InterruptLine, InterruptCommand
  <2>2. child \in {"none", "dead", "reaped"}
    BY <1>2, <1>6
    DEF LineIInv, LineTypeOK, Undisturbed, AskerInv, EndInv, LineReader
  <2>3. UNCHANGED <<child, childEnds, status, pending, typed, inPipe>>
    BY <2>1, <2>2 DEF InterruptReader, childVars
  <2>4. EndInv'
    BY <1>2, <1>6, <2>1, <2>3 DEF EndInv, LineIInv, Undisturbed
  <2>5. cmd # "dead" => (LineEnds /\ LineReader /\ LineBytes)'
    BY <1>2, <2>1, <2>3
    DEF LineIInv, Undisturbed, LineEnds, LineReader, LineBytes, Verdict
  <2> QED BY <2>1, <2>4, <2>5
<1> QED BY <1>3, <1>4, <1>5, <1>6 DEF InterruptLine, InterruptCommand, KillCommand

(* No step leaves the invariant. *)
LEMMA AnyLineStep == LineIInv /\ [LineNext]_lineVars => LineIInv'
<1> SUFFICES ASSUME LineIInv, [LineNext]_lineVars PROVE LineIInv'
  OBVIOUS
<1>1. ASSUME UNCHANGED lineVars PROVE LineIInv'
  BY <1>1 DEF lineVars, LineIInv, LineTypeOK, CallTypes, AskerInv, EndInv, LineEnds, LineReader,
              LineBytes, Undisturbed, CmdDisp, Verdict
<1>2. CASE Request
  BY <1>2, AskStep, LineReaderStep DEF Request
<1> QED BY <1>1, <1>2, LineStep, LineInterruptStep DEF LineNext, Settled, LineBlocked

(* The whole of it holds in every state of a line. *)
THEOREM LineInvariance == LineSpec => []LineIInv
  BY LineInitially, AnyLineStep, PTL DEF LineSpec

-----------------------------------------------------------------------------
(* Every variable of the shell and of its child keeps to its values. *)
THEOREM LineTypeCorrect == LineSpec => []LineTypeOK
<1>1. LineIInv => LineTypeOK
  BY DEF LineIInv
<1> QED BY <1>1, LineInvariance, PTL

(* A command that runs has the whole document and no other end of a pipe,  *)
(* whether the shell or its child asked for it, however often Ctrl-C came, *)
(* unless it came under the handler that does not restart waitpid and that *)
(* this line or an earlier one installed by starting with <<.              *)
THEOREM CommandHasDocument == LineSpec => []RunsWithDocument
<1>1. LineIInv => RunsWithDocument
  <2> SUFFICES ASSUME LineIInv, cmd = "run", Undisturbed
               PROVE  /\ result = "fd" /\ child = "reaped" /\ status = "exit0"
                      /\ inPipe = typed /\ shellEnds = {"r"} /\ childEnds = {}
    BY DEF RunsWithDocument
  <2>1. result = "fd" /\ child = "reaped" /\ status = "exit0"
    BY DEF LineIInv, CallTypes, AskerInv, LineReader, Verdict
  <2> QED BY <2>1 DEF LineIInv, CallTypes, AskerInv, LineEnds, LineBytes
<1> QED BY <1>1, LineInvariance, PTL

(* No child and no reader of either request is left when the shell prompts *)
(* again, with the same exception.                                         *)
THEOREM NoReaderAtPrompt == LineSpec => []PromptIsAlone
<1>1. LineIInv => PromptIsAlone
  <2> SUFFICES ASSUME LineIInv, sh = "prompt", Undisturbed
               PROVE  /\ cmd \in {"none", "unforked", "dead"}
                      /\ left = 0 /\ child \in {"none", "dead", "reaped"}
    BY DEF PromptIsAlone
  <2>1. cmd \in {"none", "unforked", "dead"} /\ left = 0
    BY DEF LineIInv, EndInv
  <2>2. child \in {"none", "dead", "reaped"}
    <3>1. CASE cmd = "dead" BY <3>1 DEF LineIInv, EndInv
    <3>2. CASE cmd # "dead"
      <4>1. pc = "returned" BY <2>1, <3>2 DEF LineIInv, AskerInv
      <4> QED BY <3>2, <4>1 DEF LineIInv, LineReader
    <3> QED BY <3>1, <3>2
  <2> QED BY <2>1, <2>2
<1> QED BY <1>1, LineInvariance, PTL

(* A child that gave up is reported as 1, a killed one as 130; a fork that *)
(* failed as 1, or as 0 in a pipeline; a pipeline without its pipes keeps  *)
(* the 130 of a cancelled document.  All with the same exception.          *)
THEOREM LineStatus == LineSpec => []CancelledLineStatus
<1>1. LineIInv => CancelledLineStatus
  <2> SUFFICES ASSUME LineIInv, sh = "prompt", Undisturbed
               PROVE  /\ cmd = "dead" => /\ glb = IF cmdEnd = "SIGINT" THEN 130 ELSE 1
                                         /\ cmdEnd = "SIGINT" => kind = "pipeline"
                      /\ cmd = "unforked" => glb = IF kind = "simple" THEN 1 ELSE 0
                      /\ cmd = "none" => kind = "pipeline" /\ (status = "SIGINT" => glb = 130)
    BY DEF CancelledLineStatus
  <2>1. EndInv BY DEF LineIInv
  <2>2. ASSUME cmd = "none", status = "SIGINT" PROVE glbStatus = 130
    <3>1. pc = "returned" BY <2>2 DEF LineIInv, AskerInv
    <3> QED BY <2>1, <2>2, <3>1 DEF EndInv
  <2> QED BY <2>1, <2>2 DEF EndInv
<1> QED BY <1>1, LineInvariance, PTL

-----------------------------------------------------------------------------
(* The document: what the lines that the reader takes become. *)

(* Where the scan of a line stands, no name goes on and no $ waits for ?.  *)
NothingOpen(a, k) ==
  a.name # NoName /\ k <= Len(line) =>
    line[k] \notin NameChars \cup (IF a.name = <<>> THEN {"?"} ELSE {})

DocTypes ==
  /\ env \in Environments /\ qt \in BOOLEAN /\ quoted \in BOOLEAN
  /\ phase \in {"expand", "init", "read", "scan", "write", "done"}
  /\ line \in Seq(Symbols) /\ out \in Seq(Symbols) /\ i \in 1..Len(line) + 1
  /\ doc \in Seq(Seq(Symbols)) /\ typedLines \in Seq(Seq(Symbols))

(* The lines written so far are the texts of all lines read but the        *)
(* current one, of which out is the text as far as it has been scanned.    *)
DocWritten ==
  /\ phase \in {"expand", "init"} => doc = <<>> /\ typedLines = <<>>
  /\ phase \in {"read", "done"} => doc = [k \in 1..Len(typedLines) |-> Text(typedLines[k])]
  /\ phase \in {"scan", "write"} =>
       /\ typedLines # <<>> /\ typedLines[Len(typedLines)] = line
       /\ doc = [k \in 1..Len(typedLines) - 1 |-> Text(typedLines[k])]
  /\ phase = "scan" =>
       /\ out = Close(Reading(line)[i - 1]).text
       /\ NothingOpen(Reading(line)[i - 1], i)
  /\ phase = "write" => out = Text(line)
  /\ phase \in {"read", "scan", "write", "done"} => qt = FALSE

DocIInv == DocTypes /\ DocWritten

-----------------------------------------------------------------------------
(* Every set of natural numbers that is not empty has a least element, and *)
(* what is true of 0 and of the successor of each is true of all up to L.  *)
LEMMA LessThanWellFounded == IsWellFoundedOn({p \in Nat \X Nat : p[1] < p[2]}, Nat)
<1>1. OpToRel(<, Nat) = {p \in Nat \X Nat : p[1] < p[2]}
  BY DEF OpToRel
<1> QED BY <1>1, NatLessThanWellFounded, Zenon

LEMMA LeastExists ==
  ASSUME NEW S \in SUBSET Nat, S # {}
  PROVE  \E m \in S : \A n \in S : m <= n
<1>1. PICK m \in S : \A n \in S : <<n, m>> \notin {p \in Nat \X Nat : p[1] < p[2]}
  BY LessThanWellFounded, WFMin
<1>2. ASSUME NEW n \in S, n < m PROVE FALSE
  <2>1. <<n, m>> \in {p \in Nat \X Nat : p[1] < p[2]}
    BY <1>2
  <2> QED BY <1>1, <2>1
<1>3. \A n \in S : m <= n
  BY <1>2
<1> QED BY <1>3

LEMMA MinIsLeast ==
  ASSUME NEW S \in SUBSET Nat, S # {}
  PROVE  Min(S) \in S /\ \A n \in S : Min(S) <= n
<1>1. \E m \in S : \A n \in S : m <= n
  BY LeastExists
<1> QED BY <1>1 DEF Min

LEMMA Upward ==
  ASSUME NEW L \in Nat, NEW S, 0 \in S, \A m \in 0..L - 1 : m \in S => m + 1 \in S
  PROVE  \A m \in 0..L : m \in S
<1> SUFFICES ASSUME \E m \in 0..L : m \notin S PROVE FALSE
  OBVIOUS
<1> DEFINE bad == 0..L \ S
<1>1. PICK m \in bad : \A k \in bad : m <= k
  <2>1. bad \in SUBSET Nat /\ bad # {}
    OBVIOUS
  <2> HIDE DEF bad
  <2> QED BY <2>1, LeastExists
<1>2. m - 1 \in 0..L - 1 /\ m - 1 \notin bad
  BY <1>1
<1>3. m - 1 \in S /\ (m - 1) + 1 = m
  BY <1>2
<1> QED BY <1>2, <1>3, <1>1

(* Recursion from 0 upwards, a step being a function of the result so far. *)
Recursion(f, n, A, base, step) ==
  f \in [0..n -> A] /\ f[0] = base /\ \A k \in 1..n : f[k] = step[k][f[k - 1]]

LEMMA RecursionExists ==
  ASSUME NEW n \in Nat, NEW A, NEW base \in A, NEW step \in [1..n -> [A -> A]]
  PROVE  \E f : Recursion(f, n, A, base, step)
<1> DEFINE S == {m \in 0..n : \E f \in [0..m -> A] :
                   f[0] = base /\ \A k \in 1..m : f[k] = step[k][f[k - 1]]}
<1>1. 0 \in S
  <2> DEFINE f == [k \in 0..0 |-> base]
  <2>1. f \in [0..0 -> A] /\ f[0] = base
    OBVIOUS
  <2>2. \A k \in 1..0 : f[k] = step[k][f[k - 1]]
    OBVIOUS
  <2> HIDE DEF f
  <2> QED BY <2>1, <2>2
<1>2. ASSUME NEW m \in 0..n - 1, m \in S PROVE m + 1 \in S
  <2>1. PICK f \in [0..m -> A] : f[0] = base /\ \A k \in 1..m : f[k] = step[k][f[k - 1]]
    BY <1>2
  <2> DEFINE g == [k \in 0..m + 1 |-> IF k <= m THEN f[k] ELSE step[m + 1][f[m]]]
  <2>2. step[m + 1] \in [A -> A] /\ f[m] \in A
    OBVIOUS
  <2>3. g \in [0..m + 1 -> A]
    BY <2>2
  <2>4. g[0] = base /\ \A k \in 1..m + 1 : g[k] = step[k][g[k - 1]]
    BY <2>1
  <2>5. m + 1 \in 0..n
    OBVIOUS
  <2> HIDE DEF g
  <2> QED BY <2>3, <2>4, <2>5
<1>3. \A m \in 0..n : m \in S
  <2> HIDE DEF S
  <2>1. \A m \in 0..n - 1 : m \in S => m + 1 \in S
    BY <1>2
  <2> QED BY <1>1, <2>1, Upward, Zenon
<1> QED BY <1>3 DEF Recursion

-----------------------------------------------------------------------------
(* The reading of a line satisfies its equation. *)

States == [name : Seq(NameChars) \cup {NoName}, text : Seq(Symbols)]
Start  == [name |-> NoName, text |-> <<>>]

LEMMA NamesAreNotNone == NoName \notin Seq(NameChars) /\ NoName # <<>>
  BY DEF NoName, NameChars

LEMMA CloseType ==
  ASSUME env \in Environments, NEW a \in States
  PROVE  Close(a) \in States /\ Close(a).name = NoName
<1>1. GetEnvValue(a.name) \in Seq(Symbols)
  BY DocumentAssumption DEF DocumentAssumption, GetEnvValue
<1>2. <<"$">> \in Seq(Symbols)
  BY DEF Symbols
<1> QED BY <1>1, <1>2 DEF Close, States

(* Read, case by case. *)
LEMMA ReadCases ==
  ASSUME env \in Environments, NEW a \in States, NEW c \in Symbols
  PROVE  /\ a.name = <<>> /\ c = "?" =>
              Read(a, c) = [name |-> NoName, text |-> a.text \o Status]
         /\ a.name = <<>> /\ c = "1" => Read(a, c) = [name |-> NoName, text |-> a.text]
         /\ Continues(a, c) =>
              Read(a, c) = [name |-> Append(a.name, c), text |-> a.text]
         /\ c = "$" => Read(a, c) = [name |-> <<>>, text |-> Close(a).text]
         /\ c # "$" /\ (a.name # NoName =>
                         c \notin NameChars \cup (IF a.name = <<>> THEN {"?"} ELSE {})) =>
              Read(a, c) = [name |-> NoName, text |-> Append(Close(a).text, c)]
<1>1. Close(a) \in States /\ Close(a).name = NoName
  BY CloseType
<1>2. ASSUME NEW s \in States, NEW x
      PROVE  /\ [s EXCEPT !.name = x] = [name |-> x, text |-> s.text]
             /\ [s EXCEPT !.text = x] = [name |-> s.name, text |-> x]
  BY DEF States
<1>3. "$" \notin NameChars /\ "?" \notin NameChars /\ "1" \in NameChars
  BY DEF NameChars
<1>4. ASSUME a.name = <<>>, c = "?"
      PROVE  Read(a, c) = [name |-> NoName, text |-> a.text \o Status]
  BY <1>3, <1>4 DEF Read, Continues
<1>5. ASSUME a.name = <<>>, c = "1"
      PROVE  Read(a, c) = [name |-> NoName, text |-> a.text]
  <2>1. Read(a, c) = [a EXCEPT !.name = NoName]
    BY <1>5, NamesAreNotNone DEF Read, Continues
  <2> QED BY <2>1, <1>2
<1>6. ASSUME Continues(a, c)
      PROVE  Read(a, c) = [name |-> Append(a.name, c), text |-> a.text]
  <2>1. Read(a, c) = [a EXCEPT !.name = Append(a.name, c)]
    BY <1>3, <1>6 DEF Read, Continues
  <2> QED BY <2>1, <1>2
<1>7. ASSUME c = "$"
      PROVE  Read(a, c) = [name |-> <<>>, text |-> Close(a).text]
  <2>1. Read(a, c) = [Close(a) EXCEPT !.name = <<>>]
    BY <1>3, <1>7 DEF Read, Continues
  <2> QED BY <2>1, <1>1, <1>2
<1>8. ASSUME c # "$",
             a.name # NoName => c \notin NameChars \cup (IF a.name = <<>> THEN {"?"} ELSE {})
      PROVE  Read(a, c) = [name |-> NoName, text |-> Append(Close(a).text, c)]
  <2>1. Read(a, c) = [Close(a) EXCEPT !.text = Append(Close(a).text, c)]
    BY <1>3, <1>8, NamesAreNotNone DEF Read, Continues
  <2> QED BY <2>1, <1>1, <1>2
<1> QED BY <1>4, <1>5, <1>6, <1>7, <1>8

LEMMA ReadType ==
  ASSUME env \in Environments, NEW a \in States, NEW c \in Symbols
  PROVE  Read(a, c) \in States
<1>1. Close(a).text \in Seq(Symbols) /\ Status \in Seq(Symbols) /\ a.text \in Seq(Symbols)
  BY CloseType, DocumentAssumption DEF DocumentAssumption, States
<1>2. ASSUME Continues(a, c) PROVE Append(a.name, c) \in Seq(NameChars)
  BY <1>2 DEF States, Continues
<1>3. Append(Close(a).text, c) \in Seq(Symbols) /\ a.text \o Status \in Seq(Symbols)
  BY <1>1
<1>4. ASSUME a.name = <<>>, c = "?" PROVE Read(a, c) \in States
  <2>1. Read(a, c) = [name |-> NoName, text |-> a.text \o Status]
    BY <1>4, ReadCases
  <2> QED BY ONLY <2>1, <1>3 DEF States
<1>8. ASSUME a.name = <<>>, c = "1" PROVE Read(a, c) \in States
  <2>1. Read(a, c) = [name |-> NoName, text |-> a.text]
    BY <1>4, <1>8, ReadCases
  <2> QED BY ONLY <2>1, <1>1 DEF States
<1>5. ASSUME Continues(a, c) PROVE Read(a, c) \in States
  <2>1. Read(a, c) = [name |-> Append(a.name, c), text |-> a.text]
    BY <1>5, ReadCases
  <2>2. Append(a.name, c) \in Seq(NameChars)
    BY <1>2, <1>5
  <2> QED BY ONLY <2>1, <2>2, <1>1 DEF States
<1>6. ASSUME c = "$" PROVE Read(a, c) \in States
  <2>1. Read(a, c) = [name |-> <<>>, text |-> Close(a).text]
    BY <1>6, ReadCases
  <2> QED BY ONLY <2>1, <1>1 DEF States
<1>7. ASSUME c # "$", ~Continues(a, c), ~(a.name = <<>> /\ c \in {"?", "1"})
      PROVE  Read(a, c) \in States
  <2>1. Read(a, c) = [name |-> NoName, text |-> Append(Close(a).text, c)]
    BY <1>7, ReadCases DEF Continues
  <2> QED BY ONLY <2>1, <1>3 DEF States
<1> QED BY <1>4, <1>5, <1>6, <1>7, <1>8

LEMMA ReadingStep ==
  ASSUME env \in Environments, NEW l \in Seq(Symbols)
  PROVE  /\ Reading(l) \in [0..Len(l) -> States]
         /\ Reading(l)[0] = Start
         /\ \A k \in 1..Len(l) : Reading(l)[k] = Read(Reading(l)[k - 1], l[k])
<1> DEFINE n == Len(l)
           step == [k \in 1..n |-> [a \in States |-> Read(a, l[k])]]
           R(f) == [k \in 0..n |-> IF k = 0 THEN Start ELSE Read(f[k - 1], l[k])]
<1>0. Start \in States /\ n \in Nat
  BY DEF Start, States
<1>1. step \in [1..n -> [States -> States]]
  BY ReadType
<1>2. PICK f : Recursion(f, n, States, Start, step)
  <2> HIDE DEF step, n
  <2> QED BY <1>0, <1>1, RecursionExists
<1>3. \A k \in 1..n : step[k][f[k - 1]] = Read(f[k - 1], l[k])
  <2> SUFFICES ASSUME NEW k \in 1..n PROVE step[k][f[k - 1]] = Read(f[k - 1], l[k])
    OBVIOUS
  <2>1. f[k - 1] \in States
    BY <1>0, <1>2 DEF Recursion
  <2> QED BY <2>1
<1>4. f = R(f)
  <2> HIDE DEF step
  <2>1. \A k \in 0..n : f[k] = IF k = 0 THEN Start ELSE Read(f[k - 1], l[k])
    BY <1>2, <1>3 DEF Recursion
  <2>2. f = [k \in 0..n |-> f[k]]
    BY <1>2 DEF Recursion
  <2> QED BY <2>1, <2>2
<1>5. Reading(l) = R(Reading(l))
  BY <1>4, Zenon DEF Reading, Start
<1> DEFINE g == Reading(l)
<1>6. \A k \in 0..n : g[k] = IF k = 0 THEN Start ELSE Read(g[k - 1], l[k])
  <2>1. g = [k \in 0..n |-> IF k = 0 THEN Start ELSE Read(g[k - 1], l[k])]
    BY <1>5
  <2> HIDE DEF g, n
  <2> QED BY ONLY <2>1
<1>7. g \in [0..n -> States]
  <2> DEFINE S == {k \in 0..n : g[k] \in States}
  <2> HIDE DEF g
  <2>1. 0 \in S
    BY <1>0, <1>6
  <2>2. ASSUME NEW m \in 0..n - 1, m \in S PROVE m + 1 \in S
    <3>1. g[m + 1] = Read(g[m], l[m + 1]) /\ m + 1 \in 1..n
      BY <1>6, <1>0
    <3>2. l[m + 1] \in Symbols
      BY <3>1
    <3> QED BY <2>2, <3>1, <3>2, ReadType
  <2>3. \A m \in 0..n : m \in S
    <3> HIDE DEF S, n
    <3> QED BY <1>0, <2>1, <2>2, Upward
  <2> QED BY <1>5, <2>3 DEF g
<1> QED BY <1>0, <1>6, <1>7

(* A reading reads the environment and nothing else that changes. *)
LEMMA ReadingKept ==
  ASSUME UNCHANGED env
  PROVE  /\ \A l : Reading(l)' = Reading(l) /\ Text(l)' = Text(l)
         /\ \A a : Close(a)' = Close(a)
<1>1. \A a : Close(a)' = Close(a)
  BY DEF Close, GetEnvValue
<1>2. \A a, c : Read(a, c)' = Read(a, c)
  BY <1>1 DEF Read, Continues
<1>3. \A l : Reading(l)' = Reading(l)
  BY <1>2 DEF Reading
<1> QED BY <1>1, <1>3 DEF Text

(* A name in the line is as long as it can be. *)
LEMMA NameEndIsLongest ==
  ASSUME NEW l \in Seq(Symbols), line = l, NEW m \in 1..Len(l) + 1
  PROVE  /\ NameEnd(m) \in m..Len(l) + 1
         /\ \A k \in m..NameEnd(m) - 1 : l[k] \in NameChars
         /\ NameEnd(m) <= Len(l) => l[NameEnd(m)] \notin NameChars
<1> DEFINE all == l \o <<"NUL">>
           ends == {k \in m..Len(l) + 1 : all[k] \notin NameChars}
<1>1. Len(all) = Len(l) + 1 /\ all[Len(l) + 1] = "NUL" /\ \A k \in 1..Len(l) : all[k] = l[k]
  OBVIOUS
<1>2. Len(l) + 1 \in ends
  BY <1>1 DEF NameChars
<1>3. NameEnd(m) = Min(ends)
  BY <1>2 DEF NameEnd, SelectInSubSeq
<1>4. Min(ends) \in ends /\ \A k \in ends : Min(ends) <= k
  <2>1. ends \in SUBSET Nat /\ ends # {}
    BY <1>2
  <2> HIDE DEF ends
  <2> QED BY <2>1, MinIsLeast
<1> DEFINE e == Min(ends)
<1>5. e \in m..Len(l) + 1 /\ all[e] \notin NameChars /\ \A k \in ends : e <= k
  BY <1>4
<1>6. ASSUME NEW k \in m..e - 1 PROVE l[k] \in NameChars
  <2>1. k \notin ends /\ k \in m..Len(l) + 1 /\ k \in 1..Len(l)
    <3> HIDE DEF ends, e
    <3> QED BY <1>5
  <2> QED BY <2>1, <1>1
<1> HIDE DEF ends, all
<1> QED BY <1>1, <1>3, <1>5, <1>6

(* A name, read to its end. *)
LEMMA NameReading ==
  ASSUME DocTypes, NEW m \in 1..Len(line), line[m] = "a", NEW text,
         Reading(line)[m - 1] = [name |-> <<>>, text |-> text]
  PROVE  Reading(line)[NameEnd(m) - 1] =
           [name |-> SubSeq(line, m, NameEnd(m) - 1), text |-> text]
<1> DEFINE e == NameEnd(m)
           S == {n \in 0..e - m :
                   Reading(line)[m - 1 + n] =
                     [name |-> SubSeq(line, m, m - 1 + n), text |-> text]}
<1>1. /\ e \in m..Len(line) + 1 /\ line \in Seq(Symbols) /\ Len(line) \in Nat
      /\ \A k \in m..e - 1 : line[k] \in NameChars
  BY NameEndIsLongest DEF DocTypes
<1>2. /\ \A k \in 1..Len(line) : Reading(line)[k] = Read(Reading(line)[k - 1], line[k])
      /\ \A k \in 0..Len(line) : Reading(line)[k] \in States
  BY <1>1, ReadingStep DEF DocTypes
<1>3. 0 \in S
  <2>1. SubSeq(line, m, m - 1) = <<>>
    BY <1>1
  <2>2. m - 1 + 0 = m - 1 /\ 0 \in 0..e - m
    BY <1>1
  <2> QED BY <2>1, <2>2
<1>4. ASSUME NEW n \in 0..(e - m) - 1, n \in S PROVE n + 1 \in S
  <2> DEFINE k == m + n
             a == Reading(line)[k - 1]
  <2>1. /\ k \in m..e - 1 /\ k \in 1..Len(line) /\ k - 1 \in 0..Len(line)
        /\ m - 1 + n = k - 1 /\ m - 1 + (n + 1) = k /\ n + 1 \in 0..e - m
    <3> HIDE DEF e
    <3> QED BY <1>1
  <2>2. a = [name |-> SubSeq(line, m, k - 1), text |-> text]
    <3> HIDE DEF k
    <3> QED BY <1>4, <2>1
  <2>3. a \in States
    BY <1>2, <2>1
  <2> HIDE DEF a, k, e, S
  <2>4. a.name = SubSeq(line, m, k - 1) /\ a.text = text
    BY ONLY <2>2
  <2>5. line[k] \in NameChars /\ line[k] \in Symbols
    BY <1>1, <2>1
  <2>6. a.name \in Seq(NameChars) /\ Len(a.name) = k - m
    <3>1. \A j \in m..k - 1 : line[j] \in NameChars
      BY <1>1, <2>1
    <3>2. m \in Int /\ k - 1 \in Int /\ (IF m <= k - 1 THEN k - 1 - m + 1 ELSE 0) = k - m
      BY <2>1
    <3> QED BY <2>4, <3>1, <3>2, SubSeqProperties
  <2>7. line[k] = "1" => a.name # <<>>
    <3>1. line[k] = "1" => k # m
      OBVIOUS
    <3>2. k # m => k - m # 0
      BY <2>1
    <3> QED BY <2>6, <3>1, <3>2
  <2>8. Continues(a, line[k])
    BY <2>5, <2>6, <2>7, NamesAreNotNone DEF Continues
  <2>9. Reading(line)[k] = [name |-> Append(a.name, line[k]), text |-> a.text]
    <3>1. Reading(line)[k] = Read(a, line[k])
      BY <1>2, <2>1 DEF a
    <3> QED BY <2>3, <2>5, <2>8, <3>1, ReadCases DEF DocTypes
  <2>10. Append(SubSeq(line, m, k - 1), line[k]) = SubSeq(line, m, k)
    <3>1. SubSeq(line, m, k) = SubSeq(line, m, k - 1) \o <<line[k]>>
      <4>1. line \in Seq(Symbols) /\ m \in 1..Len(line) /\ k \in m..Len(line)
        BY <1>1, <2>1
      <4> QED BY ONLY <4>1, SubSeqRecursiveSecond
    <3>2. Append(a.name, line[k]) = a.name \o <<line[k]>>
      BY ONLY <2>5, <2>6, AppendIsConcat
    <3> QED BY ONLY <2>4, <3>1, <3>2
  <2> QED BY <2>1, <2>4, <2>9, <2>10 DEF S
<1>5. \A n \in 0..e - m : n \in S
  <2> HIDE DEF S, e
  <2>1. e - m \in Nat
    BY <1>1
  <2> QED BY <1>3, <1>4, <2>1, Upward
<1>6. e - m \in 0..e - m /\ m - 1 + (e - m) = e - 1
  BY <1>1
<1>7. e - m \in S
  BY <1>5, <1>6
<1> QED BY <1>6, <1>7

-----------------------------------------------------------------------------
(* The inductive invariant. *)

LEMMA DocInitially == DocInit => DocIInv
<1> SUFFICES ASSUME DocInit PROVE DocIInv
  OBVIOUS
<1> QED BY DEF DocInit, DocIInv, DocTypes, DocWritten

(* The text of a line, and the symbol in front of the scan. *)
LEMMA ScanStands ==
  ASSUME DocIInv, phase = "scan"
  PROVE  /\ Len(line) \in Nat /\ i - 1 \in 0..Len(line)
         /\ \A k \in 0..Len(line) : Reading(line)[k] \in States
         /\ \A k \in 1..Len(line) : line[k] \in Symbols
         /\ i <= Len(line) => Reading(line)[i] = Read(Reading(line)[i - 1], line[i])
         /\ AtDollar => Reading(line)[i] = [name |-> <<>>, text |-> out]
<1>1. Len(line) \in Nat /\ i - 1 \in 0..Len(line) /\ \A k \in 1..Len(line) : line[k] \in Symbols
  BY DEF DocIInv, DocTypes
<1>2. \A k \in 0..Len(line) : Reading(line)[k] \in States
  BY ReadingStep DEF DocIInv, DocTypes
<1>3. ASSUME i <= Len(line) PROVE Reading(line)[i] = Read(Reading(line)[i - 1], line[i])
  <2>1. i \in 1..Len(line)
    BY <1>3 DEF DocIInv, DocTypes
  <2> QED BY <2>1, ReadingStep DEF DocIInv, DocTypes
<1>4. ASSUME AtDollar PROVE Reading(line)[i] = [name |-> <<>>, text |-> out]
  <2>1. i \in 1..Len(line) /\ line[i] = "$"
    BY <1>4 DEF AtDollar, DocIInv, DocTypes
  <2>2. Reading(line)[i - 1] \in States /\ line[i] \in Symbols
    BY <1>1, <1>2, <2>1
  <2>3. Reading(line)[i] = [name |-> <<>>, text |-> Close(Reading(line)[i - 1]).text]
    BY <1>3, <2>1, <2>2, ReadCases DEF DocIInv, DocTypes
  <2> QED BY <2>3 DEF DocIInv, DocWritten, AtDollar
<1> QED BY <1>1, <1>2, <1>3, <1>4

(* A step of the scan hands out what has been read up to where it stands.  *)
LEMMA FragmentGoesOut ==
  ASSUME DocIInv, phase = "scan", NEW frag \in Seq(Symbols), NEW n \in Nat,
         Fragment(frag, n), i + n <= Len(line) + 1,
         out \o frag = Close(Reading(line)[i + n - 1]).text,
         NothingOpen(Reading(line)[i + n - 1], i + n)
  PROVE  DocIInv'
<1>1. /\ UNCHANGED <<env, line, phase, qt, doc, typedLines, delim, quoted>>
      /\ out' = out \o frag /\ i' = i + n
  BY DEF Fragment, word
<1>2. i + n \in 1..Len(line) + 1 /\ out \o frag \in Seq(Symbols)
  <2>1. i \in 1..Len(line) + 1 /\ Len(line) \in Nat /\ out \in Seq(Symbols)
    BY DEF DocIInv, DocTypes
  <2>2. i + n \in 1..Len(line) + 1
    BY <2>1
  <2>3. out \o frag \in Seq(Symbols)
    BY <2>1, ConcatProperties
  <2> QED BY <2>2, <2>3
<1>3. DocTypes'
  BY <1>1, <1>2 DEF DocIInv, DocTypes
<1>4. /\ \A l : Reading(l)' = Reading(l) /\ Text(l)' = Text(l)
      /\ \A a : Close(a)' = Close(a)
  BY <1>1, ReadingKept
<1>5. (out = Close(Reading(line)[i - 1]).text /\ NothingOpen(Reading(line)[i - 1], i))'
  <2>1. Reading(line)' = Reading(line)
    BY <1>1, <1>4
  <2>2. (Reading(line)[i - 1])' = Reading(line)[i + n - 1]
    <3>1. i' - 1 = i + n - 1
      <4>1. i' = i + n /\ i \in Nat /\ n \in Nat
        BY <1>1 DEF DocIInv, DocTypes
      <4> QED BY ONLY <4>1
    <3>2. (Reading(line)[i - 1])' = Reading(line)'[i' - 1]
      OBVIOUS
    <3> QED BY <2>1, <3>1, <3>2
  <2>3. Close(Reading(line)[i - 1])' = Close(Reading(line)[i + n - 1])
    BY <1>4, <2>2
  <2>4. NothingOpen(Reading(line)[i - 1], i)'
    BY <1>1, <2>2 DEF NothingOpen
  <2> QED BY <1>1, <2>3, <2>4
<1>6. (\A k \in 1..Len(typedLines) - 1 : Text(typedLines[k]) = Text(typedLines[k])')
  BY <1>1, <1>4
<1>7. DocWritten'
  BY <1>1, <1>5, <1>6 DEF DocIInv, DocWritten
<1> QED BY <1>3, <1>7 DEF DocIInv

LEMMA ScanStep ==
  ASSUME DocIInv, CopySymbol \/ ExpandStatus \/ DropDigit \/ LoneDollar \/ ExpandName
  PROVE  DocIInv'
<1>1. phase = "scan" /\ i \in 1..Len(line) /\ env \in Environments
  BY DEF CopySymbol, ExpandStatus, DropDigit, LoneDollar, ExpandName, AtDollar, DocIInv, DocTypes
<1> DEFINE R == Reading(line)
<1>2. /\ Len(line) \in Nat /\ out = Close(R[i - 1]).text /\ NothingOpen(R[i - 1], i)
      /\ \A k \in 0..Len(line) : R[k] \in States
      /\ \A k \in 1..Len(line) : line[k] \in Symbols /\ R[k] = Read(R[k - 1], line[k])
      /\ out \in Seq(Symbols)
  BY <1>1, ScanStands, ReadingStep DEF DocIInv, DocTypes, DocWritten
<1>3. ASSUME AtDollar PROVE R[i] = [name |-> <<>>, text |-> out]
  BY <1>1, <1>3, ScanStands
<1> HIDE DEF R
<1>4. CASE CopySymbol
  <2>1. line[i] # "$" /\ Fragment(<<line[i]>>, 1) /\ line[i] \in Symbols
    BY <1>1, <1>2, <1>4 DEF CopySymbol
  <2>2. i - 1 \in 0..Len(line) /\ i + 1 - 1 = i
    BY <1>1, <1>2
  <2>3. R[i] = [name |-> NoName, text |-> Append(Close(R[i - 1]).text, line[i])]
    <3>1. R[i] = Read(R[i - 1], line[i]) /\ R[i - 1] \in States
      BY <1>1, <1>2, <2>2
    <3>2. R[i - 1].name # NoName =>
            line[i] \notin NameChars \cup (IF R[i - 1].name = <<>> THEN {"?"} ELSE {})
      BY <1>1, <1>2 DEF NothingOpen
    <3> QED BY <1>1, <1>2, <2>1, <3>1, <3>2, ReadCases
  <2>4. Close(R[i]).text = out \o <<line[i]>> /\ R[i].name = NoName
    <3>1. R[i].name = NoName /\ R[i].text = Append(out, line[i])
      BY <1>2, <2>3
    <3>2. Append(out, line[i]) = out \o <<line[i]>>
      BY <1>2, <2>1, AppendIsConcat
    <3> QED BY <3>1, <3>2 DEF Close
  <2>5. NothingOpen(R[i + 1 - 1], i + 1)
    BY <2>2, <2>4 DEF NothingOpen
  <2>6. <<line[i]>> \in Seq(Symbols) /\ i + 1 <= Len(line) + 1
    BY <1>1, <1>2, <2>1
  <2> QED BY <1>1, <2>1, <2>2, <2>4, <2>5, <2>6, FragmentGoesOut DEF R
<1>5. CASE ExpandStatus \/ DropDigit
  <2> DEFINE frag == IF line[i + 1] = "?" THEN Status ELSE <<>>
  <2>1. /\ AtDollar /\ Fragment(frag, 2) /\ i + 1 \in 1..Len(line)
        /\ line[i + 1] \in {"?", "1"}
    BY <1>1, <1>2, <1>5 DEF ExpandStatus, DropDigit, Next1
  <2>2. R[i + 1] = Read(R[i], line[i + 1]) /\ R[i] \in States /\ line[i + 1] \in Symbols
    <3>1. (i + 1) - 1 = i /\ i \in 0..Len(line)
      BY <1>1, <1>2
    <3> QED BY <1>2, <2>1, <3>1
  <2>3. Status \in Seq(Symbols)
    BY DocumentAssumption DEF DocumentAssumption
  <2>4. R[i].name = <<>> /\ R[i].text = out
    BY <1>3, <2>1
  <2>5. R[i + 1] = [name |-> NoName, text |-> out \o frag]
    <3>1. CASE line[i + 1] = "?"
      BY <1>1, <2>2, <2>4, <3>1, ReadCases
    <3>2. CASE line[i + 1] = "1"
      <4>1. R[i + 1] = [name |-> NoName, text |-> out]
        BY <1>1, <2>2, <2>4, <3>2, ReadCases
      <4>2. out \o <<>> = out
        BY <1>2
      <4> QED BY <3>2, <4>1, <4>2
    <3> QED BY <2>1, <3>1, <3>2
  <2>6. Close(R[i + 1]).text = out \o frag /\ R[i + 1].name = NoName
    <3> HIDE DEF frag
    <3>1. R[i + 1].name = NoName /\ R[i + 1].text = out \o frag
      BY <2>5
    <3> QED BY <3>1 DEF Close
  <2>7. frag \in Seq(Symbols)
    BY <2>3
  <2>8. NothingOpen(R[i + 1], i + 2)
    BY <2>6 DEF NothingOpen
  <2>9. i + 2 - 1 = i + 1 /\ i + 2 <= Len(line) + 1 /\ 2 \in Nat
    BY <1>1, <1>2, <2>1
  <2> HIDE DEF frag
  <2> QED BY <1>1, <2>1, <2>6, <2>7, <2>8, <2>9, FragmentGoesOut DEF R
<1>6. CASE LoneDollar
  <2>1. /\ AtDollar /\ Fragment(<<"$">>, 1)
        /\ i + 1 <= Len(line) => line[i + 1] \notin {"?"} \cup NameChars
    BY <1>1, <1>2, <1>6 DEF LoneDollar, Next1
  <2>2. Close(R[i]).text = out \o <<"$">> /\ R[i].name = <<>>
    <3>1. R[i].name = <<>> /\ R[i].text = out
      BY <1>3, <2>1
    <3> QED BY <3>1, NamesAreNotNone DEF Close
  <2>3. NothingOpen(R[i], i + 1)
    BY <2>1, <2>2 DEF NothingOpen
  <2>4. i + 1 - 1 = i /\ i + 1 <= Len(line) + 1 /\ <<"$">> \in Seq(Symbols)
    BY <1>1, <1>2 DEF Symbols
  <2> QED BY <1>1, <2>1, <2>2, <2>3, <2>4, FragmentGoesOut DEF R
<1>7. CASE ExpandName
  <2> DEFINE e == NameEnd(i + 1)
             name == SubSeq(line, i + 1, e - 1)
  <2>1. /\ AtDollar /\ Fragment(GetEnvValue(name), e - i) /\ i + 1 \in 1..Len(line)
        /\ line[i + 1] = "a"
    BY <1>1, <1>2, <1>7 DEF ExpandName, Next1
  <2>2. /\ e \in i + 1..Len(line) + 1 /\ \A k \in i + 1..e - 1 : line[k] \in NameChars
        /\ e <= Len(line) => line[e] \notin NameChars
    <3>1. i + 1 \in 1..Len(line) + 1 /\ line \in Seq(Symbols)
      BY <1>2, <2>1 DEF DocIInv, DocTypes
    <3> QED BY <3>1, NameEndIsLongest
  <2> HIDE DEF e
  <2>3. e # i + 1
    BY <2>1, <2>2 DEF NameChars
  <2>4. R[e - 1] = [name |-> name, text |-> out]
    <3>1. (i + 1) - 1 = i
      BY <1>1
    <3>2. R[i] = [name |-> <<>>, text |-> out]
      BY <1>3, <2>1
    <3> QED BY <2>1, <3>1, <3>2, NameReading DEF e, R, DocIInv
  <2>5. name \in Seq(NameChars) /\ name # <<>>
    <3>1. i + 1 <= e - 1 /\ i + 1 \in Int /\ e - 1 \in Int /\ (e - 1) - (i + 1) + 1 # 0
      BY <1>1, <2>2, <2>3
    <3>2. name \in Seq(NameChars) /\ Len(name) = (e - 1) - (i + 1) + 1
      BY <2>2, <3>1, SubSeqProperties
    <3> HIDE DEF name
    <3> QED BY <3>1, <3>2
  <2> HIDE DEF name
  <2>6. R[e - 1].name = name /\ R[e - 1].text = out
    BY <2>4
  <2>7. Close(R[e - 1]).text = out \o GetEnvValue(name)
    BY <2>5, <2>6, NamesAreNotNone DEF Close
  <2>8. NothingOpen(R[e - 1], e)
    BY <2>2, <2>5, <2>6 DEF NothingOpen
  <2>9. i + (e - i) = e /\ i + (e - i) - 1 = e - 1 /\ e - i \in Nat /\ e <= Len(line) + 1
    BY <1>1, <1>2, <2>2
  <2>10. GetEnvValue(name) \in Seq(Symbols)
    BY <1>1, DocumentAssumption DEF DocumentAssumption, GetEnvValue
  <2> QED BY <1>1, <2>1, <2>7, <2>8, <2>9, <2>10, FragmentGoesOut DEF R
<1> QED BY <1>4, <1>5, <1>6, <1>7

LEMMA DocStep == DocIInv /\ [DocNext]_docVars => DocIInv'
<1> SUFFICES ASSUME DocIInv, [DocNext]_docVars PROVE DocIInv'
  OBVIOUS
<1>1. ASSUME UNCHANGED env
      PROVE  /\ \A l : Text(l)' = Text(l)
             /\ \A l : Reading(l)' = Reading(l)
             /\ \A a : Close(a)' = Close(a)
  BY <1>1, ReadingKept
<1>2. CASE MarkDelimiter \/ InitRedirectFds
  <2>1. /\ phase \in {"expand", "init"} /\ doc = <<>> /\ typedLines = <<>>
        /\ \/ phase' = "init"
           \/ (phase' = "read" /\ qt' = FALSE)
        /\ UNCHANGED <<env, quoted, line, i, out, doc, typedLines>> /\ qt' \in BOOLEAN
    <3>1. CASE MarkDelimiter
      BY <3>1 DEF MarkDelimiter, DocIInv, DocWritten, DocTypes, word
    <3>2. CASE InitRedirectFds
      BY <3>2 DEF InitRedirectFds, DocIInv, DocWritten, DocTypes, word
    <3> QED BY <1>2, <3>1, <3>2
  <2>2. <<>> = [k \in 1..0 |-> Text(typedLines[k])']
    OBVIOUS
  <2>3. DocTypes'
    BY <2>1 DEF DocIInv, DocTypes
  <2>4. DocWritten'
    BY <2>1, <2>2 DEF DocWritten
  <2> QED BY <2>3, <2>4 DEF DocIInv
<1>3. CASE ReadDocLine
  <2>1. PICK l \in Lines : line' = l /\ typedLines' = Append(typedLines, l)
    BY <1>3 DEF ReadDocLine
  <2>2. l \in Seq(Symbols)
    BY DEF Lines
  <2>3. /\ phase = "read" /\ phase' = "scan" /\ out' = <<>> /\ i' = 1 /\ qt' = FALSE
        /\ UNCHANGED <<env, quoted, doc>>
    BY <1>3 DEF ReadDocLine, DocIInv, DocWritten, word
  <2>4. DocTypes'
    <3>1. typedLines' \in Seq(Seq(Symbols)) /\ i' \in 1..Len(line') + 1
      BY <2>1, <2>2, <2>3 DEF DocIInv, DocTypes
    <3>2. line' \in Seq(Symbols) /\ out' \in Seq(Symbols)
      BY <2>1, <2>2, <2>3
    <3>3. env' \in Environments /\ qt' \in BOOLEAN /\ quoted' \in BOOLEAN /\ doc' \in Seq(Seq(Symbols))
      BY <2>3 DEF DocIInv, DocTypes
    <3> QED BY <2>3, <3>1, <3>2, <3>3 DEF DocTypes
  <2>5. Reading(line)[i - 1]' = Start
    <3>1. Reading(l)[0] = Start /\ Reading(l)' = Reading(l)
      BY <1>1, <2>2, <2>3, ReadingStep DEF DocIInv, DocTypes
    <3> QED BY <2>1, <2>3, <3>1
  <2>6. (out = Close(Reading(line)[i - 1]).text /\ NothingOpen(Reading(line)[i - 1], i))'
    BY <2>3, <2>5 DEF Start, Close, NothingOpen
  <2>7. /\ typedLines' # <<>> /\ typedLines'[Len(typedLines')] = line'
        /\ Len(typedLines') - 1 = Len(typedLines)
        /\ \A k \in 1..Len(typedLines) : typedLines'[k] = typedLines[k]
    <3>1. typedLines \in Seq(Seq(Symbols))
      BY DEF DocIInv, DocTypes
    <3>2. /\ Len(typedLines') = Len(typedLines) + 1 /\ Len(typedLines) \in Nat
          /\ typedLines'[Len(typedLines) + 1] = l
          /\ \A k \in 1..Len(typedLines) : typedLines'[k] = typedLines[k]
      BY <2>1, <2>2, <3>1, AppendProperties
    <3> QED BY <2>1, <3>2
  <2>8. doc' = [k \in 1..Len(typedLines') - 1 |-> Text(typedLines[k])']
    <3>1. \A k \in 1..Len(typedLines) : Text(typedLines[k])' = Text(typedLines[k])
      BY <1>1, <2>3, <2>7
    <3>2. doc = [k \in 1..Len(typedLines) |-> Text(typedLines[k])]
      BY <2>3 DEF DocIInv, DocWritten
    <3> QED BY <2>3, <2>7, <3>1, <3>2
  <2>9. DocWritten'
    <3>1. doc' = [k \in 1..Len(typedLines) - 1 |-> Text(typedLines[k])]'
      BY <2>8
    <3> QED BY <2>3, <2>6, <2>7, <3>1 DEF DocWritten
  <2> QED BY <2>4, <2>9 DEF DocIInv
<1>4. CASE EndOfDocument \/ Ended \/ UNCHANGED docVars
  <2>1. /\ UNCHANGED <<env, quoted, qt, line, i, out, doc, typedLines>>
        /\ phase' = phase \/ (phase = "read" /\ phase' = "done")
    <3>1. CASE EndOfDocument
      <4>1. UNCHANGED word
        BY <3>1 DEF EndOfDocument
      <4> QED BY <3>1, <4>1 DEF EndOfDocument, word
    <3>2. CASE UNCHANGED docVars
      BY <3>2 DEF docVars
    <3> QED BY <1>4, <3>1, <3>2 DEF Ended
  <2>2. DocTypes'
    BY <2>1 DEF DocIInv, DocTypes
  <2>3. DocWritten'
    BY <1>1, <2>1 DEF DocIInv, DocWritten, NothingOpen
  <2> QED BY <2>2, <2>3 DEF DocIInv
<1>5. CASE WriteLine
  <2>1. /\ phase = "write" /\ phase' = "read" /\ doc' = Append(doc, Text(line))
        /\ UNCHANGED <<env, quoted, qt, line, i, out, typedLines>>
    BY <1>5 DEF WriteLine, DocIInv, DocWritten, word
  <2>2. /\ Len(typedLines) \in Nat /\ Len(typedLines) > 0
        /\ typedLines[Len(typedLines)] = line /\ qt = FALSE
        /\ doc = [k \in 1..Len(typedLines) - 1 |-> Text(typedLines[k])]
    BY <2>1 DEF DocIInv, DocTypes, DocWritten
  <2>3. doc' = [k \in 1..Len(typedLines) |-> Text(typedLines[k])]
    <3> DEFINE t(k) == Text(typedLines[k])
               n == Len(typedLines)
    <3>1. Text(line) = t(n)
      BY <2>2
    <3>2. \A k : Text(typedLines[k]) = t(k)
      OBVIOUS
    <3> HIDE DEF t, n
    <3>3. doc = [k \in 1..n - 1 |-> t(k)] /\ n \in Nat /\ n > 0
      BY <2>2, <3>2 DEF n
    <3>4. Append(doc, t(n)) = [k \in 1..n |-> t(k)]
      BY <3>3
    <3> QED BY <2>1, <3>1, <3>2, <3>4 DEF n
  <2>4. DocTypes'
    <3>1. doc' \in Seq(Seq(Symbols))
      BY <1>5 DEF WriteLine, DocIInv, DocTypes
    <3> QED BY <2>1, <3>1 DEF DocIInv, DocTypes
  <2>5. DocWritten'
    BY <1>1, <2>1, <2>2, <2>3 DEF DocWritten
  <2> QED BY <2>4, <2>5 DEF DocIInv
<1>6. CASE LineExpanded
  <2>1. /\ phase = "scan" /\ phase' = "write" /\ i > Len(line)
        /\ UNCHANGED <<env, quoted, qt, line, i, out, doc, typedLines>>
    BY <1>6 DEF LineExpanded, word
  <2>2. out = Text(line)
    <3>1. i - 1 = Len(line)
      <4>1. i \in 1..Len(line) + 1 /\ Len(line) \in Nat
        BY DEF DocIInv, DocTypes
      <4> QED BY <2>1, <4>1
    <3> QED BY <2>1, <3>1 DEF DocIInv, DocWritten, Text
  <2>3. DocTypes'
    BY <2>1 DEF DocIInv, DocTypes
  <2>4. DocWritten'
    BY <1>1, <2>1, <2>2 DEF DocIInv, DocWritten
  <2> QED BY <2>3, <2>4 DEF DocIInv
<1>7. CASE CopySymbol \/ ExpandStatus \/ DropDigit \/ LoneDollar \/ ExpandName
  BY <1>7, ScanStep
<1> QED BY <1>2, <1>3, <1>4, <1>5, <1>6, <1>7 DEF DocNext

(* DocSpec keeps the document as it is read. *)
LEMMA DocInvariance == DocSpec => []DocIInv
  BY DocInitially, DocStep, PTL DEF DocSpec

(* What a here-document holds, whatever its delimiter, its lines and the   *)
(* environment, is the text of the lines before the delimiter.             *)
THEOREM DocumentIsMeant == DocSpec => []DocumentAsMeant
<1>1. DocIInv => DocumentAsMeant
  <2> SUFFICES ASSUME DocIInv PROVE DocumentAsMeant
    OBVIOUS
  <2> DEFINE n == Len(typedLines)
             texts == [k \in 1..n |-> Text(typedLines[k])]
  <2>1. phase \in {"read", "done"} => doc = texts
    BY DEF DocIInv, DocWritten
  <2>2. n \in Nat
    BY DEF DocIInv, DocTypes
  <2>3. Len(texts) = n
    BY <2>2
  <2> QED BY <2>1, <2>3 DEF DocumentAsMeant
<1> QED BY <1>1, DocInvariance, PTL
=============================================================================
