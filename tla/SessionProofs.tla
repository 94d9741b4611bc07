--------------------------- MODULE SessionProofs ----------------------------
(***************************************************************************)
(* The safety properties of Session hold for any exit codes, whatever main *)
(* finds in its uninitialised exit_status, however often Ctrl-C is typed.  *)
(***************************************************************************)
EXTENDS Session, TLAPS

(* There is a foreground child from the fork to the end of waitpid, and    *)
(* exit_status is 0 meanwhile.                                             *)
ChildInv ==
  /\ child # "none" <=> pc \in {"forked", "wait", "eintr"}
  /\ child # "none" => local = 0

(* Each child left behind has cost a Ctrl-C, as has a waitpid that failed  *)
(* and is about to leave one; both need the here-document handler, and     *)
(* that a line that starts with <<.                                        *)
OrphanInv ==
  /\ live + zombies + (IF pc = "eintr" THEN 1 ELSE 0) <= ints
  /\ live + zombies > 0 \/ disp = "heredoc" => given
  /\ pc = "eintr" => disp = "heredoc"

(* SIGINT is ignored only after a pipeline; a child ignores it only when   *)
(* the shell did at the fork.                                              *)
SignalInv ==
  /\ disp = "ignored" => piped
  /\ child \in {"setup", "blocked"} => childSig \in {"shell", "ignored"}
  /\ child = "running" => childSig \in {"default", "own", "ignored"}
  /\ child \in {"setup", "blocked", "running"} /\ childSig = "ignored" => piped

(* $? holds garbage only after exit_status has, and until the next command *)
(* has run or an interrupt overwrites it.                                  *)
GarbageInv ==
  glb = Garbage =>
    /\ piped
    /\ pc \in {"prompt", "redirect", "execute"} => local = Garbage

IInv == TypeOK /\ ChildInv /\ OrphanInv /\ SignalInv /\ GarbageInv

-----------------------------------------------------------------------------
(* A wait status decodes to a status of one byte. *)
LEMMA DecodeType == \A s \in RawStatuses : Decode(s) \in 0..255
<1>1. \A c \in 0..255 : Decode(c * 256) \in 0..255
  BY DEF Decode
<1>2. \A s \in 1..64 : Decode(s) \in 0..255 /\ Decode(s + 128) \in 0..255
  BY DEF Decode
<1>3. \A s \in Signals \cup {SIGINT} : s \in 1..64
  BY SessionAssumption DEF SIGINT
<1> SUFFICES ASSUME NEW s \in RawStatuses PROVE Decode(s) \in 0..255
  OBVIOUS
<1>4. CASE \E c \in 0..255 : s = c * 256
  BY <1>1, <1>4
<1>5. CASE \E t \in Signals \cup {SIGINT} : s \in {t, t + 128}
  <2>1. PICK t \in 1..64 : s = t \/ s = t + 128
    BY <1>3, <1>5
  <2> QED BY <1>2, <2>1
<1> QED BY <1>4, <1>5 DEF RawStatuses

(* The wait statuses that Session itself writes. *)
LEMMA StatusType ==
  /\ 0 \in RawStatuses /\ SIGINT \in RawStatuses
  /\ \A c \in 0..255 : c * 256 \in RawStatuses
  /\ \A s \in Signals : {s, s + 128} \subseteq RawStatuses
<1>1. 0 = 0 * 256 OBVIOUS
<1> QED BY <1>1 DEF RawStatuses

(* What exit passes on of an int is a byte. *)
LEMMA Low8Type ==
  \A v \in RawStatuses \cup 0..255 \cup {Garbage} : Low8(v) \in 0..255 \cup {Garbage}
<1> SUFFICES ASSUME NEW v \in RawStatuses \cup 0..255 PROVE v % 256 \in 0..255
  BY DEF Low8
<1>1. v \in Nat
  <2>1. \A s \in Signals \cup {SIGINT} : s \in Nat /\ s + 128 \in Nat
    BY SessionAssumption DEF SIGINT
  <2> QED BY <2>1 DEF RawStatuses
<1> QED BY <1>1

(* main starts in the invariant. *)
LEMMA Initially == Init => IInv
<1> SUFFICES ASSUME Init PROVE IInv
  OBVIOUS
<1>1. line \in Lines
  BY DEF Init, Lines, Kinds
<1>2. TypeOK
  <2>1. local \in RawStatuses \cup 0..255 \cup {Garbage} /\ ws \in RawStatuses
    BY StatusType DEF Init
  <2>2. live \in 0..MaxInt /\ zombies \in 0..MaxInt /\ ints \in 0..MaxInt
    BY SessionAssumption DEF Init
  <2>3. piped \in BOOLEAN /\ given \in BOOLEAN
    BY DEF Init
  <2>4. pc = "prompt" /\ disp = "general" /\ glb \in 0..255 /\ child = "none" /\ childSig = "shell"
    BY DEF Init
  <2> QED BY <1>1, <2>1, <2>2, <2>3, <2>4 DEF TypeOK
<1>3. ChildInv /\ OrphanInv /\ SignalInv /\ GarbageInv
  BY SessionAssumption DEF Init, ChildInv, OrphanInv, SignalInv, GarbageInv
<1> QED BY <1>2, <1>3 DEF IInv

(* The bounds of TypeOK and OrphanInv after one more Ctrl-C. *)
LEMMA Counted ==
  \A a, b, l, z, c, m \in Nat :
    a + b <= l + z + 1 /\ l + z <= c /\ c < m =>
      a + b + 0 <= c + 1 /\ a \in 0..m /\ b \in 0..m /\ c + 1 \in 0..m
OBVIOUS

(* A cancelled document leaves at most one child more, at the cost of a    *)
(* Ctrl-C.                                                                 *)
LEMMA CancelStep ==
  ASSUME IInv, CancelHeredoc
  PROVE  IInv'
<1>1. /\ live \in Nat /\ zombies \in Nat /\ ints \in Nat /\ MaxInt \in Nat
      /\ live + zombies <= ints
  BY SessionAssumption DEF IInv, TypeOK, OrphanInv, CancelHeredoc
<1>2. /\ pc \in {"redirect", "blocked"} /\ pc' = "redirect" /\ glb' = 130
      /\ UNCHANGED <<line, disp, local, child, childSig, ws, piped, given>>
  BY DEF CancelHeredoc, childVars, history
<1>3. ints < MaxInt /\ ints' = ints + 1
  BY DEF CancelHeredoc
<1>4. PICK n \in 0..live :
        \/ live' = n /\ zombies' = zombies + live - n
        \/ disp = "heredoc" /\ live' = n /\ zombies' = zombies + live - n + 1
        \/ disp = "heredoc" /\ live' = n + 1 /\ zombies' = zombies + live - n
  BY DEF CancelHeredoc, OrphansLeft
<1>5. live' \in Nat /\ zombies' \in Nat /\ live' + zombies' <= live + zombies + 1
  BY <1>1, <1>4
<1>6. live' + zombies' > 0 => live + zombies > 0 \/ disp = "heredoc"
  BY <1>1, <1>4
<1>7. live' + zombies' + 0 <= ints'
  BY <1>1, <1>3, <1>5, Counted
<1>8. live' \in 0..MaxInt /\ zombies' \in 0..MaxInt /\ ints' \in 0..MaxInt
  BY <1>1, <1>3, <1>5, Counted
<1>9. TypeOK'
  BY <1>2, <1>8 DEF IInv, TypeOK
<1>10. ChildInv' /\ SignalInv'
  BY <1>2 DEF IInv, ChildInv, SignalInv
<1>11. GarbageInv'
  <2>1. 130 # Garbage
    BY SessionAssumption
  <2> QED BY <1>2, <2>1 DEF GarbageInv
<1>12. OrphanInv'
  <2>1. live' + zombies' > 0 \/ disp' = "heredoc" => given'
    BY <1>2, <1>6 DEF IInv, OrphanInv
  <2> QED BY <1>2, <1>7, <2>1 DEF OrphanInv
<1> QED BY <1>9, <1>10, <1>11, <1>12 DEF IInv

(* The steps of main up to the command. *)
LEMMA ReadStep ==
  ASSUME IInv,
         \/ EndOfInput \/ RejectLine \/ BlankLine \/ EndlessLine
         \/ CancelHeredoc \/ HeredocBlocks \/ RedirectionsDone
         \/ \E l \in Lines : AcceptLine(l)
  PROVE  IInv'
<1> USE SessionAssumption
    DEF IInv, TypeOK, ChildInv, OrphanInv, SignalInv, GarbageInv, childVars, orphanVars, history
<1>1. CASE EndOfInput BY <1>1 DEF EndOfInput
<1>2. CASE RejectLine BY <1>2 DEF RejectLine
<1>3. CASE BlankLine BY <1>3 DEF BlankLine
<1>4. CASE CancelHeredoc BY <1>4, CancelStep
<1>5. CASE RedirectionsDone BY <1>5 DEF RedirectionsDone
<1>6. ASSUME NEW l \in Lines, AcceptLine(l) PROVE IInv'
  BY <1>6 DEF AcceptLine
<1>7. CASE EndlessLine BY <1>7 DEF EndlessLine
<1>8. CASE HeredocBlocks BY <1>8 DEF HeredocBlocks
<1> QED BY <1>1, <1>2, <1>3, <1>4, <1>5, <1>6, <1>7, <1>8

(* What execute_pipeline reports is a byte, or the garbage it was given. *)
LEMMA PipelineType ==
  ASSUME IInv, PipelineEnds
  PROVE  local' = glb' /\ glb' \in 0..255 \cup {Garbage}
<1>1. PICK c \in PipelineStatuses : local' = c /\ glb' = c
  BY DEF PipelineEnds
<1>2. local \in RawStatuses \cup 0..255 \cup {Garbage}
  BY DEF IInv, TypeOK
<1>3. c \in 0..255 \cup {Garbage}
  BY <1>1, <1>2, Low8Type, SessionAssumption DEF PipelineStatuses, ShellCodes
<1> QED BY <1>1, <1>3

(* A Ctrl-C that ends a pipeline may end children left behind, and leaves  *)
(* none.                                                                   *)
LEMMA KillStep ==
  ASSUME IInv, KillPipeline
  PROVE  IInv'
<1>1. /\ live \in Nat /\ zombies \in Nat /\ ints \in Nat /\ MaxInt \in Nat
      /\ live + zombies <= ints
  BY SessionAssumption DEF IInv, TypeOK, OrphanInv, KillPipeline
<1>2. /\ pc = "stuck" /\ pc' = "prompt" /\ disp' = "ignored" /\ piped' = TRUE
      /\ UNCHANGED <<line, child, childSig, ws, given>>
  BY DEF KillPipeline, PipelineEnds, childVars
<1>3. ints < MaxInt /\ ints' = ints + 1
  BY DEF KillPipeline
<1>4. PICK n \in 0..live : live' = n /\ zombies' = zombies + live - n
  BY DEF KillPipeline, OrphansLeft
<1>5. live' \in Nat /\ zombies' \in Nat /\ live' + zombies' = live + zombies
      /\ live' + zombies' <= live + zombies + 1
  BY <1>1, <1>4
<1>6. live' + zombies' + 0 <= ints'
  BY <1>1, <1>3, <1>5, Counted
<1>7. live' \in 0..MaxInt /\ zombies' \in 0..MaxInt /\ ints' \in 0..MaxInt
  BY <1>1, <1>3, <1>5, Counted
<1>8. local' = glb' /\ glb' \in 0..255 \cup {Garbage}
  BY PipelineType DEF KillPipeline
<1>9. TypeOK'
  BY <1>2, <1>7, <1>8 DEF IInv, TypeOK
<1>10. ChildInv' /\ SignalInv' /\ GarbageInv'
  BY <1>2, <1>8 DEF IInv, ChildInv, SignalInv, GarbageInv
<1>11. OrphanInv'
  <2>1. live' + zombies' > 0 \/ disp' = "heredoc" => given'
    BY <1>2, <1>5 DEF IInv, OrphanInv
  <2> QED BY <1>2, <1>6, <2>1 DEF OrphanInv
<1> QED BY <1>9, <1>10, <1>11 DEF IInv

(* The steps of main that run the command. *)
LEMMA RunStep ==
  ASSUME IInv,
         \/ RunPipeline \/ PipelineBlocks \/ KillPipeline \/ AbandonPipeline
         \/ ParentBuiltin \/ ExitBuiltin \/ NothingToRun
         \/ Fork \/ ForkFails \/ EnterWait \/ WaitReturns \/ WaitFailed
  PROVE  IInv'
<1> USE SessionAssumption
    DEF IInv, TypeOK, ChildInv, OrphanInv, SignalInv, GarbageInv, childVars, orphanVars, history
<1>0. PipelineEnds => local' = glb' /\ glb' \in 0..255 \cup {Garbage}
  BY PipelineType
<1>1. CASE RunPipeline BY <1>0, <1>1 DEF RunPipeline, PipelineEnds
<1>2. CASE AbandonPipeline BY <1>2 DEF AbandonPipeline
<1>3. CASE ParentBuiltin BY <1>3 DEF ParentBuiltin
<1>4. CASE ExitBuiltin BY <1>4 DEF ExitBuiltin
<1>5. CASE NothingToRun BY <1>5 DEF NothingToRun
<1>6. CASE Fork BY <1>6, StatusType DEF Fork
<1>7. CASE ForkFails BY <1>7 DEF ForkFails
<1>8. CASE EnterWait BY <1>8 DEF EnterWait
<1>9. CASE WaitReturns BY <1>9, DecodeType DEF WaitReturns
<1>10. CASE WaitFailed
  <2>1. glb' \in 0..255
    BY <1>10, DecodeType, StatusType DEF WaitFailed
  <2> QED BY <1>10, <2>1 DEF WaitFailed
<1>11. CASE PipelineBlocks BY <1>11 DEF PipelineBlocks
<1>12. CASE KillPipeline BY <1>12, KillStep
<1> QED BY <1>1, <1>2, <1>3, <1>4, <1>5, <1>6, <1>7, <1>8, <1>9, <1>10, <1>11,
           <1>12

(* The children and Ctrl-C. *)
LEMMA OtherStep ==
  ASSUME IInv,
         \/ ChildExits \/ ChildKilled \/ ChildBlocks \/ Exec
         \/ OrphanEnds \/ Interrupt
  PROVE  IInv'
<1> USE SessionAssumption
    DEF IInv, TypeOK, ChildInv, OrphanInv, SignalInv, GarbageInv, childVars, orphanVars, history
<1>1. CASE ChildExits
  <2>1. PICK c \in Codes \cup ShellCodes : ws' = c * 256
    BY <1>1 DEF ChildExits
  <2>2. ws' \in RawStatuses
    BY <2>1, StatusType DEF ShellCodes
  <2> QED BY <1>1, <2>2 DEF ChildExits
<1>2. CASE Exec BY <1>2 DEF Exec
<1>3. CASE OrphanEnds BY <1>3 DEF OrphanEnds
<1>4. CASE Interrupt
  <2>1. PICK n \in 0..live : live' = n /\ zombies' = zombies + live - n
    BY <1>4 DEF Interrupt, OrphansLeft
  <2>2. TypeOK'
    BY <1>4, <2>1, StatusType DEF Interrupt
  <2>3. OrphanInv'
    BY <1>4, <2>1 DEF Interrupt, InterruptsWait
  <2>4. ChildInv' /\ SignalInv' /\ GarbageInv'
    BY <1>4 DEF Interrupt, InterruptsWait
  <2> QED BY <2>2, <2>3, <2>4
<1>5. CASE ChildKilled
  <2>1. ws' \in RawStatuses
    BY <1>5, StatusType DEF ChildKilled
  <2> QED BY <1>5, <2>1 DEF ChildKilled
<1>6. CASE ChildBlocks BY <1>6 DEF ChildBlocks
<1> QED BY <1>1, <1>2, <1>3, <1>4, <1>5, <1>6

(* Every step keeps the invariant. *)
LEMMA Step == IInv /\ [Next]_vars => IInv'
<1> SUFFICES ASSUME IInv, [Next]_vars PROVE IInv'
  OBVIOUS
<1>1. CASE UNCHANGED vars
  BY <1>1 DEF vars, IInv, TypeOK, ChildInv, OrphanInv, SignalInv, GarbageInv
<1>2. CASE Next
  BY <1>1, <1>2, ReadStep, RunStep, OtherStep DEF Next, Shell, Ended, Blocked
<1> QED BY <1>1, <1>2

(* Hence it always holds. *)
THEOREM Invariance == Spec => []IInv
  BY Initially, Step, PTL DEF Spec

-----------------------------------------------------------------------------
(* Every variable keeps to its values: $? fits in a byte unless it is      *)
(* garbage, and there are never more children left behind than Ctrl-C.     *)
THEOREM TypeCorrect == Spec => []TypeOK
<1>1. IInv => TypeOK BY DEF IInv
<1> QED BY <1>1, Invariance, PTL

(* A shell that was never given a line starting with << leaves no children *)
(* behind, and no shell more than Ctrl-C was typed.                        *)
THEOREM OrphansNeedHeredoc == Spec => []NoOrphanWithoutHeredoc
<1>1. IInv => NoOrphanWithoutHeredoc
  BY DEF IInv, TypeOK, OrphanInv, NoOrphanWithoutHeredoc
<1> QED BY <1>1, Invariance, PTL

(* The uninitialised exit_status reaches $? only through a pipeline. *)
THEOREM GarbageNeedsPipeline == Spec => []GarbageOnlyThroughPipeline
<1>1. IInv => GarbageOnlyThroughPipeline
  BY DEF IInv, GarbageInv, GarbageOnlyThroughPipeline
<1> QED BY <1>1, Invariance, PTL

(* A foreground command that was waited for is reaped and its own code is  *)
(* in $?, unless waitpid ran under the here-document handler.              *)
THEOREM StatusIsTheCommands == Spec => SimpleStatus
<1> DEFINE A == pc' = "prompt" /\ pc \in {"wait", "eintr"} /\ disp # "heredoc" =>
                  child = "dead" /\ glb' = Decode(ws)
<1>1. ASSUME IInv, [Next]_vars PROVE [A]_vars
  <2> SUFFICES ASSUME pc' = "prompt", pc \in {"wait", "eintr"}, disp # "heredoc"
               PROVE  child = "dead" /\ glb' = Decode(ws)
    OBVIOUS
  <2>1. pc = "wait"
    BY <1>1 DEF IInv, OrphanInv
  <2>2. WaitReturns
    BY <1>1, <2>1
    DEF Next, Shell, vars, EndOfInput, RejectLine, BlankLine, AcceptLine,
        EndlessLine, RedirectionsDone, HeredocBlocks, CancelHeredoc,
        RunPipeline, PipelineBlocks, KillPipeline, PipelineEnds, AbandonPipeline,
        ParentBuiltin, ExitBuiltin, NothingToRun, Fork, ForkFails, EnterWait,
        WaitFailed, ChildExits, ChildKilled, ChildBlocks, Exec, OrphanEnds,
        Interrupt, Ended, Blocked
  <2> QED BY <2>2 DEF WaitReturns
<1>2. Spec => [][A]_vars
  BY <1>1, Invariance, PTL DEF Spec
<1> QED BY <1>2 DEF SimpleStatus

(* Until a pipeline has run, Ctrl-C kills the program in the foreground    *)
(* unless the program asked for SIGINT itself.                             *)
THEOREM InterruptKills == Spec => CtrlCKills
<1> DEFINE A == ints' > ints /\ child = "running" /\ childSig # "own" /\ ~piped =>
                  child' = "dead"
<1>1. ASSUME IInv, [Next]_vars PROVE [A]_vars
  <2> SUFFICES ASSUME ints' > ints, child = "running", childSig # "own", ~piped
               PROVE  child' = "dead"
    OBVIOUS
  <2>1. childSig = "default" /\ pc \notin {"redirect", "blocked", "stuck"}
    BY <1>1 DEF IInv, SignalInv, ChildInv
  <2>2. Interrupt
    BY <1>1, <2>1
    DEF IInv, TypeOK, Next, Shell, vars, EndOfInput, RejectLine, BlankLine, AcceptLine,
        EndlessLine, RedirectionsDone, HeredocBlocks, CancelHeredoc,
        RunPipeline, PipelineBlocks, KillPipeline, PipelineEnds, AbandonPipeline,
        ParentBuiltin, ExitBuiltin, NothingToRun, Fork, ForkFails, EnterWait,
        WaitReturns, WaitFailed, ChildExits, ChildKilled, ChildBlocks, Exec,
        OrphanEnds, Ended, Blocked
  <2> QED BY <2>1, <2>2 DEF Interrupt
<1>2. Spec => [][A]_vars
  BY <1>1, Invariance, PTL DEF Spec
<1> QED BY <1>2 DEF CtrlCKills
=============================================================================
