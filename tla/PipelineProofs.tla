-------------------------- MODULE PipelineProofs ---------------------------
(***************************************************************************)
(* Proofs about Pipeline for every number of segments, capacity, set of    *)
(* codes and set of faults.  IInv strengthens the safety properties to an  *)
(* inductive invariant: it says which pipe ends every process has at each  *)
(* point of its setup.                                                     *)
(***************************************************************************)
EXTENDS Pipeline, TLAPS

(* The shell's pipe ends at each point of execute_pipeline. *)
ShellInv ==
  /\ pc = "create" => idx \in 0 .. NSeg - 1 /\ shell = 0 .. idx - 1
  /\ pc \in {"spawn", "ignore"} => shell = Pipes
  /\ pc = "close" => idx \in 0 .. NSeg - 1 /\ shell = idx .. NSeg - 2
  /\ pc \in {"wait", "done", "abandoned"} => shell = {}

(* Which segments have been given to fork. *)
SpawnInv ==
  \A i \in Segs :
    st[i] = "none" <=> \/ pc \in {"create", "abandoned"}
                       \/ pc = "spawn" /\ i >= idx

(* The pipe ends of child i at each point of setup_child_pipes. *)
OutEnd(i) == IF i < NSeg - 1 THEN i ELSE NoPipe
EndsOf(i) ==
  /\ st[i] \in {"none", "nofork", "dead", "reaped"} =>
       held[i] = {} /\ stdin[i] = NoPipe /\ stdout[i] = NoPipe
  /\ st[i] \in {"none", "nofork", "dupin", "dupout"} => j[i] = 0
  /\ st[i] = "dupin" =>
       held[i] = Pipes /\ stdin[i] = NoPipe /\ stdout[i] = NoPipe
  /\ st[i] = "dupout" =>
       held[i] = Pipes /\ stdin[i] = i - 1 /\ stdout[i] = NoPipe
  /\ st[i] = "closing" =>
       held[i] = j[i] .. NSeg - 2 /\ stdin[i] = i - 1 /\ stdout[i] = OutEnd(i)
  /\ st[i] \in {"signals", "redirect"} =>
       held[i] = {} /\ stdin[i] = i - 1 /\ stdout[i] = OutEnd(i)
  /\ st[i] \in {"exec", "run"} =>
       /\ held[i] = {}
       /\ stdin[i] \in {i - 1, NoPipe} /\ stdout[i] \in {OutEnd(i), NoPipe}
EndsInv == \A i \in Segs : EndsOf(i)

(* end-of-file is only ever told to a program. *)
EofInv ==
  /\ \A i \in Segs : eof[i] => st[i] \in {"run", "dead", "reaped"}
  /\ EofMeansUpstreamGone

(* What wait_children has collected so far. *)
WaitInv ==
  /\ pc = "wait" =>
       /\ \A i \in Segs : i < idx => st[i] \in {"nofork", "reaped"}
       /\ last = IF idx = NSeg /\ st[NSeg - 1] = "reaped"
                   THEN status[NSeg - 1] ELSE 0
  /\ ReportedStatus

IInv ==
  /\ TypeOK
  /\ ShellInv /\ SpawnInv /\ EndsInv
  /\ EofInv /\ SigpipeMeansReaderGone /\ WaitInv

LEMMA InitIInv == Init => IInv
  BY PipelineAssumption
  DEF Init, IInv, TypeOK, ShellInv, SpawnInv, EndsInv, EndsOf,
      EofInv, WaitInv,
      EofMeansUpstreamGone, SigpipeMeansReaderGone, ReportedStatus,
      ShellStates, ChildStates, Segs, Pipes, NoPipe, OutEnd, Signaled

-----------------------------------------------------------------------------
(* Type correctness. *)
LEMMA IdxIsSegment == TypeOK /\ idx < NSeg => idx \in Segs
  BY PipelineAssumption DEF TypeOK, Segs

LEMMA ShellTypes == TypeOK /\ Shell => TypeOK'
<1> SUFFICES ASSUME TypeOK, Shell PROVE TypeOK'
  OBVIOUS
<1> USE PipelineAssumption DEF TypeOK, ShellStates, ChildStates, childVars, progVars
<1>1. CASE CreatePipe BY <1>1 DEF CreatePipe, Pipes
<1>2. CASE CreatePipeFails BY <1>2 DEF CreatePipeFails
<1>3. CASE CreateDone BY <1>3 DEF CreateDone
<1>4. CASE SpawnChild BY <1>4, IdxIsSegment DEF SpawnChild
<1>5. CASE SpawnFails BY <1>5, IdxIsSegment DEF SpawnFails
<1>6. CASE SpawnDone BY <1>6 DEF SpawnDone
<1>7. CASE IgnoreSignals BY <1>7 DEF IgnoreSignals
<1>8. CASE ClosePipe BY <1>8 DEF ClosePipe
<1>9. CASE CloseDone BY <1>9 DEF CloseDone
<1>10. CASE WaitChild BY <1>10, IdxIsSegment DEF WaitChild
<1>11. CASE SkipUnforked BY <1>11 DEF SkipUnforked
<1>12. CASE SaveStatus BY <1>12 DEF SaveStatus, ExtractExitStatus
<1> QED BY <1>1, <1>2, <1>3, <1>4, <1>5, <1>6, <1>7, <1>8, <1>9, <1>10,
           <1>11, <1>12 DEF Shell

LEMMA DieTypes ==
  ASSUME TypeOK, NEW i \in Segs, NEW ws \in Nat, ws < 65536, Die(i, ws)
  PROVE  TypeOK'
  BY DEF TypeOK, Die, shellVars, progVars, ChildStates, NoPipe

LEMMA SetupTypes == ASSUME TypeOK, NEW i \in Segs, Setup(i) PROVE TypeOK'
<1> USE PipelineAssumption DEF TypeOK, ChildStates, shellVars, progVars
<1>1. CASE DupIn(i) BY <1>1 DEF DupIn, NoPipe
<1>2. CASE DupOut(i) BY <1>2 DEF DupOut, NoPipe
<1>3. CASE DupFails(i) BY <1>3, DieTypes DEF DupFails, Exited
<1>4. CASE CloseInherited(i) BY <1>4 DEF CloseInherited
<1>5. CASE CloseInheritedDone(i) BY <1>5 DEF CloseInheritedDone
<1>6. CASE DefaultSignals(i) BY <1>6 DEF DefaultSignals
<1>7. CASE Redirect(i)
  <2>1. ASSUME NEW ws \in {Exited(1), Signaled(SIGSEGV)}, Die(i, ws) PROVE TypeOK'
    BY <2>1, DieTypes DEF Exited, Signaled, SIGSEGV
  <2>2. CASE ~\E ws \in {Exited(1), Signaled(SIGSEGV)} : Die(i, ws)
    BY <1>7, <2>2 DEF Redirect, NoPipe
  <2> QED BY <2>1, <2>2
<1>8. CASE Exec(i)
  <2>1. ASSUME NEW code \in {0, 1, 126, 127}, Die(i, Exited(code)) PROVE TypeOK'
    BY <2>1, DieTypes DEF Exited
  <2>2. ASSUME NEW n \in 0..MaxOut,
               todo' = [todo EXCEPT ![i] = n],
               st' = [st EXCEPT ![i] = "run"],
               UNCHANGED <<shellVars, held, j, stdin, stdout, status,
                           buf, eof, ints>>
        PROVE TypeOK'
    BY <2>2
  <2> QED BY <1>8, <2>1, <2>2 DEF Exec
<1> QED BY <1>1, <1>2, <1>3, <1>4, <1>5, <1>6, <1>7, <1>8 DEF Setup

LEMMA ProgramTypes ==
  ASSUME TypeOK, NEW i \in Segs, Program(i) \/ Quit(i) PROVE TypeOK'
<1> USE PipelineAssumption DEF TypeOK, ChildStates, shellVars, childVars
<1>1. CASE Read(i) BY <1>1 DEF Read, ReadsPipe, NoPipe
<1>2. CASE ReadEof(i) BY <1>2 DEF ReadEof
<1>3. CASE Write(i) BY <1>3 DEF Write, WritesPipe, NoPipe
<1>4. CASE WriteBroken(i) BY <1>4, DieTypes DEF WriteBroken, Signaled, SIGPIPE
<1>5. ASSUME NEW code \in Codes, Die(i, Exited(code)) PROVE TypeOK'
  BY <1>5, DieTypes DEF Exited
<1>6. CASE Finish(i) BY <1>5, <1>6 DEF Finish
<1>7. CASE Quit(i) BY <1>5, <1>7 DEF Quit
<1> QED BY <1>1, <1>2, <1>3, <1>4, <1>6, <1>7 DEF Program

LEMMA InterruptTypes == TypeOK /\ Interrupt => TypeOK'
  BY PipelineAssumption
  DEF TypeOK, Interrupt, ChildStates, progVars, Signaled, SIGINT, NoPipe

LEMMA NextTypes == TypeOK /\ [Next]_vars => TypeOK'
<1> SUFFICES ASSUME TypeOK, [Next]_vars PROVE TypeOK'
  OBVIOUS
<1>1. CASE UNCHANGED vars BY <1>1 DEF vars, TypeOK
<1>2. CASE Terminated BY <1>1, <1>2 DEF Terminated
<1> QED BY <1>1, <1>2, ShellTypes, SetupTypes, ProgramTypes, InterruptTypes
        DEF Next

-----------------------------------------------------------------------------
(* The children never move the shell. *)
LEMMA ChildFrame ==
  ASSUME NEW i \in Segs, Setup(i) \/ Program(i) \/ Quit(i)
  PROVE  UNCHANGED shellVars
  BY DEF Setup, Program, DupIn, DupOut, DupFails, CloseInherited,
         CloseInheritedDone, DefaultSignals, Redirect, Exec, Read, ReadEof,
         Write, WriteBroken, Finish, Quit, Die

LEMMA NextShellInv == TypeOK /\ ShellInv /\ [Next]_vars => ShellInv'
<1> SUFFICES ASSUME TypeOK, ShellInv, [Next]_vars PROVE ShellInv'
  OBVIOUS
<1> USE PipelineAssumption DEF ShellInv
<1>1. ASSUME UNCHANGED <<pc, idx, shell>> PROVE ShellInv'
  BY <1>1
<1>2. CASE UNCHANGED vars \/ Terminated \/ Interrupt
  BY <1>1, <1>2 DEF vars, Terminated, Interrupt
<1>3. ASSUME NEW i \in Segs, Setup(i) \/ Program(i) \/ Quit(i) PROVE ShellInv'
  BY <1>1, <1>3, ChildFrame DEF shellVars
<1>4. CASE Shell
  <2>1. CASE CreatePipe BY <2>1 DEF CreatePipe, TypeOK
  <2>2. CASE CreatePipeFails BY <2>2 DEF CreatePipeFails
  <2>3. CASE CreateDone BY <2>3 DEF CreateDone, Pipes
  <2>4. CASE SpawnChild \/ SpawnFails BY <2>4 DEF SpawnChild, SpawnFails
  <2>5. CASE SpawnDone BY <2>5 DEF SpawnDone
  <2>6. CASE IgnoreSignals BY <2>6 DEF IgnoreSignals, Pipes
  <2>7. CASE ClosePipe BY <2>7 DEF ClosePipe, TypeOK
  <2>8. CASE CloseDone BY <2>8 DEF CloseDone
  <2>9. CASE WaitChild \/ SkipUnforked BY <2>9 DEF WaitChild, SkipUnforked
  <2>10. CASE SaveStatus BY <2>10 DEF SaveStatus
  <2> QED BY <1>4, <2>1, <2>2, <2>3, <2>4, <2>5, <2>6, <2>7, <2>8, <2>9, <2>10
          DEF Shell
<1> QED BY <1>2, <1>3, <1>4 DEF Next

-----------------------------------------------------------------------------
(* A child that exists stays; whoever ended does not change any more. *)
Gone == {"nofork", "exec", "run", "dead", "reaped"}
Ended == {"dead", "reaped"}

Advances(i) ==
  /\ st[i] # "none" => st'[i] # "none"
  /\ st[i] \in Gone => st'[i] \in Gone
  /\ st[i] \in {"nofork", "reaped"} => st'[i] = st[i]
  /\ st[i] \in Ended => st'[i] \in Ended /\ status'[i] = status[i]
  /\ st[i] \in {"run"} \cup Ended => st'[i] \in {"run"} \cup Ended

LEMMA DieAdvances ==
  ASSUME TypeOK, NEW i \in Segs, NEW ws, Die(i, ws), st[i] \in Alive,
         NEW k \in Segs
  PROVE  Advances(k)
  BY DEF TypeOK, Die, Advances, Gone, Ended, Alive

LEMMA SetupAdvances ==
  ASSUME TypeOK, NEW i \in Segs, Setup(i), NEW k \in Segs PROVE Advances(k)
<1> USE DEF TypeOK, Advances, Gone, Ended
<1>1. CASE DupIn(i) BY <1>1 DEF DupIn
<1>2. CASE DupOut(i) BY <1>2 DEF DupOut
<1>3. CASE DupFails(i) BY <1>3, DieAdvances DEF DupFails, Alive
<1>4. CASE CloseInherited(i) BY <1>4 DEF CloseInherited
<1>5. CASE CloseInheritedDone(i) BY <1>5 DEF CloseInheritedDone
<1>6. CASE DefaultSignals(i) BY <1>6 DEF DefaultSignals
<1>7. CASE Redirect(i)
  <2>1. ASSUME NEW ws \in {Exited(1), Signaled(SIGSEGV)}, Die(i, ws)
        PROVE  Advances(k)
    BY <1>7, <2>1, DieAdvances DEF Redirect, Alive
  <2>2. CASE ~\E ws \in {Exited(1), Signaled(SIGSEGV)} : Die(i, ws)
    BY <1>7, <2>2 DEF Redirect
  <2> QED BY <2>1, <2>2
<1>8. CASE Exec(i)
  <2>1. ASSUME NEW code \in {0, 1, 126, 127}, Die(i, Exited(code))
        PROVE Advances(k)
    BY <1>8, <2>1, DieAdvances DEF Exec, Alive
  <2>2. ASSUME st' = [st EXCEPT ![i] = "run"], UNCHANGED status
        PROVE Advances(k)
    BY <1>8, <2>2 DEF Exec
  <2> QED BY <1>8, <2>1, <2>2 DEF Exec
<1> QED BY <1>1, <1>2, <1>3, <1>4, <1>5, <1>6, <1>7, <1>8 DEF Setup

LEMMA ProgramAdvances ==
  ASSUME TypeOK, NEW i \in Segs, Program(i) \/ Quit(i), NEW k \in Segs
  PROVE  Advances(k)
<1>1. CASE Read(i) \/ ReadEof(i) \/ Write(i)
  BY <1>1 DEF Read, ReadEof, Write, childVars, Advances
<1>2. CASE WriteBroken(i) BY <1>2, DieAdvances DEF WriteBroken, Alive
<1>3. CASE Finish(i) BY <1>3, DieAdvances DEF Finish, Alive
<1>4. CASE Quit(i) BY <1>4, DieAdvances DEF Quit, Alive
<1> QED BY <1>1, <1>2, <1>3, <1>4 DEF Program

LEMMA ShellAdvances ==
  ASSUME TypeOK, SpawnInv, Shell, NEW k \in Segs PROVE Advances(k)
<1> USE DEF TypeOK, Advances, Gone, Ended
<1>1. CASE SpawnChild \/ SpawnFails
  <2>1. idx \in Segs /\ st[idx] = "none"
    BY <1>1, IdxIsSegment, PipelineAssumption
    DEF SpawnChild, SpawnFails, SpawnInv, Segs
  <2> QED BY <1>1, <2>1 DEF SpawnChild, SpawnFails
<1>2. CASE WaitChild BY <1>2, IdxIsSegment DEF WaitChild
<1>3. CASE ~(SpawnChild \/ SpawnFails \/ WaitChild)
  BY <1>3
  DEF Shell, CreatePipe, CreatePipeFails, CreateDone, SpawnDone, IgnoreSignals,
      ClosePipe, CloseDone, SkipUnforked, SaveStatus, childVars
<1> QED BY <1>1, <1>2, <1>3

LEMMA InterruptAdvances ==
  ASSUME TypeOK, Interrupt, NEW k \in Segs PROVE Advances(k)
  BY DEF TypeOK, Interrupt, Advances, Gone, Ended

LEMMA NextAdvances ==
  ASSUME TypeOK, SpawnInv, [Next]_vars, NEW k \in Segs PROVE Advances(k)
<1>1. CASE UNCHANGED vars \/ Terminated
  BY <1>1 DEF Terminated, vars, Advances
<1> QED BY <1>1, SetupAdvances, ProgramAdvances, ShellAdvances,
           InterruptAdvances DEF Next

LEMMA OthersKeepState ==
  ASSUME TypeOK, NEW i \in Segs, Setup(i) \/ Program(i) \/ Quit(i),
         NEW k \in Segs, k # i
  PROVE  st'[k] = st[k]
<1> USE DEF TypeOK
<1>1. ASSUME NEW ws, Die(i, ws) PROVE st'[k] = st[k]
  BY <1>1 DEF Die
<1>2. CASE DupIn(i) \/ DupOut(i) BY <1>2 DEF DupIn, DupOut
<1>3. CASE CloseInherited(i) \/ CloseInheritedDone(i) \/ DefaultSignals(i)
  BY <1>3 DEF CloseInherited, CloseInheritedDone, DefaultSignals
<1>4. CASE Redirect(i) BY <1>1, <1>4 DEF Redirect
<1>5. CASE Exec(i) BY <1>1, <1>5 DEF Exec
<1>6. CASE Read(i) \/ ReadEof(i) \/ Write(i)
  BY <1>6 DEF Read, ReadEof, Write, childVars
<1>7. CASE DupFails(i) \/ WriteBroken(i) \/ Finish(i) \/ Quit(i)
  BY <1>1, <1>7 DEF DupFails, WriteBroken, Finish, Quit
<1> QED BY <1>2, <1>3, <1>4, <1>5, <1>6, <1>7 DEF Setup, Program

LEMMA NextSpawnInv ==
  TypeOK /\ ShellInv /\ SpawnInv /\ [Next]_vars => SpawnInv'
<1> SUFFICES ASSUME TypeOK, ShellInv, SpawnInv, [Next]_vars, NEW k \in Segs
             PROVE  (st[k] = "none" <=> \/ pc \in {"create", "abandoned"}
                                        \/ pc = "spawn" /\ k >= idx)'
  BY DEF SpawnInv
<1> DEFINE Unspawned == pc \in {"create", "abandoned"} \/ (pc = "spawn" /\ k >= idx)
<1>0. st[k] = "none" <=> Unspawned
  BY DEF SpawnInv
<1> USE PipelineAssumption
<1>1. ASSUME UNCHANGED <<pc, idx>>, st[k] = "none" => st'[k] = "none"
      PROVE  st'[k] = "none" <=> Unspawned'
  BY <1>0, <1>1, NextAdvances DEF Advances
<1>2. CASE UNCHANGED vars \/ Terminated BY <1>1, <1>2 DEF vars, Terminated
<1>3. CASE Interrupt BY <1>1, <1>3 DEF Interrupt, TypeOK
<1>4. ASSUME NEW i \in Segs, Setup(i) \/ Program(i) \/ Quit(i)
      PROVE  st'[k] = "none" <=> Unspawned'
  <2>1. UNCHANGED <<pc, idx>>
    BY <1>4, ChildFrame DEF shellVars
  <2>2. st[i] \in Alive
    BY <1>4
    DEF Alive, Setup, Program, Quit, DupIn, DupOut, DupFails, CloseInherited,
        CloseInheritedDone, DefaultSignals, Redirect, Exec, Read, ReadEof,
        Write, WriteBroken, Finish
  <2>3. k # i => st'[k] = st[k]
    BY <1>4, OthersKeepState
  <2> QED BY <1>1, <2>1, <2>2, <2>3 DEF Alive
<1>5. CASE Shell
  <2>1. CASE CreatePipe BY <1>0, <2>1 DEF CreatePipe, childVars
  <2>2. CASE CreatePipeFails BY <1>0, <2>2 DEF CreatePipeFails, childVars
  <2>3. CASE CreateDone BY <1>0, <2>3 DEF CreateDone, childVars, Segs
  <2>4. CASE SpawnChild \/ SpawnFails
    <3>1. idx \in Segs /\ pc = "spawn" /\ pc' = "spawn" /\ idx' = idx + 1
      BY <2>4, IdxIsSegment DEF SpawnChild, SpawnFails
    <3>2. st'[idx] # "none" /\ (k # idx => st'[k] = st[k])
      BY <2>4, <3>1 DEF SpawnChild, SpawnFails, TypeOK
    <3> QED BY <1>0, <3>1, <3>2 DEF Segs
  <2>5. CASE SpawnDone BY <1>0, <2>5 DEF SpawnDone, childVars, Segs
  <2>6. CASE IgnoreSignals BY <1>0, <2>6 DEF IgnoreSignals, childVars
  <2>7. CASE ClosePipe BY <1>0, <2>7 DEF ClosePipe, childVars
  <2>8. CASE CloseDone BY <1>0, <2>8 DEF CloseDone, childVars
  <2>9. CASE WaitChild
    BY <1>0, <2>9, IdxIsSegment DEF WaitChild, TypeOK
  <2>10. CASE SkipUnforked BY <1>0, <2>10 DEF SkipUnforked, childVars
  <2>11. CASE SaveStatus BY <1>0, <2>11 DEF SaveStatus, childVars
  <2> QED BY <1>5, <2>1, <2>2, <2>3, <2>4, <2>5, <2>6, <2>7, <2>8, <2>9,
             <2>10, <2>11 DEF Shell
<1> QED BY <1>2, <1>3, <1>4, <1>5 DEF Next

-----------------------------------------------------------------------------
(* The pipe ends of the children. *)
LEMMA EndsFrameOne ==
  ASSUME EndsInv, NEW k \in Segs,
         st'[k] = st[k], held'[k] = held[k], j'[k] = j[k],
         stdin'[k] = stdin[k], stdout'[k] = stdout[k]
  PROVE  EndsOf(k)'
  BY DEF EndsInv, EndsOf, OutEnd

LEMMA EndsFrame ==
  ASSUME EndsInv, NEW k \in Segs, UNCHANGED childVars PROVE EndsOf(k)'
  BY EndsFrameOne DEF childVars

LEMMA DieEnds ==
  ASSUME TypeOK, EndsInv, NEW i \in Segs, NEW ws, Die(i, ws), NEW k \in Segs
  PROVE  EndsOf(k)'
<1> USE DEF TypeOK, Die
<1>1. CASE k = i BY <1>1 DEF EndsOf
<1>2. CASE k # i BY <1>2 DEF EndsInv, EndsOf, OutEnd
<1> QED BY <1>1, <1>2

LEMMA ShellEnds ==
  ASSUME TypeOK, ShellInv, SpawnInv, EndsInv, Shell, NEW k \in Segs
  PROVE  EndsOf(k)'
<1> USE DEF TypeOK
<1>1. CASE SpawnChild
  <2>1. idx \in Segs /\ shell = Pipes /\ st[idx] = "none"
    BY <1>1, IdxIsSegment, PipelineAssumption
    DEF SpawnChild, ShellInv, SpawnInv, Segs
  <2>2. CASE k = idx
    <3>1. EndsOf(k) BY DEF EndsInv
    <3>2. /\ st'[k] = IF NSeg > 1 THEN "dupin" ELSE "signals"
          /\ held'[k] = Pipes /\ UNCHANGED <<j, stdin, stdout>>
      BY <1>1, <2>1, <2>2 DEF SpawnChild
    <3>3. CASE NSeg > 1
      BY <2>1, <2>2, <3>1, <3>2, <3>3 DEF EndsOf
    <3>4. CASE NSeg = 1
      <4>1. k = 0 /\ Pipes = {} /\ OutEnd(k) = NoPipe /\ k - 1 = NoPipe
        BY <3>4 DEF Segs, Pipes, OutEnd, NoPipe
      <4> QED BY <2>1, <2>2, <3>1, <3>2, <3>4, <4>1 DEF EndsOf, OutEnd
    <3> QED BY <3>3, <3>4, PipelineAssumption
  <2>3. CASE k # idx
    BY <1>1, <2>1, <2>3 DEF SpawnChild, EndsInv, EndsOf, OutEnd
  <2> QED BY <2>2, <2>3
<1>2. CASE SpawnFails
  <2>1. idx \in Segs /\ st[idx] = "none"
    BY <1>2, IdxIsSegment, PipelineAssumption
    DEF SpawnFails, SpawnInv, Segs
  <2>2. CASE k = idx BY <1>2, <2>1, <2>2 DEF SpawnFails, EndsInv, EndsOf
  <2>3. CASE k # idx
    BY <1>2, <2>1, <2>3 DEF SpawnFails, EndsInv, EndsOf, OutEnd
  <2> QED BY <2>2, <2>3
<1>3. CASE WaitChild
  <2>1. idx \in Segs /\ st[idx] = "dead"
    BY <1>3, IdxIsSegment DEF WaitChild
  <2>2. CASE k = idx BY <1>3, <2>1, <2>2 DEF WaitChild, EndsInv, EndsOf
  <2>3. CASE k # idx
    BY <1>3, <2>1, <2>3 DEF WaitChild, EndsInv, EndsOf, OutEnd
  <2> QED BY <2>2, <2>3
<1>4. CASE ~(SpawnChild \/ SpawnFails \/ WaitChild)
  <2>1. UNCHANGED childVars
    BY <1>4
    DEF Shell, CreatePipe, CreatePipeFails, CreateDone, SpawnDone,
        IgnoreSignals, ClosePipe, CloseDone, SkipUnforked, SaveStatus
  <2> QED BY <2>1, EndsFrame
<1> QED BY <1>1, <1>2, <1>3, <1>4

LEMMA SetupEnds ==
  ASSUME TypeOK, EndsInv, NEW i \in Segs, Setup(i), NEW k \in Segs
  PROVE  EndsOf(k)'
<1> USE PipelineAssumption DEF TypeOK
<1>0. EndsOf(i) /\ EndsOf(k) BY DEF EndsInv
<1>1. ASSUME ~\E ws : Die(i, ws), k # i PROVE EndsOf(k)'
  <2>1. ~DupFails(i) BY <1>1 DEF DupFails
  <2>2. /\ st'[k] = st[k] /\ held'[k] = held[k] /\ j'[k] = j[k]
        /\ stdin'[k] = stdin[k] /\ stdout'[k] = stdout[k]
    <3>1. CASE DupIn(i) \/ DupOut(i) BY <1>1, <3>1 DEF DupIn, DupOut
    <3>2. CASE CloseInherited(i) \/ CloseInheritedDone(i) \/ DefaultSignals(i)
      BY <1>1, <3>2 DEF CloseInherited, CloseInheritedDone, DefaultSignals
    <3>3. CASE Redirect(i) BY <1>1, <3>3 DEF Redirect
    <3>4. CASE Exec(i) BY <1>1, <3>4 DEF Exec
    <3> QED BY <2>1, <3>1, <3>2, <3>3, <3>4 DEF Setup
  <2> QED BY <2>2, EndsFrameOne
<1>2. CASE DupIn(i) /\ k = i
  BY <1>0, <1>2 DEF DupIn, EndsOf, Segs, NoPipe
<1>3. CASE DupOut(i) /\ k = i
  BY <1>0, <1>3 DEF DupOut, EndsOf, Segs, Pipes, OutEnd
<1>4. CASE CloseInherited(i) /\ k = i
  BY <1>0, <1>4 DEF CloseInherited, EndsOf, OutEnd
<1>5. CASE CloseInheritedDone(i) /\ k = i
  BY <1>0, <1>5 DEF CloseInheritedDone, EndsOf, OutEnd
<1>6. CASE DefaultSignals(i) /\ k = i
  BY <1>0, <1>6 DEF DefaultSignals, EndsOf, OutEnd
<1>7. ASSUME Redirect(i), k = i, ~\E ws : Die(i, ws) PROVE EndsOf(k)'
  BY <1>0, <1>7 DEF Redirect, EndsOf, OutEnd
<1>8. ASSUME Exec(i), k = i, ~\E ws : Die(i, ws) PROVE EndsOf(k)'
  BY <1>0, <1>8 DEF Exec, EndsOf, OutEnd
<1>9. ASSUME DupFails(i) PROVE \E ws : Die(i, ws)
  BY <1>9 DEF DupFails
<1> QED BY <1>1, <1>2, <1>3, <1>4, <1>5, <1>6, <1>7, <1>8, <1>9, DieEnds DEF Setup

LEMMA ProgramEnds ==
  ASSUME TypeOK, EndsInv, NEW i \in Segs, Program(i) \/ Quit(i), NEW k \in Segs
  PROVE  EndsOf(k)'
<1>1. CASE Read(i) \/ ReadEof(i) \/ Write(i)
  BY <1>1, EndsFrame DEF Read, ReadEof, Write
<1>2. CASE WriteBroken(i) \/ Finish(i) \/ Quit(i)
  BY <1>2, DieEnds DEF WriteBroken, Finish, Quit
<1> QED BY <1>1, <1>2 DEF Program

LEMMA InterruptEnds ==
  ASSUME TypeOK, EndsInv, Interrupt, NEW k \in Segs PROVE EndsOf(k)'
  BY DEF TypeOK, EndsInv, Interrupt, EndsOf, OutEnd

LEMMA NextEndsInv ==
  TypeOK /\ ShellInv /\ SpawnInv /\ EndsInv /\ [Next]_vars => EndsInv'
<1> SUFFICES ASSUME TypeOK, ShellInv, SpawnInv, EndsInv, [Next]_vars,
                    NEW k \in Segs
             PROVE  EndsOf(k)'
  BY DEF EndsInv
<1>1. CASE UNCHANGED vars \/ Terminated
  BY <1>1, EndsFrame DEF Terminated, vars, childVars
<1> QED BY <1>1, ShellEnds, SetupEnds, ProgramEnds, InterruptEnds DEF Next

-----------------------------------------------------------------------------
(* A pipe nobody can write to (read from) stays so once the pipes exist. *)
LEMMA NoNewEnds ==
  ASSUME TypeOK, ShellInv, EndsInv, [Next]_vars, NEW k \in Pipes,
         pc # "create"
  PROVE  /\ ~HasWriter(k) => ~HasWriter(k)'
         /\ ~HasReader(k) => ~HasReader(k)'
<1> USE DEF TypeOK, HasWriter, HasReader
<1>0. k # NoPipe
  BY DEF NoPipe, Pipes
<1>1. ASSUME shell' \subseteq shell,
             \A i \in Segs :
               /\ held'[i] \subseteq held[i]
               /\ stdin'[i] = k => stdin[i] = k \/ k \in held[i]
               /\ stdout'[i] = k => stdout[i] = k \/ k \in held[i]
      PROVE  /\ ~HasWriter(k) => ~HasWriter(k)'
             /\ ~HasReader(k) => ~HasReader(k)'
  BY <1>1
<1>2. CASE UNCHANGED vars \/ Terminated
  BY <1>1, <1>2 DEF Terminated, vars
<1>3. CASE Interrupt
  BY <1>0, <1>1, <1>3 DEF Interrupt
<1>4. CASE Shell
  <2>1. CASE SpawnChild
    <3>1. idx \in Segs /\ shell = Pipes
      BY <2>1, IdxIsSegment DEF SpawnChild, ShellInv
    <3> QED BY <3>1
  <2>2. CASE ~SpawnChild
    BY <1>1, <1>4, <2>2
    DEF Shell, CreatePipe, CreatePipeFails, CreateDone, SpawnFails, SpawnDone,
        IgnoreSignals, ClosePipe, CloseDone, WaitChild, SkipUnforked,
        SaveStatus, childVars
  <2> QED BY <2>1, <2>2
<1>5. ASSUME NEW i \in Segs, Setup(i) \/ Program(i) \/ Quit(i)
      PROVE  /\ ~HasWriter(k) => ~HasWriter(k)'
             /\ ~HasReader(k) => ~HasReader(k)'
  <2>1. shell' = shell
    BY <1>5, ChildFrame DEF shellVars
  <2>2. ASSUME NEW ws, Die(i, ws)
        PROVE \A n \in Segs :
               /\ held'[n] \subseteq held[n]
               /\ stdin'[n] = k => stdin[n] = k
               /\ stdout'[n] = k => stdout[n] = k
    BY <1>0, <2>2 DEF Die
  <2>3. CASE DupIn(i) BY <1>0, <1>1, <2>1, <2>3 DEF DupIn
  <2>4. CASE DupOut(i) BY <1>0, <1>1, <2>1, <2>4 DEF DupOut
  <2>5. CASE CloseInherited(i) \/ CloseInheritedDone(i) \/ DefaultSignals(i)
    BY <1>1, <2>1, <2>5 DEF CloseInherited, CloseInheritedDone, DefaultSignals
  <2>6. CASE Redirect(i)
    <3>1. CASE \E ws : Die(i, ws) BY <1>1, <2>1, <2>2, <3>1
    <3>2. CASE ~\E ws : Die(i, ws)
      BY <1>0, <1>1, <2>1, <2>6, <3>2 DEF Redirect
    <3> QED BY <3>1, <3>2
  <2>7. CASE Exec(i) BY <1>1, <2>1, <2>2, <2>7 DEF Exec
  <2>8. CASE Read(i) \/ ReadEof(i) \/ Write(i)
    BY <1>1, <2>1, <2>8 DEF Read, ReadEof, Write, childVars
  <2>9. CASE DupFails(i) \/ WriteBroken(i) \/ Finish(i) \/ Quit(i)
    BY <1>1, <2>1, <2>2, <2>9 DEF DupFails, WriteBroken, Finish, Quit
  <2> QED BY <1>5, <2>3, <2>4, <2>5, <2>6, <2>7, <2>8, <2>9 DEF Setup, Program
<1> QED BY <1>2, <1>3, <1>4, <1>5 DEF Next

(* Nobody adds to a pipe without a writer. *)
LEMMA NobodyFills ==
  ASSUME TypeOK, [Next]_vars, NEW k \in Pipes, ~HasWriter(k), buf[k] = 0
  PROVE  buf'[k] = 0
<1> USE DEF TypeOK
<1>1. CASE UNCHANGED buf BY <1>1
<1>2. ASSUME NEW i \in Segs, Read(i) PROVE buf'[k] = 0
  BY <1>2 DEF Read, ReadsPipe, NoPipe
<1>3. ASSUME NEW i \in Segs, Write(i) PROVE buf'[k] = 0
  BY <1>3 DEF Write, WritesPipe, NoPipe, HasWriter
<1>4. ASSUME NEW i \in Segs, Setup(i) \/ ReadEof(i) \/ WriteBroken(i)
                             \/ Finish(i) \/ Quit(i)
      PROVE UNCHANGED buf
  BY <1>4
  DEF Setup, DupIn, DupOut, DupFails, CloseInherited, CloseInheritedDone,
      DefaultSignals, Redirect, Exec, ReadEof, WriteBroken, Finish, Quit, Die,
      progVars
<1>5. ASSUME Shell \/ Interrupt \/ Terminated \/ UNCHANGED vars
      PROVE  UNCHANGED buf
  BY <1>5
  DEF Shell, CreatePipe, CreatePipeFails, CreateDone, SpawnChild, SpawnFails,
      SpawnDone, IgnoreSignals, ClosePipe, CloseDone, WaitChild, SkipUnforked,
      SaveStatus, Interrupt, Terminated, vars, progVars
<1> QED BY <1>1, <1>2, <1>3, <1>4, <1>5 DEF Next, Program

(* Only ReadEof(i) tells program i end-of-file. *)
LEMMA EofOnlyByReadEof ==
  ASSUME TypeOK, [Next]_vars, NEW i \in Segs, eof'[i], ~eof[i]
  PROVE  ReadEof(i)
<1>1. ASSUME NEW n \in Segs, ReadEof(n) PROVE n = i
  BY <1>1 DEF ReadEof, TypeOK
<1>2. ASSUME NEW n \in Segs, Setup(n) \/ Read(n) \/ Write(n) \/ WriteBroken(n)
                             \/ Finish(n) \/ Quit(n)
      PROVE UNCHANGED eof
  BY <1>2
  DEF Setup, DupIn, DupOut, DupFails, CloseInherited, CloseInheritedDone,
      DefaultSignals, Redirect, Exec, Read, Write, WriteBroken, Finish, Quit,
      Die, progVars
<1>3. ASSUME Shell \/ Interrupt \/ Terminated \/ UNCHANGED vars
      PROVE  UNCHANGED eof
  BY <1>3
  DEF Shell, CreatePipe, CreatePipeFails, CreateDone, SpawnChild, SpawnFails,
      SpawnDone, IgnoreSignals, ClosePipe, CloseDone, WaitChild, SkipUnforked,
      SaveStatus, Interrupt, Terminated, vars, progVars
<1> QED BY <1>1, <1>2, <1>3 DEF Next, Program

-----------------------------------------------------------------------------
(* Pipes exist once a child does, and while the shell still forks it has    *)
(* every end; so a pipe without a writer or reader has two forked ends.     *)
LEMMA BothForked ==
  ASSUME TypeOK, ShellInv, SpawnInv, NEW i \in Segs, i < NSeg - 1,
         st[i] # "none" \/ st[i + 1] # "none",
         ~HasWriter(i) \/ ~HasReader(i)
  PROVE  i \in Pipes /\ i + 1 \in Segs /\ pc # "create" /\ st[i] # "none"
         /\ st[i + 1] # "none"
<1>1. i \in Pipes /\ i + 1 \in Segs
  BY PipelineAssumption DEF Segs, Pipes
<1>2. pc \notin {"create", "abandoned"}
  BY <1>1 DEF SpawnInv
<1>3. pc # "spawn"
  BY <1>1 DEF ShellInv, HasWriter, HasReader
<1> QED BY <1>1, <1>2, <1>3 DEF SpawnInv

LEMMA NextEofInv == IInv /\ [Next]_vars => EofInv'
<1> SUFFICES ASSUME IInv, [Next]_vars, NEW i \in Segs, eof'[i]
             PROVE  /\ st'[i] \in {"run", "dead", "reaped"}
                    /\ i > 0 /\ buf'[i - 1] = 0
                    /\ ~HasWriter(i - 1)'
                    /\ st'[i - 1] \in Gone
  BY DEF EofInv, EofMeansUpstreamGone, Gone
<1> USE PipelineAssumption DEF IInv
<1> DEFINE Upstream == /\ i > 0 /\ i - 1 \in Pipes /\ i - 1 \in Segs
                       /\ pc # "create"
                       /\ buf[i - 1] = 0 /\ ~HasWriter(i - 1)
                       /\ st[i - 1] \in Gone
                       /\ st[i] \in {"run", "dead", "reaped"}
<1>1. ASSUME eof[i] PROVE Upstream
  <2>1. /\ i > 0 /\ i - 1 \in Pipes /\ i - 1 \in Segs
        /\ st[i] \in {"run", "dead", "reaped"}
    BY <1>1 DEF EofInv, EofMeansUpstreamGone, Pipes, Segs
  <2>2. pc # "create"
    BY <2>1 DEF SpawnInv
  <2>3. Upstream
    BY <1>1, <2>1, <2>2 DEF EofInv, EofMeansUpstreamGone, Gone
  <2> QED BY <2>3
<1>2. ASSUME ~eof[i] PROVE Upstream
  <2>1. ReadEof(i)
    BY <1>2, EofOnlyByReadEof
  <2>2. stdin[i] = i - 1 /\ i > 0 /\ i - 1 \in Pipes /\ i - 1 \in Segs
    BY <2>1 DEF ReadEof, ReadsPipe, EndsInv, EndsOf, NoPipe, Segs, Pipes
  <2>3. buf[i - 1] = 0 /\ ~HasWriter(i - 1) /\ st[i] = "run"
    BY <2>1, <2>2 DEF ReadEof
  <2>4. pc # "create" /\ st[i - 1] # "none"
    <3>1. i - 1 < NSeg - 1 /\ (i - 1) + 1 = i
      BY DEF Segs
    <3> QED BY <2>2, <2>3, <3>1, BothForked
  <2>5. st[i - 1] \in Gone
    <3>1. EndsOf(i - 1) BY <2>2 DEF EndsInv
    <3>2. i - 1 \notin held[i - 1] /\ stdout[i - 1] # i - 1
      BY <2>2, <2>3 DEF HasWriter
    <3>3. OutEnd(i - 1) = i - 1
      <4>1. i - 1 < NSeg - 1
        BY DEF Segs
      <4> QED BY <4>1 DEF OutEnd
    <3>4. st[i - 1] \in ChildStates
      BY <2>2 DEF TypeOK
    <3>5. st[i - 1] \notin {"dupin", "dupout"}
      BY <2>2, <3>1, <3>2 DEF EndsOf
    <3>6. st[i - 1] \notin {"closing", "signals", "redirect"}
      BY <3>1, <3>2, <3>3 DEF EndsOf
    <3> QED BY <2>4, <3>4, <3>5, <3>6 DEF ChildStates, Gone
  <2> QED BY <2>2, <2>3, <2>4, <2>5
<1>3. Upstream
  BY <1>1, <1>2
<1>4. buf'[i - 1] = 0
  BY <1>3, NobodyFills
<1>5. ~HasWriter(i - 1)'
  BY <1>3, NoNewEnds
<1>6. st'[i - 1] \in Gone
  BY <1>3, NextAdvances DEF Advances
<1>7. st'[i] \in {"run", "dead", "reaped"}
  BY <1>3, NextAdvances DEF Advances, Ended
<1> QED BY <1>3, <1>4, <1>5, <1>6, <1>7

(* Only WriteBroken(i) gives a child the wait status of SIGPIPE. *)
LEMMA SigpipeOnlyByWriteBroken ==
  ASSUME TypeOK, SpawnInv, [Next]_vars, NEW i \in Segs,
         st'[i] \in Ended, status'[i] = Signaled(SIGPIPE), st[i] \notin Ended
  PROVE  WriteBroken(i)
<1> USE DEF TypeOK, Ended
<1>1. ASSUME NEW n \in Segs, NEW ws, Die(n, ws)
      PROVE  n = i /\ ws = Signaled(SIGPIPE)
  BY <1>1 DEF Die
<1>2. /\ \A code \in Nat : Exited(code) # Signaled(SIGPIPE)
      /\ Signaled(SIGSEGV) # Signaled(SIGPIPE)
  BY DEF Exited, Signaled, SIGPIPE, SIGSEGV
<1>3. ASSUME NEW n \in Segs, DupFails(n) \/ Finish(n) \/ Quit(n) PROVE FALSE
  BY <1>1, <1>2, <1>3, PipelineAssumption DEF DupFails, Finish, Quit
<1>4. ASSUME NEW n \in Segs, Redirect(n) PROVE FALSE
  <2>1. \A ws \in {Exited(1), Signaled(SIGSEGV)} : ~Die(n, ws) BY <1>1, <1>2
  <2> QED BY <1>4, <2>1 DEF Redirect
<1>5. ASSUME NEW n \in Segs, Exec(n) PROVE FALSE
  <2>1. \A code \in {0, 1, 126, 127} : ~Die(n, Exited(code)) BY <1>1, <1>2
  <2> QED BY <1>5, <2>1 DEF Exec
<1>6. ASSUME NEW n \in Segs, DupIn(n) \/ DupOut(n) \/ CloseInherited(n)
                             \/ CloseInheritedDone(n) \/ DefaultSignals(n)
      PROVE FALSE
  BY <1>6 DEF DupIn, DupOut, CloseInherited, CloseInheritedDone, DefaultSignals
<1>7. ASSUME NEW n \in Segs, Read(n) \/ ReadEof(n) \/ Write(n) PROVE FALSE
  BY <1>7 DEF Read, ReadEof, Write, childVars
<1>8. ASSUME NEW n \in Segs, WriteBroken(n) PROVE WriteBroken(i)
  BY <1>1, <1>8 DEF WriteBroken
<1>9. ASSUME Shell PROVE FALSE
  <2>1. ASSUME SpawnChild \/ SpawnFails \/ WaitChild PROVE FALSE
    BY <2>1, IdxIsSegment DEF SpawnChild, SpawnFails, WaitChild
  <2>2. ASSUME UNCHANGED st PROVE FALSE
    BY <2>2
  <2> QED BY <1>9, <2>1, <2>2
    DEF Shell, CreatePipe, CreatePipeFails, CreateDone, SpawnDone,
        IgnoreSignals, ClosePipe, CloseDone, SkipUnforked, SaveStatus, childVars
<1>10. ASSUME Interrupt PROVE FALSE
  BY <1>10 DEF Interrupt, Signaled, SIGINT, SIGPIPE
<1>11. ASSUME Terminated \/ UNCHANGED vars PROVE FALSE
  BY <1>11 DEF Terminated, vars
<1> QED BY <1>3, <1>4, <1>5, <1>6, <1>7, <1>8, <1>9, <1>10, <1>11
        DEF Next, Setup, Program

LEMMA NextSigpipe == IInv /\ [Next]_vars => SigpipeMeansReaderGone'
<1> SUFFICES ASSUME IInv, [Next]_vars, NEW i \in Segs,
                    st'[i] \in Ended, status'[i] = Signaled(SIGPIPE)
             PROVE  /\ i < NSeg - 1
                    /\ ~HasReader(i)'
                    /\ st'[i + 1] \in Gone
  BY DEF SigpipeMeansReaderGone, Gone, Ended, Signaled, SIGPIPE
<1> USE PipelineAssumption DEF IInv
<1> DEFINE ReaderGone == i < NSeg - 1 /\ ~HasReader(i) /\ st[i + 1] \in Gone
                         /\ st[i] # "none"
<1>1. ASSUME st[i] \in Ended PROVE ReaderGone
  <2>1. status[i] = Signaled(SIGPIPE)
    BY <1>1, NextAdvances DEF Advances
  <2> QED BY <1>1, <2>1 DEF SigpipeMeansReaderGone, Ended, Gone
<1>2. ASSUME st[i] \notin Ended PROVE ReaderGone
  <2>1. WriteBroken(i)
    BY <1>2, SigpipeOnlyByWriteBroken
  <2>2. stdout[i] = i /\ i < NSeg - 1 /\ ~HasReader(i) /\ st[i] = "run"
    BY <2>1 DEF WriteBroken, WritesPipe, EndsInv, EndsOf, OutEnd, NoPipe, Segs
  <2>3. i + 1 \in Segs /\ st[i + 1] # "none" /\ i \in Pipes
    BY <2>2, BothForked
  <2>4. EndsOf(i + 1) /\ st[i + 1] \in ChildStates
    BY <2>3 DEF EndsInv, TypeOK
  <2>5. i \notin held[i + 1] /\ stdin[i + 1] # i
    BY <2>2, <2>3 DEF HasReader
  <2>6. (i + 1) - 1 = i
    BY DEF Segs
  <2>7. st[i + 1] # "dupin"
    BY <2>3, <2>4, <2>5 DEF EndsOf
  <2>8. st[i + 1] \notin {"dupout", "closing", "signals", "redirect"}
    BY <2>4, <2>5, <2>6 DEF EndsOf
  <2> QED BY <2>2, <2>3, <2>4, <2>7, <2>8 DEF ChildStates, Gone
<1>3. ReaderGone
  BY <1>1, <1>2
<1>4. i \in Pipes /\ i + 1 \in Segs /\ pc # "create"
  BY <1>3, BothForked
<1>5. ~HasReader(i)'
  BY <1>3, <1>4, NoNewEnds
<1>6. st'[i + 1] \in Gone
  BY <1>3, <1>4, NextAdvances DEF Advances
<1> QED BY <1>3, <1>5, <1>6

-----------------------------------------------------------------------------
(* A child ends, it is the shell that reaps. *)
LEMMA NeverReapsItself ==
  ASSUME TypeOK, NEW i \in Segs, Setup(i) \/ Program(i) \/ Quit(i),
         NEW k \in Segs, st[k] # "reaped"
  PROVE  st'[k] # "reaped"
<1> USE DEF TypeOK
<1>1. ASSUME NEW ws, Die(i, ws) PROVE st'[k] # "reaped"
  BY <1>1 DEF Die
<1>2. CASE DupIn(i) \/ DupOut(i) BY <1>2 DEF DupIn, DupOut
<1>3. CASE CloseInherited(i) \/ CloseInheritedDone(i) \/ DefaultSignals(i)
  BY <1>3 DEF CloseInherited, CloseInheritedDone, DefaultSignals
<1>4. CASE Redirect(i) BY <1>1, <1>4 DEF Redirect
<1>5. CASE Exec(i) BY <1>1, <1>5 DEF Exec
<1>6. CASE Read(i) \/ ReadEof(i) \/ Write(i)
  BY <1>6 DEF Read, ReadEof, Write, childVars
<1>7. CASE DupFails(i) \/ WriteBroken(i) \/ Finish(i) \/ Quit(i)
  BY <1>1, <1>7 DEF DupFails, WriteBroken, Finish, Quit
<1> QED BY <1>2, <1>3, <1>4, <1>5, <1>6, <1>7 DEF Setup, Program

(* wait_children and the reported status. *)
LEMMA NextWaitInv == IInv /\ [Next]_vars => WaitInv'
<1> SUFFICES ASSUME IInv, [Next]_vars PROVE WaitInv'
  OBVIOUS
<1> USE PipelineAssumption DEF IInv, WaitInv, ReportedStatus
<1>0. NSeg - 1 \in Segs
  BY DEF Segs
<1>1. \A i \in Segs : st[i] \in {"nofork", "reaped"} =>
        st'[i] = st[i] /\ (st[i] = "reaped" => status'[i] = status[i])
  BY NextAdvances DEF Advances, Ended
<1>2. ASSUME UNCHANGED <<pc, idx, last>>, pc = "done" => UNCHANGED glbStatus,
             st[NSeg - 1] # "reaped" => st'[NSeg - 1] # "reaped"
      PROVE  WaitInv'
  BY <1>0, <1>1, <1>2
<1>3. CASE UNCHANGED vars \/ Terminated
  BY <1>2, <1>3 DEF vars, Terminated
<1>4. CASE Interrupt
  BY <1>0, <1>2, <1>4 DEF Interrupt, TypeOK
<1>5. ASSUME NEW i \in Segs, Setup(i) \/ Program(i) \/ Quit(i) PROVE WaitInv'
  <2>1. UNCHANGED <<pc, idx, last, glbStatus>>
    BY <1>5, ChildFrame DEF shellVars
  <2>2. st[NSeg - 1] # "reaped" => st'[NSeg - 1] # "reaped"
    BY <1>0, <1>5, NeverReapsItself
  <2> QED BY <1>2, <2>1, <2>2
<1>6. CASE Shell
  <2>1. CASE pc \notin {"close", "wait"}
    BY <1>6, <2>1
    DEF Shell, CreatePipe, CreatePipeFails, CreateDone, SpawnChild, SpawnFails,
        SpawnDone, IgnoreSignals, ClosePipe, CloseDone, WaitChild,
        SkipUnforked, SaveStatus
  <2>2. CASE ClosePipe \/ CloseDone
    BY <2>2 DEF ClosePipe, CloseDone, Segs
  <2>3. CASE WaitChild
    <3>1. idx \in Segs /\ pc = "wait" /\ pc' = "wait" /\ idx' = idx + 1
          /\ st'[idx] = "reaped" /\ UNCHANGED status
          /\ last' = IF idx = NSeg - 1 THEN status[idx] ELSE last
      BY <2>3, IdxIsSegment DEF WaitChild, TypeOK
    <3>2. \A i \in Segs : i < idx' => st'[i] \in {"nofork", "reaped"}
      BY <1>1, <3>1 DEF Segs
    <3>3. last' = IF idx' = NSeg /\ st'[NSeg - 1] = "reaped"
                    THEN status'[NSeg - 1] ELSE 0
      BY <3>1 DEF Segs
    <3> QED BY <3>1, <3>2, <3>3
  <2>4. CASE SkipUnforked
    <3>1. idx \in Segs /\ pc = "wait" /\ pc' = "wait" /\ idx' = idx + 1
          /\ UNCHANGED <<st, status, last>> /\ st[idx] \notin Forked
      BY <2>4, IdxIsSegment DEF SkipUnforked, childVars
    <3>2. st[idx] = "nofork"
      BY <3>1 DEF SpawnInv, TypeOK, ChildStates, Forked, Alive
    <3> QED BY <3>1, <3>2 DEF Segs
  <2>5. CASE SaveStatus
    <3>1. idx = NSeg /\ pc = "wait" /\ pc' = "done" /\ UNCHANGED <<st, status>>
          /\ glbStatus' = ExtractExitStatus(last)
      BY <2>5 DEF SaveStatus, childVars
    <3>2. \A i \in Segs : st[i] \in {"nofork", "reaped"}
      BY <3>1 DEF Segs
    <3>3. ExtractExitStatus(0) = 0
      BY DEF ExtractExitStatus
    <3> QED BY <3>1, <3>2, <3>3
  <2> QED BY <1>6, <2>1, <2>2, <2>3, <2>4, <2>5
    DEF Shell, CreatePipe, CreatePipeFails, CreateDone, SpawnChild, SpawnFails,
        SpawnDone, IgnoreSignals
<1> QED BY <1>3, <1>4, <1>5, <1>6 DEF Next

-----------------------------------------------------------------------------
(* IInv is inductive. *)
THEOREM Invariance == Spec => []IInv
<1>1. IInv /\ [Next]_vars => IInv'
  BY NextTypes, NextShellInv, NextSpawnInv, NextEndsInv, NextEofInv,
     NextSigpipe, NextWaitInv DEF IInv
<1> QED BY InitIInv, <1>1, PTL DEF Spec

(* Every variable keeps its type. *)
THEOREM TypeCorrect == Spec => []TypeOK
<1>1. IInv => TypeOK
  BY DEF IInv
<1> QED BY Invariance, <1>1, PTL

(* No child runs a command with a pipe end that is not its own. *)
THEOREM EndsCorrect == Spec => []OnlyOwnEnds
<1>1. IInv => OnlyOwnEnds
  BY DEF IInv, OnlyOwnEnds, EndsInv, EndsOf, OutEnd, NoPipe, Segs
<1> QED BY Invariance, <1>1, PTL

(* The shell waits and returns without a pipe end. *)
THEOREM ShellEndsClosed == Spec => []ShellKeepsNoEnd
<1>1. IInv => ShellKeepsNoEnd
  BY DEF IInv, ShellKeepsNoEnd, ShellInv, SpawnInv
<1> QED BY Invariance, <1>1, PTL

(* End-of-file is final, and comes only when the predecessor is gone. *)
THEOREM EofCorrect == Spec => []EofMeansUpstreamGone
<1>1. IInv => EofMeansUpstreamGone
  BY DEF IInv, EofInv
<1> QED BY Invariance, <1>1, PTL

(* A program dies of SIGPIPE only when its reader is gone for good. *)
THEOREM SigpipeCorrect == Spec => []SigpipeMeansReaderGone
<1>1. IInv => SigpipeMeansReaderGone
  BY DEF IInv
<1> QED BY Invariance, <1>1, PTL

(* The reported status is that of the last segment, with all reaped. *)
THEOREM StatusCorrect == Spec => []ReportedStatus
<1>1. IInv => ReportedStatus
  BY DEF IInv, WaitInv
<1> QED BY Invariance, <1>1, PTL

-----------------------------------------------------------------------------
(* execute_pipeline implements PipelineAbs. *)
Cmd(s) == CASE s = "none"               -> "new"
            [] s = "nofork"             -> "refused"
            [] s \in Alive              -> "running"
            [] s \in {"dead", "reaped"} -> "ended"

LEMMA CommandIsCmd == CommandView = [i \in Segs |-> Cmd(st[i])]
  BY DEF CommandView, Cmd

LEMMA CommandIsCmdNext == CommandView' = [i \in Segs |-> Cmd(st'[i])]
  BY DEF CommandView, Cmd

LEMMA CmdValues ==
  /\ Cmd("none") = "new" /\ Cmd("nofork") = "refused"
  /\ Cmd("dead") = "ended" /\ Cmd("reaped") = "ended"
  /\ \A s \in Alive : Cmd(s) = "running"
  BY DEF Cmd, Alive

(* An extracted status is an exit code. *)
LEMMA ExtractIsCode ==
  ASSUME NEW ws \in Nat, ws < 65536 PROVE Abs!IsCode(ExtractExitStatus(ws))
  BY DEF ExtractExitStatus, Abs!IsCode

LEMMA InitImplements == Init => Abs!Init
<1> SUFFICES ASSUME Init PROVE Abs!Init
  OBVIOUS
<1>1. CommandView = [i \in Segs |-> "new"]
  BY CommandIsCmd, CmdValues DEF Init
<1>2. CodeView = [i \in Segs |-> 0]
  BY DEF Init, CodeView, ExtractExitStatus
<1>3. Abs!IsCode(glbStatus)
  BY PipelineAssumption DEF Init, Abs!IsCode
<1>4. PhaseView = "busy"
  BY DEF Init, PhaseView
<1> QED BY <1>1, <1>2, <1>3, <1>4 DEF Abs!Init, Abs!Segs, Segs

(* A child that ends is the End of its command. *)
LEMMA DieImplements ==
  ASSUME TypeOK, NEW i \in Segs, NEW ws \in Nat, ws < 65536, Die(i, ws),
         st[i] \in Alive, PhaseView = "busy"
  PROVE  Abs!Next
<1>1. CommandView[i] = "running"
  BY CommandIsCmd, CmdValues
<1>2. CommandView' = [CommandView EXCEPT ![i] = "ended"]
  <2>1. CommandView' = [k \in Segs |-> Cmd(st'[k])]
    BY CommandIsCmdNext
  <2>2. \A k \in Segs : Cmd(st'[k]) = IF k = i THEN "ended" ELSE Cmd(st[k])
    BY CmdValues DEF Die, TypeOK
  <2> QED BY <2>1, <2>2, CommandIsCmd
<1>3. /\ CodeView' \in [Segs -> Nat] /\ Abs!IsCode(CodeView'[i])
      /\ \A k \in Segs \ {i} : CodeView'[k] = CodeView[k]
  <2>1. \A k \in Segs : status'[k] = IF k = i THEN ws ELSE status[k]
    BY DEF Die, TypeOK
  <2>2. \A k \in Segs : status'[k] \in Nat /\ status'[k] < 65536
    BY <2>1 DEF TypeOK
  <2>3. CodeView' = [k \in Segs |-> ExtractExitStatus(status'[k])]
    BY DEF CodeView, ExtractExitStatus
  <2>4. \A k \in Segs : CodeView'[k] = ExtractExitStatus(status'[k])
    BY <2>3
  <2>5. \A k \in Segs : Abs!IsCode(CodeView'[k])
    BY <2>2, <2>4, ExtractIsCode
  <2>6. CodeView' \in [Segs -> Nat]
    BY <2>3, <2>4, <2>5 DEF Abs!IsCode
  <2>7. \A k \in Segs \ {i} : CodeView'[k] = CodeView[k]
    BY <2>1, <2>4 DEF CodeView
  <2> QED BY <2>5, <2>6, <2>7
<1>4. UNCHANGED <<PhaseView, glbStatus>>
  BY DEF Die, shellVars, PhaseView
<1>5. Abs!End(i)
  BY <1>1, <1>2, <1>3, <1>4 DEF Abs!End, Abs!Segs, Segs
<1> QED BY <1>5 DEF Abs!Next, Abs!Segs, Segs

(* Moving between two running states is invisible. *)
LEMMA RunStutters ==
  ASSUME TypeOK, NEW i \in Segs, st[i] \in Alive, NEW s \in Alive,
         st' = [st EXCEPT ![i] = s], UNCHANGED <<pc, glbStatus, status>>
  PROVE  UNCHANGED Abs!vars
<1>1. CommandView' = CommandView
  <2>1. CommandView' = [k \in Segs |-> Cmd(st'[k])]
    BY CommandIsCmdNext
  <2>2. \A k \in Segs : Cmd(st'[k]) = Cmd(st[k])
    BY CmdValues DEF TypeOK
  <2> QED BY <2>1, <2>2, CommandIsCmd
<1>2. UNCHANGED <<CodeView, PhaseView>>
  BY DEF CodeView, PhaseView
<1> QED BY <1>1, <1>2 DEF Abs!vars

LEMMA SameStutters ==
  ASSUME PhaseView' = PhaseView, UNCHANGED <<st, status, glbStatus>>
  PROVE  UNCHANGED Abs!vars
  BY DEF Abs!vars, CommandView, CodeView

LEMMA SetupImplements ==
  ASSUME IInv, NEW i \in Segs, Setup(i) PROVE [Abs!Next]_(Abs!vars)
<1>0. TypeOK /\ PhaseView = "busy" /\ st[i] \in Alive
  <2>1. TypeOK BY DEF IInv
  <2>2. st[i] \in Alive
    BY DEF Setup, DupIn, DupOut, DupFails, CloseInherited, CloseInheritedDone,
           DefaultSignals, Redirect, Exec, Alive
  <2>3. pc \notin {"done", "abandoned"}
    BY <2>2 DEF IInv, WaitInv, ReportedStatus, SpawnInv, Alive
  <2> QED BY <2>1, <2>2, <2>3 DEF PhaseView
<1>1. ASSUME NEW code \in {0, 1, 126, 127}, Die(i, Exited(code)) PROVE Abs!Next
  BY <1>0, <1>1, DieImplements DEF Exited
<1>2. ASSUME NEW s \in Alive, st' = [st EXCEPT ![i] = s],
             UNCHANGED <<shellVars, status>>
      PROVE  UNCHANGED Abs!vars
  BY <1>0, <1>2, RunStutters DEF shellVars
<1>3. CASE DupIn(i) BY <1>2, <1>3 DEF DupIn, Alive
<1>4. CASE DupOut(i) BY <1>2, <1>4 DEF DupOut, Alive
<1>5. CASE DupFails(i) BY <1>1, <1>5 DEF DupFails
<1>6. CASE CloseInherited(i)
  BY <1>6, SameStutters DEF CloseInherited, shellVars, PhaseView
<1>7. CASE CloseInheritedDone(i) BY <1>2, <1>7 DEF CloseInheritedDone, Alive
<1>8. CASE DefaultSignals(i) BY <1>2, <1>8 DEF DefaultSignals, Alive
<1>9. CASE Redirect(i)
  <2>1. ASSUME NEW ws \in {Exited(1), Signaled(SIGSEGV)}, Die(i, ws) PROVE Abs!Next
    <3>1. ws \in Nat /\ ws < 65536 BY DEF Exited, Signaled, SIGSEGV
    <3> QED BY <1>0, <2>1, <3>1, DieImplements
  <2>2. CASE ~\E ws \in {Exited(1), Signaled(SIGSEGV)} : Die(i, ws)
    <3>1. st' = [st EXCEPT ![i] = "exec"] /\ UNCHANGED <<shellVars, status>>
      BY <1>9, <2>2 DEF Redirect
    <3> QED BY <1>2, <3>1 DEF Alive
  <2> QED BY <2>1, <2>2
<1>10. CASE Exec(i)
  <2>1. CASE \E code \in {0, 1, 126, 127} : Die(i, Exited(code))
    BY <1>1, <2>1
  <2>2. CASE ~\E code \in {0, 1, 126, 127} : Die(i, Exited(code))
    <3>1. st' = [st EXCEPT ![i] = "run"] /\ UNCHANGED <<shellVars, status>>
      BY <1>10, <2>2 DEF Exec
    <3> QED BY <1>2, <3>1 DEF Alive
  <2> QED BY <2>1, <2>2
<1> QED BY <1>3, <1>4, <1>5, <1>6, <1>7, <1>8, <1>9, <1>10 DEF Setup

LEMMA ProgramImplements ==
  ASSUME IInv, NEW i \in Segs, Program(i) \/ Quit(i)
  PROVE  [Abs!Next]_(Abs!vars)
<1>0. TypeOK /\ PhaseView = "busy" /\ st[i] \in Alive
  <2>1. TypeOK BY DEF IInv
  <2>2. st[i] = "run"
    BY DEF Program, Quit, Read, ReadEof, Write, WriteBroken, Finish
  <2>3. pc \notin {"done", "abandoned"}
    BY <2>2 DEF IInv, WaitInv, ReportedStatus, SpawnInv
  <2> QED BY <2>1, <2>2, <2>3 DEF PhaseView, Alive
<1>1. CASE Read(i) \/ ReadEof(i) \/ Write(i)
  BY <1>1, SameStutters
  DEF Read, ReadEof, Write, shellVars, childVars, PhaseView
<1>2. CASE WriteBroken(i)
  BY <1>0, <1>2, DieImplements DEF WriteBroken, Signaled, SIGPIPE
<1>3. CASE Finish(i) \/ Quit(i)
  <2>1. PICK code \in Codes : Die(i, Exited(code))
    BY <1>3 DEF Finish, Quit
  <2>2. Exited(code) \in Nat /\ Exited(code) < 65536
    BY PipelineAssumption DEF Exited
  <2> QED BY <1>0, <2>1, <2>2, DieImplements
<1> QED BY <1>1, <1>2, <1>3 DEF Program

LEMMA InterruptImplements ==
  ASSUME IInv, Interrupt PROVE [Abs!Next]_(Abs!vars)
<1>0. TypeOK BY DEF IInv
<1>1. PICK D \in SUBSET {i \in Segs : st[i] \in {"redirect", "exec", "run"}} :
        /\ st' = [i \in Segs |-> IF i \in D THEN "dead" ELSE st[i]]
        /\ status' = [i \in Segs |->
                        IF i \in D THEN Signaled(SIGINT) ELSE status[i]]
  BY DEF Interrupt
<1>2. pc' = pc /\ PhaseView' = PhaseView
  BY DEF Interrupt, PhaseView
<1>3. \/ glbStatus' = 130 /\ pc \in {"create", "spawn", "ignore"}
      \/ glbStatus' = glbStatus
  BY DEF Interrupt
<1>4. CommandView' = [i \in Segs |-> IF i \in D THEN "ended" ELSE CommandView[i]]
  <2>1. CommandView' = [k \in Segs |-> Cmd(st'[k])]
    BY CommandIsCmdNext
  <2>2. \A k \in Segs : Cmd(st'[k]) = IF k \in D THEN "ended" ELSE CommandView[k]
    BY <1>1, CmdValues, CommandIsCmd
  <2> QED BY <2>1, <2>2
<1>5. CodeView' = [i \in Segs |-> IF i \in D THEN 130 ELSE CodeView[i]]
  BY <1>1 DEF CodeView, ExtractExitStatus, Signaled, SIGINT
<1>6. CASE PhaseView = "busy"
  <2>1. D \in SUBSET {i \in Segs : CommandView[i] = "running"}
    BY CommandIsCmd, CmdValues DEF Alive
  <2>2. Abs!Interrupt
    BY <1>2, <1>3, <1>4, <1>5, <1>6, <2>1 DEF Abs!Interrupt, Abs!Segs, Segs
  <2> QED BY <2>2 DEF Abs!Next
<1>7. CASE PhaseView # "busy"
  <2>1. pc \in {"done", "abandoned"}
    BY <1>7 DEF PhaseView
  <2>2. D = {}
    BY <2>1 DEF IInv, WaitInv, ReportedStatus, SpawnInv
  <2>3. UNCHANGED <<st, status, glbStatus>>
    BY <1>0, <1>1, <1>3, <2>1, <2>2 DEF TypeOK
  <2> QED BY <1>2, <2>3, SameStutters
<1> QED BY <1>6, <1>7

LEMMA ShellImplements ==
  ASSUME IInv, Shell PROVE [Abs!Next]_(Abs!vars)
<1> USE PipelineAssumption
<1>0. TypeOK BY DEF IInv
<1>1. ASSUME NEW s \in {"dupin", "signals", "nofork"},
             pc = "spawn", idx < NSeg, st' = [st EXCEPT ![idx] = s],
             UNCHANGED <<pc, status, glbStatus>>
      PROVE  Abs!Next
  <2>1. idx \in Segs
    BY <1>0, <1>1, IdxIsSegment
  <2>2. \A k \in Segs : st[k] = "none" <=> k >= idx
    BY <1>1 DEF IInv, SpawnInv
  <2>3. CommandView[idx] = "new"
    BY <2>1, <2>2, CommandIsCmd, CmdValues DEF Segs
  <2>4. \A k \in Segs : k < idx => CommandView[k] # "new"
    <3> SUFFICES ASSUME NEW k \in Segs, k < idx PROVE CommandView[k] # "new"
      OBVIOUS
    <3>1. ~(k >= idx)
      BY <2>1 DEF Segs
    <3>2. st[k] # "none" /\ st[k] \in ChildStates
      BY <1>0, <2>2, <3>1 DEF TypeOK
    <3> QED BY <3>2, CommandIsCmd, CmdValues DEF ChildStates, Alive
  <2>5. CommandView' = [CommandView EXCEPT ![idx] = Cmd(s)]
    <3>1. CommandView' = [k \in Segs |-> Cmd(st'[k])]
      BY CommandIsCmdNext
    <3>2. \A k \in Segs : Cmd(st'[k]) = IF k = idx THEN Cmd(s) ELSE Cmd(st[k])
      BY <1>0, <1>1, <2>1 DEF TypeOK
    <3> QED BY <3>1, <3>2, CommandIsCmd
  <2>6. Cmd(s) \in {"running", "refused"}
    BY CmdValues DEF Alive
  <2>7. PhaseView = "busy" /\ PhaseView' = "busy" /\ UNCHANGED <<CodeView, glbStatus>>
    BY <1>1 DEF PhaseView, CodeView
  <2>8. Abs!Start(idx)
    BY <2>3, <2>4, <2>5, <2>6, <2>7 DEF Abs!Start, Abs!Segs, Segs
  <2> QED BY <2>1, <2>8 DEF Abs!Next, Abs!Segs, Segs
<1>2. CASE SpawnChild
  <2>1. PICK s \in {"dupin", "signals"} : st' = [st EXCEPT ![idx] = s]
    BY <1>2 DEF SpawnChild
  <2> QED BY <1>1, <1>2, <2>1 DEF SpawnChild
<1>3. CASE SpawnFails BY <1>1, <1>3 DEF SpawnFails
<1>4. CASE CreatePipeFails
  <2>1. \A i \in Segs : CommandView[i] = "new"
    BY <1>4, CommandIsCmd, CmdValues DEF CreatePipeFails, IInv, SpawnInv
  <2>2. PhaseView = "busy" /\ PhaseView' = "abandoned"
        /\ UNCHANGED <<CommandView, CodeView, glbStatus>>
    BY <1>4 DEF CreatePipeFails, PhaseView, CommandView, CodeView, childVars
  <2>3. Abs!Abandon
    BY <2>1, <2>2 DEF Abs!Abandon, Abs!Segs, Segs
  <2> QED BY <2>3 DEF Abs!Next
<1>5. CASE WaitChild
  <2>1. idx \in Segs
    BY <1>0, <1>5, IdxIsSegment DEF WaitChild
  <2>2. CommandView' = [k \in Segs |-> Cmd(st'[k])]
    BY CommandIsCmdNext
  <2>3. \A k \in Segs : Cmd(st'[k]) = Cmd(st[k])
    BY <1>0, <1>5, <2>1, CmdValues DEF WaitChild, TypeOK
  <2>4. CommandView' = CommandView
    BY <2>2, <2>3, CommandIsCmd
  <2> QED BY <1>5, <2>4 DEF WaitChild, Abs!vars, CodeView, PhaseView
<1>6. CASE SaveStatus
  <2>1. /\ PhaseView = "busy" /\ PhaseView' = "done" /\ UNCHANGED <<st, status>>
        /\ pc' = "done"
    BY <1>6 DEF SaveStatus, PhaseView, childVars
  <2>2. \A i \in Segs : st[i] \in {"nofork", "reaped"}
    BY <1>6 DEF SaveStatus, IInv, WaitInv, Segs
  <2>3. \A i \in Segs : CommandView[i] \in {"ended", "refused"}
    BY <2>2, CommandIsCmd, CmdValues
  <2>4. NSeg - 1 \in Segs
    BY DEF Segs
  <2>5. glbStatus' = IF CommandView[NSeg - 1] = "ended"
                       THEN CodeView[NSeg - 1] ELSE 0
    <3>1. last = IF st[NSeg - 1] = "reaped" THEN status[NSeg - 1] ELSE 0
      BY <1>6 DEF SaveStatus, IInv, WaitInv
    <3>2. glbStatus' = ExtractExitStatus(last)
      BY <1>6 DEF SaveStatus
    <3>3. ExtractExitStatus(0) = 0
      BY DEF ExtractExitStatus
    <3>4. CodeView[NSeg - 1] = ExtractExitStatus(status[NSeg - 1])
      BY <2>4 DEF CodeView
    <3> QED BY <2>2, <2>4, <3>1, <3>2, <3>3, <3>4, CommandIsCmd, CmdValues
  <2>6. UNCHANGED <<CommandView, CodeView>>
    BY <2>1 DEF CommandView, CodeView
  <2>7. Abs!Publish
    BY <2>1, <2>3, <2>5, <2>6 DEF Abs!Publish, Abs!Segs, Segs
  <2> QED BY <2>7 DEF Abs!Next
<1>7. CASE CreatePipe \/ CreateDone \/ SpawnDone \/ IgnoreSignals \/ ClosePipe
           \/ CloseDone \/ SkipUnforked
  BY <1>7, SameStutters
  DEF CreatePipe, CreateDone, SpawnDone, IgnoreSignals, ClosePipe, CloseDone,
      SkipUnforked, childVars, PhaseView
<1> QED BY <1>2, <1>3, <1>4, <1>5, <1>6, <1>7 DEF Shell

LEMMA NextImplements == IInv /\ [Next]_vars => [Abs!Next]_(Abs!vars)
<1> SUFFICES ASSUME IInv, [Next]_vars PROVE [Abs!Next]_(Abs!vars)
  OBVIOUS
<1>1. CASE UNCHANGED vars \/ Terminated
  BY <1>1, SameStutters DEF Terminated, vars, PhaseView
<1> QED BY <1>1, ShellImplements, SetupImplements, ProgramImplements,
           InterruptImplements DEF Next

(* Every behaviour of execute_pipeline is one PipelineAbs allows. *)
THEOREM Implements == Spec => ImplementsAbs
<1> QED BY InitImplements, NextImplements, Invariance, PTL
        DEF Spec, ImplementsAbs, Abs!Spec

=============================================================================
