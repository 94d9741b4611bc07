---------------------------- MODULE Redirections ----------------------------
(***************************************************************************)
(* The redirections of one line (exec/redirection_utils.c,                 *)
(* redirection_utils2.c, execute_redirections.c) as descriptor numbers:    *)
(* the shell opens every file of the line before it forks and keeps the    *)
(* number in the word's token; a child inherits the table and the numbers, *)
(* and moves its own files to 0 and 1; the shell closes the numbers at the *)
(* end of the line.  A number may be stale: after an error everything is   *)
(* closed, but the numbers stay in the tokens, and a pipeline then gets    *)
(* the same descriptors for its pipes.                                     *)
(*                                                                         *)
(* The children of a pipeline have separate tables, so one of them, of any *)
(* segment, stands for all.                                                *)
(***************************************************************************)
EXTENDS Integers, FiniteSets, FiniteSetsExt

CONSTANTS
  MaxSeg,   \* bound: segments of a line
  MaxRedir  \* bound: redirections of a line

ASSUME RedirectionsAssumption == MaxSeg \in Nat \ {0} /\ MaxRedir \in Nat

(* What a descriptor refers to: nothing, a pipe of the pipeline, the file  *)
(* or here-document of redirection k, or what 0 and 1 were to begin with.  *)
Free == 0
Pipe == -1
Terminal == -2

(* The numbers that can come up: every file and every pipe end at once. *)
Fds == 3 .. 2 + MaxRedir + 2 * (MaxSeg - 1)

VARIABLES
  nseg,     \* segments of the line
  inShell,  \* a single cd, export, unset or exit: no child
  emptied,  \* the segments that expansion left without a token
  redirs,   \* its redirections in order: [seg, op, next]; op is "out", "in"
            \* or "hdoc"; next is the token after it: "word", "op" (the next
            \* redirection), "pipe", "none"
  pc,       \* the shell: "redirect", "pipes", "fork", "cleanup", "finish",
            \* "done"
  i,        \* its loop over the tokens
  fdOf,     \* redirect.file_fd of the word after each operator
  tab,      \* its descriptors above 2
  pfds,     \* the numbers of the pipeline's pipes
  cpc,      \* the child: "none", "setup", "redirect", "run", "failed" (exit 1),
            \* "crashed"
  cseg, ci, ctab, cin, cout  \* its segment, loop, descriptors, 0 and 1

childVars == <<cpc, cseg, ci, ctab, cin, cout>>
lineVars  == <<nseg, inShell, emptied, redirs>>
vars == <<nseg, inShell, emptied, redirs, pc, i, fdOf, tab, pfds,
          cpc, cseg, ci, ctab, cin, cout>>

N == Cardinality(DOMAIN redirs)

(* The lines that reach redirection_infos, by their redirections (see      *)
(* Syntax): the word after an operator may have vanished.  A line can end  *)
(* with a |, which starts no segment.                                      *)
Redirs(s) == {r \in [seg : 0 .. s - 1, op : {"out", "in", "hdoc"},
                     next : {"word", "op", "pipe", "none"}] :
                r.next = "none" => r.seg = s - 1}
IsLine(r) ==
  /\ \A k \in DOMAIN r : \A m \in DOMAIN r :
       k < m => /\ r[k].seg <= r[m].seg
                /\ r[k].next \in {"pipe", "none"} => r[k].seg < r[m].seg
  /\ \A k \in DOMAIN r :
       r[k].next = "op" => k + 1 \in DOMAIN r /\ r[k + 1].seg = r[k].seg

StartLine ==
  /\ nseg \in 1..MaxSeg
  /\ \E n \in 0..MaxRedir : redirs \in {r \in [1..n -> Redirs(nseg)] : IsLine(r)}
  /\ emptied \in SUBSET {s \in 0 .. nseg - 1 : \A k \in DOMAIN redirs : redirs[k].seg # s}
  /\ inShell \in BOOLEAN
  /\ inShell => /\ nseg = 1 /\ emptied = {}
                /\ \A k \in DOMAIN redirs : redirs[k].next # "pipe"
  /\ pc = "redirect" /\ i = 1
  /\ tab = [f \in Fds |-> Free] /\ pfds = {}
  /\ cpc = "none" /\ cseg = 0 /\ ci = 1 /\ ctab = tab
  /\ cin = Terminal /\ cout = Terminal

(* init_redirect_fds *)
Init == StartLine /\ fdOf = [k \in 1..N |-> -1]

-----------------------------------------------------------------------------
(* The shell. *)

Lowest(t) == Min({f \in Fds : t[f] = Free})

(* close_redirection_fds: close(fd) for every number kept in the tokens,   *)
(* whatever it refers to by now.                                           *)
CloseNumbers(t) == [f \in Fds |-> IF \E k \in 1..N : fdOf[k] = f THEN Free ELSE t[f]]

(* process_redirection_token: open() or open_heredoc_and_write_pipe gives  *)
(* the lowest number.  An operator has no str: open(NULL) fails; a here-   *)
(* document without a delimiter crashes its reader, which the shell takes  *)
(* for a success.                                                          *)
OpenFile ==
  /\ pc = "redirect" /\ i <= N
  /\ \/ redirs[i].next = "word"
     \/ redirs[i].next # "none" /\ redirs[i].op = "hdoc"
  /\ fdOf' = [fdOf EXCEPT ![i] = Lowest(tab)]
  /\ tab' = [tab EXCEPT ![Lowest(tab)] = i]
  /\ i' = i + 1
  /\ UNCHANGED <<lineVars, pc, pfds, childVars>>

(* handle_redirection_error: everything is closed, the loop ends; main     *)
(* goes on all the same.                                                   *)
OpenFails ==
  /\ pc = "redirect" /\ i <= N
  /\ redirs[i].op # "hdoc" /\ redirs[i].next # "none"
  /\ tab' = CloseNumbers(tab)
  /\ pc' = "pipes"
  /\ UNCHANGED <<lineVars, i, fdOf, pfds, childVars>>

(* A here-document that fails or is cancelled keeps -1, the loop goes on;  *)
(* an operator that is the last token of the line is passed over.          *)
NotOpened ==
  /\ pc = "redirect" /\ i <= N
  /\ redirs[i].op = "hdoc" \/ redirs[i].next = "none"
  /\ i' = i + 1
  /\ UNCHANGED <<lineVars, pc, fdOf, tab, pfds, childVars>>

RedirectionsDone ==
  /\ pc = "redirect" /\ i = N + 1
  /\ pc' = "pipes"
  /\ UNCHANGED <<lineVars, i, fdOf, tab, pfds, childVars>>

(* create_pipes, when there is a pipe: two descriptors each. *)
CreatePipe ==
  /\ pc = "pipes" /\ Cardinality(pfds) < 2 * (nseg - 1)
  /\ LET r == Lowest(tab)
         w == Lowest([tab EXCEPT ![r] = Pipe])
     IN /\ tab' = [tab EXCEPT ![r] = Pipe, ![w] = Pipe]
        /\ pfds' = pfds \cup {r, w}
  /\ UNCHANGED <<lineVars, pc, i, fdOf, childVars>>

(* pipe() fails: cleanup_pipes, no child. *)
CreatePipeFails ==
  /\ pc = "pipes" /\ Cardinality(pfds) < 2 * (nseg - 1)
  /\ pc' = "cleanup"
  /\ UNCHANGED <<lineVars, i, fdOf, tab, pfds, childVars>>

(* The builtin runs in the shell, which keeps its own 0 and 1. *)
RunInShell ==
  /\ pc = "pipes" /\ inShell
  /\ pc' = "cleanup"
  /\ UNCHANGED <<lineVars, i, fdOf, tab, pfds, childVars>>

(* fork() of the child of any segment. *)
Fork ==
  /\ pc = "pipes" /\ ~inShell /\ Cardinality(pfds) = 2 * (nseg - 1)
  /\ cseg' \in 0 .. nseg - 1
  /\ cpc' = "setup" /\ ctab' = tab
  /\ pc' = "cleanup"
  /\ UNCHANGED <<lineVars, i, fdOf, tab, pfds, ci, cin, cout>>

(* close_all_pipes *)
ClosePipes ==
  /\ pc = "cleanup"
  /\ tab' = [f \in Fds |-> IF f \in pfds THEN Free ELSE tab[f]]
  /\ pc' = "finish"
  /\ UNCHANGED <<lineVars, i, fdOf, pfds, childVars>>

(* Mutant of Finish: a pipeline goes back to the prompt without            *)
(* close_redirection_fds.                                                  *)
FinishSimpleOnly ==
  /\ pc = "finish"
  /\ tab' = IF nseg = 1 THEN CloseNumbers(tab) ELSE tab
  /\ pc' = "done"
  /\ UNCHANGED <<lineVars, i, fdOf, pfds, childVars>>

(* close_redirection_fds at the end of the line, stale numbers included. *)
Finish ==
  /\ pc = "finish"
  /\ tab' = CloseNumbers(tab)
  /\ pc' = "done"
  /\ UNCHANGED <<lineVars, i, fdOf, pfds, childVars>>

-----------------------------------------------------------------------------
(* The child. *)

shellVars == <<pc, i, fdOf, tab, pfds>>

(* Mutant of SetupPipes: the first child does not close the pipes. *)
SetupPipesFirstKeeps ==
  /\ cpc = "setup" /\ cpc' = "redirect"
  /\ cin' = IF cseg > 0 THEN Pipe ELSE Terminal
  /\ cout' = IF cseg < nseg - 1 THEN Pipe ELSE Terminal
  /\ ctab' = [f \in Fds |-> IF f \in pfds /\ cseg > 0 THEN Free ELSE ctab[f]]
  /\ UNCHANGED <<lineVars, shellVars, cseg, ci>>

(* setup_child_pipes: 0 and 1, then every pipe number is closed. *)
SetupPipes ==
  /\ cpc = "setup" /\ cpc' = "redirect"
  /\ cin' = IF cseg > 0 THEN Pipe ELSE Terminal
  /\ cout' = IF cseg < nseg - 1 THEN Pipe ELSE Terminal
  /\ ctab' = [f \in Fds |-> IF f \in pfds THEN Free ELSE ctab[f]]
  /\ UNCHANGED <<lineVars, shellVars, cseg, ci>>

(* child_executor cuts the list after the last token of the segment; that  *)
(* of an emptied segment starts with the | behind it, and is not cut.      *)
InList(k) ==
  \/ redirs[k].seg = cseg
  \/ cseg \in emptied /\ redirs[k].seg > cseg

(* Is there a token after the operator in that list? *)
HasNext(k) ==
  \/ redirs[k].next \in {"word", "op"}
  \/ redirs[k].next = "pipe" /\ cseg \in emptied

(* A redirection that is not in the child's list. *)
SkipOthers ==
  /\ cpc = "redirect" /\ ci <= N /\ ~InList(ci)
  /\ ci' = ci + 1
  /\ UNCHANGED <<lineVars, shellVars, cpc, cseg, ctab, cin, cout>>

MineNext == cpc = "redirect" /\ ci <= N /\ InList(ci)

(* The operator is the last token of the list: tokens->next is NULL. *)
NoWord ==
  /\ MineNext /\ ~HasNext(ci)
  /\ cpc' = "crashed"
  /\ UNCHANGED <<lineVars, shellVars, cseg, ci, ctab, cin, cout>>

(* dup2(object, 0 or 1) *)
Dup2(object) ==
  /\ cin' = IF redirs[ci].op = "out" THEN cin ELSE object
  /\ cout' = IF redirs[ci].op = "out" THEN object ELSE cout

(* Mutant of UseNumber: a dup2 that fails is not noticed. *)
UseNumberGoesOn ==
  /\ MineNext /\ HasNext(ci) /\ fdOf[ci] # -1
  /\ IF ctab[fdOf[ci]] = Free
       THEN UNCHANGED <<ctab, cin, cout>>
       ELSE Dup2(ctab[fdOf[ci]]) /\ ctab' = [ctab EXCEPT ![fdOf[ci]] = Free]
  /\ ci' = ci + 1
  /\ UNCHANGED <<lineVars, shellVars, cseg, cpc>>

(* handle_fd on the inherited number: dup2 fails when it is not open. *)
UseNumber ==
  /\ MineNext /\ HasNext(ci) /\ fdOf[ci] # -1
  /\ IF ctab[fdOf[ci]] = Free
       THEN cpc' = "failed" /\ UNCHANGED <<ci, ctab, cin, cout>>
       ELSE /\ Dup2(ctab[fdOf[ci]])
            /\ ctab' = [ctab EXCEPT ![fdOf[ci]] = Free]
            /\ ci' = ci + 1 /\ UNCHANGED cpc
  /\ UNCHANGED <<lineVars, shellVars, cseg>>

(* open_redir_fd: the child opens the file, or asks for the here-document, *)
(* a second time; handle_fd closes the number after dup2.  Of an operator  *)
(* open(NULL) fails, and so does the message, that names the file.         *)
OpenAgain ==
  /\ MineNext /\ HasNext(ci) /\ fdOf[ci] = -1
  /\ \/ /\ redirs[ci].next = "word" \/ redirs[ci].op = "hdoc"
        /\ Dup2(ci) /\ ci' = ci + 1 /\ UNCHANGED cpc
     \/ /\ cpc' = IF redirs[ci].next = "word" THEN "failed" ELSE "crashed"
        /\ UNCHANGED <<ci, cin, cout>>
  /\ UNCHANGED <<lineVars, shellVars, cseg, ctab>>

StartProgram ==
  /\ cpc = "redirect" /\ ci = N + 1
  /\ cpc' = "run"
  /\ UNCHANGED <<lineVars, shellVars, cseg, ci, ctab, cin, cout>>

Done ==
  /\ pc = "done" /\ cpc \in {"none", "run", "failed", "crashed"}
  /\ UNCHANGED vars

Next ==
  \/ OpenFile \/ OpenFails \/ NotOpened \/ RedirectionsDone
  \/ CreatePipe \/ CreatePipeFails \/ RunInShell \/ Fork
  \/ ClosePipes \/ Finish
  \/ SetupPipes \/ SkipOthers \/ NoWord \/ UseNumber \/ OpenAgain
  \/ StartProgram
  \/ Done

Spec == Init /\ [][Next]_vars

-----------------------------------------------------------------------------
(* Properties *)

Objects == {Free, Pipe} \cup 1..N

TypeOK ==
  /\ nseg \in 1..MaxSeg /\ inShell \in BOOLEAN /\ emptied \subseteq 0 .. nseg - 1
  /\ pc \in {"redirect", "pipes", "cleanup", "finish", "done"}
  /\ i \in 1 .. N + 1 /\ ci \in 1 .. N + 1
  /\ fdOf \in [1..N -> Fds \cup {-1}]
  /\ tab \in [Fds -> Objects] /\ ctab \in [Fds -> Objects]
  /\ pfds \subseteq Fds /\ cseg \in 0 .. MaxSeg - 1
  /\ cpc \in {"none", "setup", "redirect", "run", "failed", "crashed"}
  /\ cin \in {Terminal, Pipe} \cup 1..N /\ cout \in {Terminal, Pipe} \cup 1..N

(* The redirections of the child's list that go to descriptor 0 or 1. *)
Mine(ops) == {k \in 1..N : InList(k) /\ redirs[k].op \in ops}

(* A command that runs has the file of the last redirection of each kind   *)
(* in its list, and without one its pipe or the terminal: never the file   *)
(* or the pipe of somebody else that has got a stale number.  It gets no   *)
(* second descriptor of these files and no pipe end; what it does inherit  *)
(* above 2 are files outside its list.  The list is that of its segment,   *)
(* and for a segment that expansion emptied all that follow it.            *)
RunsWithItsOwnFiles ==
  cpc = "run" =>
    /\ cin = IF Mine({"in", "hdoc"}) # {} THEN Max(Mine({"in", "hdoc"}))
             ELSE IF cseg > 0 THEN Pipe ELSE Terminal
    /\ cout = IF Mine({"out"}) # {} THEN Max(Mine({"out"}))
              ELSE IF cseg < nseg - 1 THEN Pipe ELSE Terminal
    /\ \A f \in Fds : ctab[f] # Free =>
         ctab[f] \in 1..N /\ ~InList(ctab[f])

(* Wherever a number is about to be used, by dup2 in the child or by the   *)
(* close at the end of the line in the shell, it denotes the file it was   *)
(* stored for or nothing, although pipes may have had it in between.       *)
NumberNeverAliased ==
  /\ cpc = "redirect" => \A k \in 1..N : fdOf[k] # -1 => ctab[fdOf[k]] \in {Free, k}
  /\ pc = "finish" => \A k \in 1..N : fdOf[k] # -1 => tab[fdOf[k]] \in {Free, k}

(* However the line went, the shell is back at its prompt with the         *)
(* descriptors it had before: no line can use them up.                     *)
TableRestored == pc = "done" => \A f \in Fds : tab[f] = Free
=============================================================================
