------------------------- MODULE RedirectionsProofs --------------------------
(***************************************************************************)
(* The properties of Redirections hold for lines with any number of        *)
(* segments and redirections.                                              *)
(***************************************************************************)
EXTENDS Redirections, FiniteSetTheorems, FunctionTheorems,
        WellFoundedInduction, TLAPS

(* The line does not change. *)
LineInv ==
  /\ N \in 0..MaxRedir /\ DOMAIN redirs = 1..N
  /\ \A k \in 1..N : redirs[k].op \in {"out", "in", "hdoc"}

(* In table t an open file has its number in its token, and the pipes are  *)
(* those of the pipeline.                                                  *)
Numbered(t) ==
  \A f \in Fds : /\ t[f] \in 1..N => fdOf[t[f]] = f
                 /\ t[f] = Pipe => f \in pfds

(* No two tokens share a number, however stale; while the shell opens the  *)
(* files every number it has stored is open.                               *)
NumbersInv ==
  /\ Numbered(tab)
  /\ \A k, m \in 1..N : fdOf[k] = fdOf[m] /\ fdOf[k] # -1 => k = m
  /\ pc = "redirect" =>
       /\ \A k \in 1..N : fdOf[k] # -1 => tab[fdOf[k]] = k
       /\ \A k \in i..N : fdOf[k] = -1

(* Pipes come in pairs, after the files and until they are closed. *)
PipesInv ==
  /\ Cardinality(pfds) \in {2 * j : j \in 0 .. nseg - 1}
  /\ pc = "redirect" => pfds = {}
  /\ pc = "pipes" => \A f \in pfds : tab[f] = Pipe
  /\ pc \in {"finish", "done"} => \A f \in Fds : tab[f] # Pipe
  /\ pc = "done" => \A f \in Fds : tab[f] = Free

(* The redirections of the child's list that it has dealt with. *)
MineSoFar(ops) == {k \in Mine(ops) : k < ci}

(* It has the last of these at 0 and 1, and nothing else of its list in    *)
(* its table than what is still to come.                                   *)
StreamsInv ==
  /\ cin = IF MineSoFar({"in", "hdoc"}) # {} THEN Max(MineSoFar({"in", "hdoc"}))
           ELSE IF cseg > 0 THEN Pipe ELSE Terminal
  /\ cout = IF MineSoFar({"out"}) # {} THEN Max(MineSoFar({"out"}))
            ELSE IF cseg < nseg - 1 THEN Pipe ELSE Terminal
OwnFilesInv ==
  \A f \in Fds : ctab[f] # Free /\ InList(ctab[f]) => ctab[f] >= ci

ChildInv ==
  /\ cpc # "none" => pc \in {"cleanup", "finish", "done"} /\ Numbered(ctab)
  /\ cpc \in {"none", "setup"} => ci = 1
  /\ cpc \notin {"none", "setup"} => \A f \in Fds : ctab[f] # Pipe
  /\ cpc = "run" => ci = N + 1
  /\ cpc \in {"redirect", "run"} => StreamsInv /\ OwnFilesInv

IInv == TypeOK /\ LineInv /\ NumbersInv /\ PipesInv /\ ChildInv

-----------------------------------------------------------------------------
(* The least and the greatest of a set of numbers. *)
LEMMA MinIsMember ==
  ASSUME NEW S \in SUBSET Nat, S # {}
  PROVE  Min(S) \in S
<1> DEFINE below == {p \in Nat \X Nat : p[1] < p[2]}
<1>1. IsWellFoundedOn(below, Nat)
  <2>1. OpToRel(<, Nat) = below
    BY DEF OpToRel
  <2> QED BY <2>1, NatLessThanWellFounded, Zenon
<1>2. PICK m \in S : \A n \in S : <<n, m>> \notin below
  BY <1>1, WFMin
<1>3. ASSUME NEW n \in S, n < m PROVE FALSE
  <2>1. <<n, m>> \in below
    BY <1>3
  <2> QED BY <1>2, <2>1
<1>4. \A n \in S : m <= n
  BY <1>3
<1> QED BY <1>4 DEF Min

LEMMA MaxIsGreatest ==
  ASSUME NEW S \in SUBSET Int, NEW m \in S, \A n \in S : n <= m
  PROVE  Max(S) = m
<1>1. \A n \in S : n \in Int /\ m >= n
  OBVIOUS
<1>2. ASSUME NEW x \in S, \A n \in S : x >= n PROVE x = m
  BY <1>1, <1>2
<1> QED BY <1>1, <1>2 DEF Max

-----------------------------------------------------------------------------
(* There is always room in the table: with m files and the descriptors of  *)
(* P in it, fewer than there are numbers, the lowest free number exists.   *)
LEMMA Room ==
  ASSUME NEW t \in [Fds -> Objects], NEW m \in Nat, NEW P \in SUBSET Fds,
         \A f \in Fds : t[f] \in {Free} \cup 1..m \/ f \in P,
         \A f \in Fds : t[f] \in 1..m => fdOf[t[f]] = f,
         m + Cardinality(P) < MaxRedir + 2 * (MaxSeg - 1)
  PROVE  Lowest(t) \in Fds /\ t[Lowest(t)] = Free
<1>1. IsFiniteSet(Fds) /\ Cardinality(Fds) = MaxRedir + 2 * (MaxSeg - 1)
  <2> DEFINE last == 2 + MaxRedir + 2 * (MaxSeg - 1)
  <2>1. last \in Int /\ last >= 2 /\ last - 3 + 1 = MaxRedir + 2 * (MaxSeg - 1)
    BY RedirectionsAssumption
  <2> HIDE DEF last
  <2>2. IsFiniteSet(3..last) /\ Cardinality(3..last) = IF 3 > last THEN 0 ELSE last - 3 + 1
    <3>1. 3 \in Int OBVIOUS
    <3> QED BY <2>1, <3>1, FS_Interval, Zenon
  <2>3. Cardinality(3..last) = last - 3 + 1
    BY <2>1, <2>2
  <2> QED BY <2>1, <2>2, <2>3 DEF Fds, last
<1>2. IsFiniteSet(P) /\ Cardinality(P) \in Nat
  BY <1>1, FS_Subset, FS_CardinalityType
<1>3. \E f \in Fds : t[f] = Free
  <2> SUFFICES ASSUME \A f \in Fds : t[f] # Free PROVE FALSE
    OBVIOUS
  <2> DEFINE g == [f \in Fds \ P |-> t[f]]
  <2>1. g \in [Fds \ P -> 1..m]
    OBVIOUS
  <2>2. \A a, b \in Fds \ P : g[a] = g[b] => a = b
    BY <2>1
  <2>3. g \in Injection(Fds \ P, 1..m)
    BY <2>1, <2>2, Fun_IsInj
  <2>4. Cardinality(Fds \ P) <= m
    <3>1. IsFiniteSet(1..m) /\ Cardinality(1..m) = IF 1 > m THEN 0 ELSE m - 1 + 1
      BY FS_Interval
    <3>2. Cardinality(Fds \ P) <= Cardinality(1..m)
      BY <2>3, <3>1, FS_Injection
    <3> QED BY <3>1, <3>2
  <2>5. Cardinality(Fds \ P) = Cardinality(Fds) - Cardinality(P)
    <3>1. Fds \cap P = P OBVIOUS
    <3> QED BY <1>1, <3>1, FS_Difference
  <2> QED BY <1>1, <1>2, <2>4, <2>5, RedirectionsAssumption
<1>4. {f \in Fds : t[f] = Free} \in SUBSET Nat
  BY DEF Fds
<1> QED BY <1>3, <1>4, MinIsMember DEF Lowest

-----------------------------------------------------------------------------
(* A line starts in the invariant. *)
LEMMA Initially == Init => IInv
<1> SUFFICES ASSUME Init PROVE IInv
  OBVIOUS
<1>1. PICK n \in 0..MaxRedir : redirs \in [1..n -> Redirs(nseg)]
  BY DEF Init, StartLine
<1>2. n \in Nat /\ n <= MaxRedir
  BY <1>1, RedirectionsAssumption
<1>3. N = n
  <2>1. DOMAIN redirs = 1..n
    BY <1>1
  <2>2. Cardinality(1..n) = IF 1 > n THEN 0 ELSE n - 1 + 1
    BY <1>2, FS_Interval
  <2> QED BY <1>2, <2>1, <2>2 DEF N
<1>4. LineInv
  <2>1. \A r \in Redirs(nseg) : r.op \in {"out", "in", "hdoc"}
    BY DEF Redirs
  <2> QED BY <1>1, <1>2, <1>3, <2>1 DEF LineInv
<1>5. nseg \in 1..MaxSeg /\ inShell \in BOOLEAN /\ emptied \subseteq 0 .. nseg - 1
  BY DEF Init, StartLine
<1>6. TypeOK
  <2>1. tab \in [Fds -> Objects] /\ ctab \in [Fds -> Objects] /\ fdOf \in [1..N -> Fds \cup {-1}]
    BY DEF Init, StartLine, Objects
  <2>2. pc = "redirect" /\ i = 1 /\ ci = 1 /\ pfds = {} /\ cseg = 0 /\ cpc = "none"
        /\ cin = Terminal /\ cout = Terminal
    BY DEF Init, StartLine
  <2> QED BY <1>2, <1>3, <1>5, <2>1, <2>2, RedirectionsAssumption DEF TypeOK
<1>7. NumbersInv
  BY DEF Init, StartLine, NumbersInv, Numbered, Free, Pipe
<1>8. PipesInv
  <2>1. Cardinality(pfds) = 0 /\ pfds = {} /\ pc = "redirect"
    BY FS_EmptySet DEF Init, StartLine
  <2>2. 0 = 2 * 0 /\ 0 \in 0 .. nseg - 1
    BY <1>5, RedirectionsAssumption
  <2> QED BY <2>1, <2>2 DEF PipesInv
<1>9. ChildInv
  BY DEF Init, StartLine, ChildInv
<1> QED BY <1>4, <1>6, <1>7, <1>8, <1>9 DEF IInv

(* The steps of the shell change nothing of the line and of its child.     *)
LEMMA LineKept ==
  ASSUME UNCHANGED lineVars
  PROVE  N' = N /\ Objects' = Objects /\ (LineInv => LineInv')
  BY DEF lineVars, N, Objects, LineInv

LEMMA ChildKept ==
  ASSUME IInv, UNCHANGED <<lineVars, childVars>>,
         cpc # "none" => UNCHANGED <<fdOf, pfds>> /\ pc' \in {"cleanup", "finish", "done"}
  PROVE  ChildInv'
<1>1. UNCHANGED <<nseg, emptied, redirs, cpc, cseg, ci, ctab, cin, cout>> /\ N' = N
  BY LineKept DEF lineVars, childVars
<1>2. StreamsInv' = StreamsInv /\ OwnFilesInv' = OwnFilesInv
  BY <1>1 DEF StreamsInv, OwnFilesInv, MineSoFar, Mine, InList
<1>3. cpc # "none" => Numbered(ctab)' = Numbered(ctab)
  BY <1>1, LineKept DEF Numbered
<1> QED BY <1>1, <1>2, <1>3 DEF IInv, ChildInv

(* The shell opens a file: it gets a number that no token has. *)
LEMMA OpenFileStep == ASSUME IInv, OpenFile PROVE IInv'
<1> DEFINE f0 == Lowest(tab)
<1>1. /\ pc = "redirect" /\ i \in 1..N /\ N \in Nat /\ N <= MaxRedir
      /\ fdOf' = [fdOf EXCEPT ![i] = f0] /\ tab' = [tab EXCEPT ![f0] = i] /\ i' = i + 1
      /\ UNCHANGED <<lineVars, childVars, pc, pfds>>
  BY DEF OpenFile, IInv, TypeOK, LineInv
<1>2. f0 \in Fds /\ tab[f0] = Free
  <2>1. \A f \in Fds : tab[f] \in {Free} \cup 1 .. i - 1
    <3>1. \A f \in Fds : tab[f] \in {Free} \cup 1..N
      BY <1>1 DEF IInv, TypeOK, NumbersInv, Numbered, PipesInv, Objects
    <3>2. \A k \in i..N : fdOf[k] = -1
      BY <1>1 DEF IInv, NumbersInv
    <3>3. \A f \in Fds : f # -1 /\ (tab[f] \in 1..N => fdOf[tab[f]] = f)
      BY DEF IInv, NumbersInv, Numbered, Fds
    <3>4. \A k \in 1..N : k \in i..N \/ k \in 1 .. i - 1
      BY <1>1
    <3> QED BY <3>1, <3>2, <3>3, <3>4
  <2>2. \A f \in Fds : tab[f] \in 1 .. i - 1 => fdOf[tab[f]] = f
    BY <1>1 DEF IInv, NumbersInv, Numbered
  <2>3. i - 1 + Cardinality({}) < MaxRedir + 2 * (MaxSeg - 1)
    BY <1>1, FS_EmptySet, RedirectionsAssumption
  <2>4. tab \in [Fds -> Objects] /\ i - 1 \in Nat /\ {} \in SUBSET Fds
    BY <1>1 DEF IInv, TypeOK
  <2> QED BY <2>1, <2>2, <2>3, <2>4, Room
<1> HIDE DEF f0
<1>3. \A k \in 1..N : fdOf[k] # f0
  BY <1>1, <1>2 DEF IInv, NumbersInv, Free, Fds
<1>4. N' = N /\ Objects' = Objects /\ LineInv'
  BY <1>1, LineKept DEF IInv
<1>5. TypeOK'
  <2>1. tab' \in [Fds -> Objects'] /\ fdOf' \in [1..N' -> Fds \cup {-1}] /\ i' \in 1 .. N' + 1
    BY <1>1, <1>2, <1>4 DEF IInv, TypeOK, Objects
  <2> QED BY <1>1, <1>4, <2>1 DEF IInv, TypeOK, lineVars, childVars
<1>6. NumbersInv'
  <2>1. /\ \A k \in 1..N : fdOf'[k] = IF k = i THEN f0 ELSE fdOf[k]
        /\ \A f \in Fds : tab'[f] = IF f = f0 THEN i ELSE tab[f]
    BY <1>1, <1>2 DEF IInv, TypeOK
  <2>2. Numbered(tab)'
    BY <1>1, <1>2, <1>3, <1>4, <2>1 DEF IInv, NumbersInv, Numbered, Pipe, Fds
  <2>3. \A k, m \in 1..N : fdOf'[k] = fdOf'[m] /\ fdOf'[k] # -1 => k = m
    BY <1>3, <2>1 DEF IInv, NumbersInv
  <2>4. \A k \in 1..N : fdOf'[k] # -1 => tab'[fdOf'[k]] = k
    BY <1>1, <1>2, <1>3, <2>1 DEF IInv, TypeOK, NumbersInv
  <2>5. \A k \in i' .. N : fdOf'[k] = -1
    BY <1>1, <2>1 DEF IInv, NumbersInv
  <2> QED BY <1>4, <2>2, <2>3, <2>4, <2>5 DEF NumbersInv
<1>7. PipesInv' /\ ChildInv'
  BY <1>1, ChildKept DEF IInv, PipesInv, ChildInv, lineVars
<1> QED BY <1>4, <1>5, <1>6, <1>7 DEF IInv

(* The other steps of redirection_infos; an error closes every file.       *)
LEMMA OpeningStep ==
  ASSUME IInv, OpenFails \/ NotOpened \/ RedirectionsDone
  PROVE  IInv'
<1>1. /\ pc = "redirect" /\ UNCHANGED <<lineVars, childVars, fdOf, pfds>>
      /\ N' = N /\ Objects' = Objects /\ LineInv'
  BY LineKept DEF IInv, OpenFails, NotOpened, RedirectionsDone
<1>2. ChildInv' /\ UNCHANGED <<nseg, inShell, emptied, cpc, cseg, ci, ctab, cin, cout>>
  BY <1>1, ChildKept DEF IInv, ChildInv, lineVars, childVars
<1>3. CASE OpenFails
  <2>1. /\ pc' = "pipes" /\ i' = i
        /\ \A f \in Fds : tab'[f] = IF \E k \in 1..N : fdOf[k] = f THEN Free ELSE tab[f]
    BY <1>3 DEF OpenFails, CloseNumbers
  <2>2. tab' \in [Fds -> Objects]
    BY <1>3 DEF OpenFails, CloseNumbers, IInv, TypeOK, Objects
  <2>3. \A f \in Fds : tab'[f] = Free
    BY <1>1, <2>1 DEF IInv, TypeOK, NumbersInv, Numbered, PipesInv, Objects
  <2>4. TypeOK'
    BY <1>1, <1>2, <2>1, <2>2 DEF IInv, TypeOK
  <2>5. NumbersInv'
    BY <1>1, <2>1, <2>3 DEF IInv, NumbersInv, Numbered, Free, Pipe
  <2>6. PipesInv'
    BY <1>1, <1>2, <2>1 DEF IInv, PipesInv
  <2> QED BY <1>1, <1>2, <2>4, <2>5, <2>6 DEF IInv
<1>4. CASE NotOpened \/ RedirectionsDone
  <2>1. /\ tab' = tab /\ i' \in 1 .. N + 1 /\ i' >= i
        /\ pc' \in {"redirect", "pipes"}
    BY <1>4 DEF NotOpened, RedirectionsDone, IInv, TypeOK, LineInv
  <2>2. TypeOK'
    BY <1>1, <1>2, <2>1 DEF IInv, TypeOK
  <2>3. NumbersInv'
    <3>1. \A k \in i' .. N : k \in i .. N
      BY <2>1 DEF IInv, TypeOK, LineInv
    <3> QED BY <1>1, <2>1, <3>1 DEF IInv, NumbersInv, Numbered
  <2>4. PipesInv'
    BY <1>1, <1>2, <2>1 DEF IInv, PipesInv
  <2> QED BY <1>1, <1>2, <2>2, <2>3, <2>4 DEF IInv
<1> QED BY <1>3, <1>4

(* A pipe takes two free numbers, stale ones perhaps. *)
LEMMA CreatePipeStep == ASSUME IInv, CreatePipe PROVE IInv'
<1> DEFINE r == Lowest(tab)
           between == [tab EXCEPT ![r] = Pipe]
           w == Lowest(between)
<1>1. /\ pc = "pipes" /\ Cardinality(pfds) < 2 * (nseg - 1)
      /\ tab' = [tab EXCEPT ![r] = Pipe, ![w] = Pipe] /\ pfds' = pfds \cup {r, w}
      /\ UNCHANGED <<lineVars, childVars, pc, i, fdOf>>
      /\ N \in Nat /\ N <= MaxRedir /\ tab \in [Fds -> Objects]
  BY RedirectionsAssumption DEF CreatePipe, IInv, TypeOK, LineInv
<1>2. PICK j \in 0 .. nseg - 1 : Cardinality(pfds) = 2 * j
  BY DEF IInv, PipesInv
<1>3. /\ nseg \in Nat /\ nseg <= MaxSeg /\ j \in Nat /\ j + 1 <= nseg - 1
      /\ N + (2 * j + 1) < MaxRedir + 2 * (MaxSeg - 1)
  BY <1>1, <1>2, RedirectionsAssumption DEF IInv, TypeOK
<1>4. /\ pfds \in SUBSET Fds /\ IsFiniteSet(pfds)
      /\ \A f \in Fds : tab[f] \in {Free} \cup 1..N \/ f \in pfds
      /\ \A f \in Fds : tab[f] \in 1..N => fdOf[tab[f]] = f
  <2>1. IsFiniteSet(Fds)
    BY RedirectionsAssumption, FS_Interval DEF Fds
  <2> QED BY <1>1, <2>1, FS_Subset DEF IInv, TypeOK, NumbersInv, Numbered, Objects
<1>5. r \in Fds /\ tab[r] = Free
  <2>1. N + Cardinality(pfds) < MaxRedir + 2 * (MaxSeg - 1)
    BY <1>1, <1>2, <1>3, RedirectionsAssumption
  <2> QED BY <1>1, <1>4, <2>1, Room
<1> HIDE DEF r
<1>6. r \notin pfds
  BY <1>1, <1>5 DEF IInv, PipesInv, Free, Pipe
<1>7. Cardinality(pfds \cup {r}) = 2 * j + 1
  BY <1>2, <1>4, <1>6, FS_AddElement
<1>8. w \in Fds /\ between[w] = Free
  <2>1. between \in [Fds -> Objects]
    BY <1>1, <1>5 DEF Objects
  <2>2. \A f \in Fds : between[f] \in {Free} \cup 1..N \/ f \in pfds \cup {r}
    BY <1>1, <1>4, <1>5
  <2>3. \A f \in Fds : between[f] \in 1..N => fdOf[between[f]] = f
    BY <1>1, <1>4, <1>5 DEF Pipe
  <2>4. N + Cardinality(pfds \cup {r}) < MaxRedir + 2 * (MaxSeg - 1)
    BY <1>3, <1>7
  <2>5. pfds \cup {r} \in SUBSET Fds
    BY <1>4, <1>5
  <2> HIDE DEF between
  <2> QED BY <1>1, <2>1, <2>2, <2>3, <2>4, <2>5, Room
<1> HIDE DEF w
<1>9. w # r /\ tab[w] = Free /\ w \notin pfds
  BY <1>1, <1>5, <1>8 DEF IInv, PipesInv, Free, Pipe
<1>10. Cardinality(pfds') = 2 * (j + 1) /\ pfds' \subseteq Fds
  <2>1. IsFiniteSet(pfds \cup {r}) /\ pfds' = (pfds \cup {r}) \cup {w}
    BY <1>1, <1>4, FS_AddElement
  <2>2. Cardinality(pfds') = 2 * j + 1 + 1
    BY <1>6, <1>7, <1>9, <2>1, FS_AddElement
  <2> QED BY <1>1, <1>3, <1>4, <1>5, <1>8, <2>2
<1>11. \A f \in Fds : tab'[f] = IF f \in {r, w} THEN Pipe ELSE tab[f]
  BY <1>1, <1>5, <1>8
<1>12. N' = N /\ Objects' = Objects /\ LineInv'
  BY <1>1, LineKept DEF IInv
<1>13. ChildInv' /\ UNCHANGED <<nseg, inShell, emptied, cpc, cseg, ci, ctab, cin, cout>>
  BY <1>1, ChildKept DEF IInv, ChildInv, lineVars, childVars
<1>14. TypeOK'
  <2>1. tab' \in [Fds -> Objects]
    BY <1>1, <1>5, <1>8 DEF Objects
  <2> QED BY <1>1, <1>10, <1>12, <1>13, <2>1 DEF IInv, TypeOK
<1>15. NumbersInv'
  BY <1>1, <1>11, <1>12 DEF IInv, NumbersInv, Numbered, Pipe
<1>16. PipesInv'
  <2>1. Cardinality(pfds') \in {2 * n : n \in 0 .. nseg - 1}
    BY <1>3, <1>10
  <2>2. \A f \in pfds' : tab'[f] = Pipe
    BY <1>1, <1>4, <1>5, <1>8, <1>11 DEF IInv, PipesInv
  <2> QED BY <1>1, <1>13, <2>1, <2>2 DEF PipesInv
<1> QED BY <1>12, <1>13, <1>14, <1>15, <1>16 DEF IInv

(* The rest of the line in the shell. *)
LEMMA LeavingStep ==
  ASSUME IInv, CreatePipeFails \/ RunInShell \/ ClosePipes \/ Finish
  PROVE  IInv'
<1>1. /\ UNCHANGED <<lineVars, childVars, i, fdOf, pfds>>
      /\ pc' \in {"cleanup", "finish", "done"}
  BY DEF CreatePipeFails, RunInShell, ClosePipes, Finish
<1>2. N' = N /\ Objects' = Objects /\ LineInv' /\ ChildInv'
      /\ UNCHANGED <<nseg, inShell, emptied, cpc, cseg, ci, ctab, cin, cout>>
  BY <1>1, LineKept, ChildKept DEF IInv, lineVars, childVars
<1>3. CASE CreatePipeFails \/ RunInShell
  <2>1. tab' = tab /\ pc' = "cleanup"
    BY <1>3 DEF CreatePipeFails, RunInShell
  <2> QED BY <1>1, <1>2, <2>1 DEF IInv, TypeOK, NumbersInv, Numbered, PipesInv
<1>4. CASE ClosePipes
  <2>1. pc' = "finish" /\ tab' = [f \in Fds |-> IF f \in pfds THEN Free ELSE tab[f]]
    BY <1>4 DEF ClosePipes
  <2>2. TypeOK'
    BY <1>1, <1>2, <2>1 DEF IInv, TypeOK, Objects
  <2>3. NumbersInv' /\ \A f \in Fds : tab'[f] # Pipe
    BY <1>1, <1>2, <2>1 DEF IInv, NumbersInv, Numbered, Free, Pipe
  <2> QED BY <1>1, <1>2, <2>1, <2>2, <2>3 DEF IInv, PipesInv
<1>5. CASE Finish
  <2>1. /\ pc = "finish" /\ pc' = "done"
        /\ tab' = [f \in Fds |-> IF \E k \in 1..N : fdOf[k] = f THEN Free ELSE tab[f]]
    BY <1>5 DEF Finish, CloseNumbers
  <2>2. TypeOK'
    BY <1>1, <1>2, <2>1 DEF IInv, TypeOK, Objects
  <2>3. \A f \in Fds : tab'[f] = Free
    BY <2>1 DEF IInv, TypeOK, NumbersInv, Numbered, PipesInv, Objects
  <2>4. NumbersInv' /\ PipesInv'
    BY <1>1, <1>2, <2>1, <2>3 DEF IInv, NumbersInv, Numbered, PipesInv, Free, Pipe
  <2> QED BY <1>2, <2>2, <2>4 DEF IInv
<1> QED BY <1>3, <1>4, <1>5

(* The child gets the table as it is. *)
LEMMA ForkStep == ASSUME IInv, Fork PROVE IInv'
<1>1. /\ cpc' = "setup" /\ ctab' = tab /\ pc' = "cleanup" /\ cseg' \in 0 .. nseg - 1
      /\ UNCHANGED <<lineVars, i, fdOf, tab, pfds, ci, cin, cout>>
  BY DEF Fork
<1>2. pc = "pipes" /\ cpc = "none" /\ ci = 1 /\ cseg' \in 0 .. MaxSeg - 1
  BY <1>1, RedirectionsAssumption DEF Fork, IInv, TypeOK, ChildInv
<1>3. N' = N /\ Objects' = Objects /\ LineInv' /\ UNCHANGED <<nseg, inShell, emptied>>
  BY <1>1, LineKept DEF IInv, lineVars
<1>4. TypeOK'
  BY <1>1, <1>2, <1>3 DEF IInv, TypeOK
<1>5. NumbersInv' /\ PipesInv' /\ ChildInv'
  BY <1>1, <1>2, <1>3 DEF IInv, NumbersInv, Numbered, PipesInv, ChildInv
<1> QED BY <1>3, <1>4, <1>5 DEF IInv

(* A number that a child is about to use denotes its file or nothing.      *)
LEMMA ChildsNumber ==
  ASSUME IInv, cpc \notin {"none", "setup"}, NEW k \in 1..N, fdOf[k] # -1
  PROVE  ctab[fdOf[k]] \in {Free, k}
  BY DEF IInv, TypeOK, NumbersInv, Numbered, ChildInv, Objects

(* What is dealt with as the child goes on to its next token. *)
LEMMA Advance ==
  ASSUME IInv, ci \in 1..N, ci' = ci + 1, UNCHANGED <<redirs, emptied, cseg>>, NEW ops
  PROVE  /\ MineSoFar(ops)' = IF InList(ci) /\ redirs[ci].op \in ops
                                THEN MineSoFar(ops) \cup {ci} ELSE MineSoFar(ops)
         /\ Max(MineSoFar(ops) \cup {ci}) = ci
<1>1. MineSoFar(ops) \cup {ci} \in SUBSET Int /\ \A k \in MineSoFar(ops) \cup {ci} : k <= ci
  BY DEF MineSoFar, Mine, IInv, LineInv
<1>2. Max(MineSoFar(ops) \cup {ci}) = ci
  BY <1>1, MaxIsGreatest
<1>3. \A k \in 1..N : k < ci + 1 <=> k < ci \/ k = ci
  BY DEF IInv, LineInv
<1> QED BY <1>2, <1>3 DEF MineSoFar, Mine, InList, N

(* After the dup2 of its own file the child has it at 0 or 1. *)
LEMMA StreamsAdvance ==
  ASSUME IInv, MineNext, Dup2(ci), ci' = ci + 1, UNCHANGED <<lineVars, cseg>>
  PROVE  StreamsInv'
<1>1. /\ ci \in 1..N /\ InList(ci) /\ redirs[ci].op \in {"out", "in", "hdoc"}
      /\ UNCHANGED <<nseg, emptied, redirs>> /\ StreamsInv
  BY DEF MineNext, IInv, TypeOK, LineInv, ChildInv, lineVars
<1>2. CASE redirs[ci].op = "out"
  <2>1. /\ MineSoFar({"in", "hdoc"})' = MineSoFar({"in", "hdoc"})
        /\ MineSoFar({"out"})' = MineSoFar({"out"}) \cup {ci}
        /\ Max(MineSoFar({"out"}) \cup {ci}) = ci
    BY <1>1, <1>2, Advance
  <2>2. cin' = cin /\ cout' = ci
    BY <1>2 DEF Dup2
  <2> QED BY <1>1, <2>1, <2>2 DEF StreamsInv
<1>3. CASE redirs[ci].op # "out"
  <2>1. /\ MineSoFar({"in", "hdoc"})' = MineSoFar({"in", "hdoc"}) \cup {ci}
        /\ MineSoFar({"out"})' = MineSoFar({"out"})
        /\ Max(MineSoFar({"in", "hdoc"}) \cup {ci}) = ci
    BY <1>1, <1>3, Advance
  <2>2. cin' = ci /\ cout' = cout
    BY <1>3 DEF Dup2
  <2> QED BY <1>1, <2>1, <2>2 DEF StreamsInv
<1> QED BY <1>2, <1>3

(* A child that goes on with a redirection keeps the rest as it is. *)
LEMMA ChildGoesOn ==
  ASSUME IInv, UNCHANGED <<lineVars, shellVars, cseg>>, cpc = "redirect",
         cpc' \in {"redirect", "run", "failed", "crashed"},
         cpc' \in {"redirect", "run"} => StreamsInv' /\ OwnFilesInv',
         cpc' = "run" => ci' = N + 1, ci' \in 1 .. N + 1,
         cin' \in {Terminal, Pipe} \cup 1..N, cout' \in {Terminal, Pipe} \cup 1..N,
         ctab' \in [Fds -> Objects],
         \A f \in Fds : ctab'[f] \in {Free, ctab[f]}
  PROVE  IInv'
<1>1. N' = N /\ Objects' = Objects /\ LineInv' /\ UNCHANGED <<nseg, inShell, emptied, pc, i, fdOf, tab, pfds>>
  BY LineKept DEF IInv, lineVars, shellVars
<1>2. TypeOK' /\ NumbersInv' /\ PipesInv'
  BY <1>1 DEF IInv, TypeOK, NumbersInv, Numbered, PipesInv
<1>3. Numbered(ctab)' /\ \A f \in Fds : ctab'[f] # Pipe
  BY <1>1 DEF IInv, ChildInv, Numbered, Free, Pipe
<1>4. ChildInv'
  BY <1>1, <1>3 DEF IInv, ChildInv
<1> QED BY <1>1, <1>2, <1>4 DEF IInv

(* The child puts its pipes to 0 and 1 and closes all of them. *)
LEMMA SetupStep == ASSUME IInv, SetupPipes PROVE IInv'
<1>1. /\ cpc = "setup" /\ cpc' = "redirect"
      /\ cin' = IF cseg > 0 THEN Pipe ELSE Terminal
      /\ cout' = IF cseg < nseg - 1 THEN Pipe ELSE Terminal
      /\ ctab' = [f \in Fds |-> IF f \in pfds THEN Free ELSE ctab[f]]
      /\ UNCHANGED <<lineVars, shellVars, cseg, ci>>
  BY DEF SetupPipes
<1>2. N' = N /\ Objects' = Objects /\ LineInv'
      /\ UNCHANGED <<nseg, inShell, emptied, redirs, pc, i, fdOf, tab, pfds>>
  BY <1>1, LineKept DEF IInv, lineVars, shellVars
<1>3. TypeOK' /\ NumbersInv' /\ PipesInv'
  <2>1. ctab' \in [Fds -> Objects]
    BY <1>1 DEF IInv, TypeOK, Objects
  <2> QED BY <1>1, <1>2, <2>1 DEF IInv, TypeOK, NumbersInv, Numbered, PipesInv
<1>4. Numbered(ctab)' /\ \A f \in Fds : ctab'[f] # Pipe
  BY <1>1, <1>2 DEF IInv, ChildInv, Numbered, Free, Pipe
<1>5. ci = 1 /\ ci' = 1
  BY <1>1 DEF IInv, ChildInv
<1>6. \A ops : MineSoFar(ops)' = {}
  BY <1>2, <1>5 DEF MineSoFar, Mine, IInv, LineInv
<1>7. StreamsInv'
  BY <1>1, <1>2, <1>6 DEF StreamsInv
<1>8. OwnFilesInv'
  BY <1>1, <1>2, <1>4, <1>5 DEF OwnFilesInv, IInv, TypeOK, LineInv, Objects
<1>9. ChildInv'
  BY <1>1, <1>2, <1>4, <1>7, <1>8 DEF IInv, ChildInv
<1> QED BY <1>2, <1>3, <1>9 DEF IInv

(* The child uses the number of its next redirection, or opens it again. *)
LEMMA MineStep == ASSUME IInv, NoWord \/ UseNumber \/ OpenAgain PROVE IInv'
<1>1. /\ cpc = "redirect" /\ ci \in 1..N /\ InList(ci) /\ MineNext
      /\ UNCHANGED <<lineVars, shellVars, cseg>> /\ UNCHANGED <<redirs, emptied>>
      /\ ci + 1 \in 1 .. N + 1
  BY DEF NoWord, UseNumber, OpenAgain, MineNext, IInv, TypeOK, LineInv, lineVars
<1>2. /\ ctab \in [Fds -> Objects] /\ fdOf[ci] \in Fds \cup {-1}
      /\ cin \in {Terminal, Pipe} \cup 1..N /\ cout \in {Terminal, Pipe} \cup 1..N
      /\ OwnFilesInv /\ Numbered(ctab) /\ \A f \in Fds : ctab[f] # Pipe
  BY <1>1 DEF IInv, TypeOK, ChildInv
<1>3. ASSUME Dup2(ci), ci' = ci + 1, cpc' = cpc, ctab' \in [Fds -> Objects],
             \A f \in Fds : ctab'[f] \in {Free, ctab[f]} /\ ctab'[f] # ci
      PROVE  IInv'
  <2>1. StreamsInv'
    BY <1>1, <1>3, StreamsAdvance
  <2>2. OwnFilesInv'
    BY <1>1, <1>2, <1>3 DEF OwnFilesInv, InList, IInv, TypeOK, LineInv, Objects
  <2>3. cin' \in {Terminal, Pipe} \cup 1..N /\ cout' \in {Terminal, Pipe} \cup 1..N
    BY <1>1, <1>2, <1>3 DEF Dup2
  <2> QED BY <1>1, <1>3, <2>1, <2>2, <2>3, ChildGoesOn
<1>4. ASSUME cpc' \in {"failed", "crashed"}, UNCHANGED <<ci, ctab, cin, cout>>
      PROVE  IInv'
  BY <1>1, <1>2, <1>4, ChildGoesOn DEF IInv, TypeOK
<1>5. CASE NoWord
  BY <1>4, <1>5 DEF NoWord
<1>6. CASE UseNumber
  <2>1. fdOf[ci] \in Fds /\ ctab[fdOf[ci]] \in {Free, ci}
    BY <1>1, <1>2, <1>6, ChildsNumber DEF UseNumber
  <2>2. CASE ctab[fdOf[ci]] = Free
    BY <1>4, <1>6, <2>2 DEF UseNumber
  <2>3. CASE ctab[fdOf[ci]] # Free
    <3>1. /\ Dup2(ci) /\ ctab' = [ctab EXCEPT ![fdOf[ci]] = Free]
          /\ ci' = ci + 1 /\ cpc' = cpc
      BY <1>6, <2>1, <2>3 DEF UseNumber
    <3>2. ctab' \in [Fds -> Objects]
      BY <1>2, <3>1 DEF Objects
    <3>3. \A f \in Fds : ctab'[f] \in {Free, ctab[f]} /\ ctab'[f] # ci
      BY <1>1, <1>2, <2>1, <3>1 DEF Numbered, Free
    <3> QED BY <1>3, <3>1, <3>2, <3>3
  <2> QED BY <2>2, <2>3
<1>7. CASE OpenAgain
  <2>1. fdOf[ci] = -1 /\ ctab' = ctab
    BY <1>7 DEF OpenAgain
  <2>2. \A f \in Fds : ctab[f] # ci
    BY <1>1, <1>2, <2>1 DEF Numbered, Fds
  <2>3. CASE Dup2(ci) /\ ci' = ci + 1 /\ cpc' = cpc
    BY <1>2, <1>3, <2>1, <2>2, <2>3
  <2>4. CASE cpc' \in {"failed", "crashed"} /\ UNCHANGED <<ci, cin, cout>>
    BY <1>4, <2>1, <2>4
  <2> QED BY <1>7, <2>3, <2>4 DEF OpenAgain
<1> QED BY <1>5, <1>6, <1>7

(* It passes over the others and ends with its list. *)
LEMMA OthersStep == ASSUME IInv, SkipOthers \/ StartProgram PROVE IInv'
<1>1. /\ cpc = "redirect" /\ UNCHANGED <<lineVars, shellVars, cseg, ctab, cin, cout>>
      /\ UNCHANGED <<nseg, emptied, redirs>> /\ StreamsInv /\ OwnFilesInv
  BY DEF SkipOthers, StartProgram, lineVars, IInv, ChildInv
<1>2. CASE SkipOthers
  <2>1. ci \in 1..N /\ ~InList(ci) /\ ci' = ci + 1 /\ cpc' = cpc /\ ci' \in 1 .. N + 1
    BY <1>2 DEF SkipOthers, IInv, TypeOK, LineInv
  <2>2. \A ops : MineSoFar(ops)' = MineSoFar(ops)
    BY <1>1, <2>1, Advance
  <2>3. StreamsInv'
    BY <1>1, <2>2 DEF StreamsInv
  <2>4. OwnFilesInv'
    <3>1. \A f \in Fds : ctab[f] # Free => ctab[f] \in 1..N
      BY <1>1 DEF IInv, TypeOK, ChildInv, Objects
    <3> QED BY <1>1, <2>1, <3>1 DEF OwnFilesInv, InList, LineInv, IInv
  <2> QED BY <1>1, <2>1, <2>3, <2>4, ChildGoesOn DEF IInv, TypeOK
<1>3. CASE StartProgram
  <2>1. ci = N + 1 /\ ci' = ci /\ cpc' = "run"
    BY <1>3 DEF StartProgram
  <2>2. StreamsInv' /\ OwnFilesInv'
    BY <1>1, <2>1 DEF StreamsInv, OwnFilesInv, MineSoFar, Mine, InList, N
  <2> QED BY <1>1, <2>1, <2>2, ChildGoesOn DEF IInv, TypeOK
<1> QED BY <1>2, <1>3

(* No step of the shell or its child leaves the invariant. *)
LEMMA Step == IInv /\ [Next]_vars => IInv'
<1> SUFFICES ASSUME IInv, [Next]_vars PROVE IInv'
  OBVIOUS
<1>1. ASSUME UNCHANGED vars PROVE IInv'
  <2>1. UNCHANGED <<lineVars, childVars, fdOf, pfds, pc, i, tab>>
    BY <1>1 DEF vars, lineVars, childVars
  <2>2. N' = N /\ Objects' = Objects /\ LineInv' /\ ChildInv'
    BY <2>1, LineKept, ChildKept DEF IInv, ChildInv
  <2> QED BY <2>1, <2>2
          DEF IInv, TypeOK, NumbersInv, Numbered, PipesInv, lineVars, childVars
<1> QED BY <1>1, OpenFileStep, OpeningStep, CreatePipeStep, LeavingStep, ForkStep,
           SetupStep, MineStep, OthersStep DEF Next, Done

(* The whole of it holds in every state of a line. *)
THEOREM Invariance == Spec => []IInv
  BY Initially, Step, PTL DEF Spec

-----------------------------------------------------------------------------
(* Every variable keeps to its values: a descriptor number is always one   *)
(* of those that the line's files and pipes can have together.             *)
THEOREM TypeCorrect == Spec => []TypeOK
<1>1. IInv => TypeOK
  BY DEF IInv
<1> QED BY <1>1, Invariance, PTL

(* No stale number ever denotes the file or the pipe of somebody else when *)
(* it is used by dup2 or close, in a line of any length.                   *)
THEOREM NumbersAreOwn == Spec => []NumberNeverAliased
<1>1. IInv => NumberNeverAliased
  <2> SUFFICES ASSUME IInv PROVE NumberNeverAliased
    OBVIOUS
  <2>1. ASSUME cpc = "redirect", NEW k \in 1..N, fdOf[k] # -1
        PROVE  ctab[fdOf[k]] \in {Free, k}
    BY <2>1, ChildsNumber
  <2>2. ASSUME pc = "finish", NEW k \in 1..N, fdOf[k] # -1
        PROVE  tab[fdOf[k]] \in {Free, k}
    BY <2>2 DEF IInv, TypeOK, NumbersInv, Numbered, PipesInv, Objects
  <2> QED BY <2>1, <2>2 DEF NumberNeverAliased
<1> QED BY <1>1, Invariance, PTL

(* At the prompt the shell has the descriptors that it had before, however *)
(* many the line used and wherever it failed.                              *)
THEOREM DescriptorsRestored == Spec => []TableRestored
<1>1. IInv => TableRestored
  BY DEF IInv, PipesInv, TableRestored
<1> QED BY <1>1, Invariance, PTL

(* A command runs with the last redirections of its list, or its pipes, or *)
(* the terminal, and with no other descriptor of its own.                  *)
THEOREM CommandHasItsFiles == Spec => []RunsWithItsOwnFiles
<1>1. IInv => RunsWithItsOwnFiles
  <2> SUFFICES ASSUME IInv, cpc = "run"
               PROVE  /\ cin = IF Mine({"in", "hdoc"}) # {} THEN Max(Mine({"in", "hdoc"}))
                               ELSE IF cseg > 0 THEN Pipe ELSE Terminal
                      /\ cout = IF Mine({"out"}) # {} THEN Max(Mine({"out"}))
                                ELSE IF cseg < nseg - 1 THEN Pipe ELSE Terminal
                      /\ \A f \in Fds : ctab[f] # Free =>
                           ctab[f] \in 1..N /\ ~InList(ctab[f])
    BY DEF RunsWithItsOwnFiles
  <2>1. ci = N + 1 /\ N \in Nat /\ StreamsInv /\ OwnFilesInv
    BY DEF IInv, LineInv, ChildInv
  <2>2. \A ops : MineSoFar(ops) = Mine(ops)
    BY <2>1 DEF MineSoFar, Mine
  <2>3. \A f \in Fds : ctab[f] # Free => ctab[f] \in 1..N
    BY DEF IInv, TypeOK, ChildInv, Objects
  <2>4. \A f \in Fds : ctab[f] # Free => ~InList(ctab[f])
    BY <2>1, <2>3 DEF OwnFilesInv
  <2> QED BY <2>1, <2>2, <2>3, <2>4 DEF StreamsInv
<1> QED BY <1>1, Invariance, PTL

=============================================================================
