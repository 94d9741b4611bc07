---------------------------- MODULE StatusProofs -----------------------------
(***************************************************************************)
(* The two places where the shell itself makes an exit status: Lookup, for *)
(* any directories, any PATH and any number of changes by other processes, *)
(* and ExitArg, for every LLongMax > 9 and words of any length.            *)
(***************************************************************************)
EXTENDS Lookup, ExitArg, WellFoundedInduction, TLAPS

-----------------------------------------------------------------------------
(* Lookup. *)

(* What a child makes of a file that it calls execve on. *)
Outcome(c) == IF c = "program" THEN 0 ELSE StatusOfExecve(c)

TypeInv ==
  /\ TypeOK
  /\ slash \in BOOLEAN /\ path \in Paths \cup {NoPath}
  /\ was \in [Places -> SUBSET Contents]

(* How far the search has come, and where what it has chosen stands. *)
SearchInv ==
  /\ pc \in {"split", "search"} => chosen = None
  /\ pc = "search" => ~slash
  /\ pc \in {"stat", "execve", "running"} => chosen # None
  /\ chosen # None =>
       IF slash THEN chosen = Here
       ELSE \E n \in PathDirs : path[n] = chosen /\ \A m \in PathDirs : m < n => m < k
  /\ pc = "exited" /\ chosen = None =>
       ~slash /\ status = 127 /\ \A n \in PathDirs : n < k

(* Each entry that was passed over was empty at some moment. *)
SeenInv ==
  /\ \A p \in Places : files[p] \in was[p]
  /\ ~slash => \A n \in PathDirs : n < k => \E c \in was[path[n]] : StatFails(c)

(* The last look decides, and nothing changes after it. *)
OutcomeInv ==
  /\ pc # "exited" => status = 0
  /\ pc \in {"running", "exited"} /\ chosen # None => status = Outcome(files[chosen])
  /\ pc = "running" => files[chosen] = "program"

(* As long as at most one file has changed there are two moments to        *)
(* distinguish: the files were as they are, or as in f, which differs in q *)
(* only.                                                                   *)
MomentsInv ==
  /\ Answer(files) \in atomic
  /\ changes = 0 => \A p \in Places : was[p] = {files[p]}
  /\ changes <= 1 =>
       \E f \in [Places -> Contents], q \in Places :
         /\ \A p \in Places : p # q => f[p] = files[p]
         /\ \A p \in Places : was[p] \subseteq {f[p], files[p]}
         /\ Answer(f) \in atomic

IInv == TypeInv /\ SearchInv /\ SeenInv /\ OutcomeInv /\ MomentsInv

-----------------------------------------------------------------------------
(* Every set of natural numbers that is not empty has a least element. *)
LEMMA LessThanWellFounded == IsWellFoundedOn({p \in Nat \X Nat : p[1] < p[2]}, Nat)
<1>1. OpToRel(<, Nat) = {p \in Nat \X Nat : p[1] < p[2]}
  BY DEF OpToRel
<1> QED BY <1>1, NatLessThanWellFounded, Zenon

LEMMA MinIsLeast ==
  ASSUME NEW S \in SUBSET Nat, S # {}
  PROVE  Min(S) \in S /\ \A n \in S : Min(S) <= n
<1>1. PICK m \in S : \A n \in S : <<n, m>> \notin {p \in Nat \X Nat : p[1] < p[2]}
  BY LessThanWellFounded, WFMin
<1>2. ASSUME NEW n \in S, n < m PROVE FALSE
  <2>1. <<n, m>> \in {p \in Nat \X Nat : p[1] < p[2]}
    BY <1>2
  <2> QED BY <1>1, <2>1
<1>3. \A n \in S : m <= n
  BY <1>2
<1> QED BY <1>3 DEF Min

(* The entries of PATH are directories. *)
LEMMA PathDirsType ==
  ASSUME path \in Paths \cup {NoPath}
  PROVE  \A n \in PathDirs : n \in Nat \ {0} /\ path[n] \in Dirs \cap ToSet(path)
<1> SUFFICES ASSUME NEW n \in PathDirs
             PROVE  n \in Nat \ {0} /\ path[n] \in Dirs \cap ToSet(path)
  OBVIOUS
<1>1. path \in Seq(Dirs \cup {EmptyItem}) /\ n \in DOMAIN path /\ path[n] # EmptyItem
  BY LookupAssumption DEF PathDirs
<1> QED BY <1>1 DEF ToSet

(* What a lookup in a single moment answers. *)
LEMMA AnswerSlash ==
  ASSUME NEW f, slash
  PROVE  Answer(f) = [place |-> Here, status |-> Outcome(f[Here])]
  BY DEF Answer, Outcome

LEMMA AnswerNothing ==
  ASSUME NEW f, ~slash, \A n \in PathDirs : StatFails(f[path[n]])
  PROVE  Answer(f) = [place |-> None, status |-> 127]
  BY DEF Answer

LEMMA AnswerFirst ==
  ASSUME NEW f, ~slash, path \in Paths \cup {NoPath},
         NEW n \in PathDirs, ~StatFails(f[path[n]]),
         \A m \in PathDirs : m < n => StatFails(f[path[m]]) \/ path[m] = path[n]
  PROVE  Answer(f) = [place |-> path[n], status |-> Outcome(f[path[n]])]
<1> DEFINE there == {m \in PathDirs : ~StatFails(f[path[m]])}
<1>1. there \in SUBSET Nat /\ there # {}
  BY PathDirsType
<1>2. Min(there) \in there /\ Min(there) <= n
  BY <1>1, MinIsLeast
<1>3. path[Min(there)] = path[n]
  BY <1>1, <1>2
<1> QED BY <1>1, <1>3 DEF Answer, Outcome

-----------------------------------------------------------------------------
(* The entries and the places concerned depend on the word and PATH only. *)
LEMMA ConcernedType ==
  ASSUME path \in Paths \cup {NoPath}
  PROVE  Concerned \subseteq Places
<1>1. path # NoPath => path \in Seq(Dirs \cup {EmptyItem})
  BY LookupAssumption
<1>2. path # NoPath => ToSet(path) \subseteq Dirs \cup {EmptyItem}
  BY <1>1 DEF ToSet
<1> QED BY <1>2 DEF Concerned, Places

LEMMA AnswerKept ==
  ASSUME UNCHANGED <<slash, path>>
  PROVE  PathDirs' = PathDirs /\ \A f : Answer(f)' = Answer(f)
  BY DEF PathDirs, Answer

(* A lookup starts in the invariant. *)
LEMMA Initially == Init => IInv
<1> SUFFICES ASSUME Init PROVE IInv
  OBVIOUS
<1>1. path \in Paths \cup {NoPath} /\ slash \in BOOLEAN
  BY DEF Init
<1>2. files \in [Places -> Contents] /\ was = [p \in Places |-> {files[p]}]
  <2>1. PICK f \in [Concerned -> Contents] :
          files = [p \in Places |-> IF p \in Concerned THEN f[p] ELSE "none"]
    BY DEF Init
  <2>2. files \in [Places -> Contents]
    BY <2>1 DEF Contents
  <2> QED BY <2>2 DEF Init
<1>3. TypeInv
  BY <1>1, <1>2, LookupAssumption DEF Init, TypeInv, TypeOK
<1>4. SearchInv /\ OutcomeInv
  BY DEF Init, SearchInv, OutcomeInv
<1>5. SeenInv
  <2>1. \A n \in PathDirs : ~(n < 1)
    BY <1>1, PathDirsType
  <2> QED BY <1>2, <2>1 DEF Init, SeenInv
<1>6. MomentsInv
  <2>1. Here \in Places
    BY DEF Places
  <2>2. Answer(files) \in atomic
    BY DEF Init
  <2>3. \A p \in Places : was[p] = {files[p]}
    BY <1>2
  <2> QED BY <1>2, <2>1, <2>2, <2>3 DEF MomentsInv
<1> QED BY <1>3, <1>4, <1>5, <1>6 DEF IInv

(* What the child does changes no file, so nothing becomes of the moments. *)
LEMMA MomentsKept ==
  ASSUME IInv, UNCHANGED <<slash, path, fileVars>>
  PROVE  MomentsInv'
<1>1. Answer(files)' = Answer(files)
  BY DEF fileVars, Answer, PathDirs
<1>2. \A f : Answer(f)' = Answer(f)
  BY AnswerKept
<1> QED BY <1>1, <1>2 DEF IInv, MomentsInv, fileVars

(* The search, up to the file that it finds. *)
LEMMA SearchStep ==
  ASSUME IInv, Split \/ SearchNext \/ CommandNotFound
  PROVE  IInv'
<1> USE DEF IInv, TypeInv, TypeOK, SearchInv, SeenInv, OutcomeInv, Places
<1>1. PathDirs' = PathDirs /\ UNCHANGED <<slash, path, fileVars>>
  BY AnswerKept DEF Split, SearchNext, CommandNotFound, Exit
<1>2. MomentsInv'
  BY <1>1, MomentsKept
<1>3. \A n \in PathDirs : n \in Nat \ {0} /\ path[n] \in Dirs
  BY PathDirsType
<1>4. CASE Split
  BY <1>1, <1>2, <1>3, <1>4, LookupAssumption DEF Split, fileVars, None
<1>5. CASE CommandNotFound
  BY <1>1, <1>2, <1>3, <1>5 DEF CommandNotFound, Exit, fileVars
<1>6. CASE SearchNext
  <2>1. PICK n \in PathDirs :
          /\ n >= k /\ \A m \in PathDirs : m >= k => n <= m
          /\ IF StatFails(files[path[n]])
               THEN k' = n + 1 /\ UNCHANGED <<pc, chosen>>
               ELSE pc' = "stat" /\ chosen' = path[n] /\ UNCHANGED k
    BY <1>6 DEF SearchNext
  <2>2. \A m \in PathDirs : m < n => m < k
    BY <1>3, <2>1
  <2>3. pc = "search" /\ chosen = None /\ status' = status /\ ~slash
    BY <1>6 DEF SearchNext
  <2>4. CASE StatFails(files[path[n]])
    <3>1. \A m \in PathDirs : m < n + 1 => m < k \/ m = n
      BY <1>3, <2>2
    <3>2. SeenInv'
      BY <1>1, <1>3, <2>1, <2>3, <2>4, <3>1 DEF fileVars
    <3> QED BY <1>1, <1>2, <1>3, <2>1, <2>3, <2>4, <3>2 DEF fileVars
  <2>5. CASE ~StatFails(files[path[n]])
    <3>1. chosen' # None
      BY <1>3, <2>1, <2>5, LookupAssumption DEF None
    <3> QED BY <1>1, <1>2, <1>3, <2>1, <2>2, <2>3, <2>5, <3>1 DEF fileVars
  <2> QED BY <2>4, <2>5
<1> QED BY <1>4, <1>5, <1>6

(* What becomes of the file. *)
LEMMA FoundStep ==
  ASSUME IInv, IsADirectory \/ NotADirectory \/ Execve \/ ExecveFails
  PROVE  IInv'
<1> USE DEF IInv, TypeInv, TypeOK, SearchInv, SeenInv, OutcomeInv, Outcome, StatusOfExecve
<1>1. PathDirs' = PathDirs /\ UNCHANGED <<slash, path, chosen, k, fileVars>>
  BY AnswerKept DEF IsADirectory, NotADirectory, Execve, ExecveFails, Exit
<1>2. MomentsInv'
  BY <1>1, MomentsKept
<1>3. CASE IsADirectory
  BY <1>1, <1>2, <1>3 DEF IsADirectory, Exit, fileVars
<1>4. CASE NotADirectory
  BY <1>1, <1>2, <1>4 DEF NotADirectory, fileVars
<1>5. CASE Execve
  BY <1>1, <1>2, <1>5 DEF Execve, fileVars
<1>6. CASE ExecveFails
  BY <1>1, <1>2, <1>6 DEF ExecveFails, Exit, fileVars
<1> QED BY <1>3, <1>4, <1>5, <1>6

(* The first change makes a second moment; after the second one nothing is *)
(* claimed of the moments any more.                                        *)
LEMMA ChangeStep == ASSUME IInv, Change PROVE IInv'
<1>1. PICK p \in Concerned, c \in Contents :
        /\ files' = [files EXCEPT ![p] = c]
        /\ was' = [was EXCEPT ![p] = @ \cup {c}]
  BY DEF Change
<1>2. p \in Places
  BY ConcernedType DEF IInv, TypeInv
<1>3. /\ PathDirs' = PathDirs /\ UNCHANGED <<slash, path, pc, k, chosen, status>>
      /\ pc \notin {"running", "exited"} /\ changes < MaxChanges /\ changes' = changes + 1
  BY AnswerKept DEF Change
<1>4. TypeInv'
  <2>1. changes' \in 0..MaxChanges
    BY <1>3, LookupAssumption DEF IInv, TypeInv, TypeOK
  <2>2. files' \in [Places -> Contents] /\ was' \in [Places -> SUBSET Contents]
    BY <1>1, <1>2 DEF IInv, TypeInv, TypeOK
  <2> QED BY <1>3, <2>1, <2>2 DEF IInv, TypeInv, TypeOK
<1>5. SearchInv'
  BY <1>3 DEF IInv, SearchInv
<1>6. SeenInv'
  <2>1. \A x \in Places : was[x] \subseteq was'[x] /\ files'[x] \in was'[x]
    BY <1>1, <1>2 DEF IInv, TypeInv, TypeOK, SeenInv
  <2>2. \A n \in PathDirs : path[n] \in Places
    BY PathDirsType DEF IInv, TypeInv, Places
  <2> QED BY <1>3, <2>1, <2>2 DEF IInv, SeenInv
<1>7. OutcomeInv'
  BY <1>3 DEF IInv, OutcomeInv
<1>8. MomentsInv'
  <2>1. /\ Answer(files)' \in atomic'
        /\ atomic \subseteq atomic' /\ \A f : Answer(f)' = Answer(f)
    <3>1. Answer(files)' = Answer(files')
      BY <1>3 DEF Answer, PathDirs
    <3> QED BY <1>3, <3>1, AnswerKept DEF Change
  <2>2. changes' # 0
    BY <1>3 DEF IInv, TypeInv, TypeOK
  <2>3. CASE changes = 0
    <3>1. \A x \in Places : was[x] = {files[x]}
      BY <2>3 DEF IInv, MomentsInv
    <3>2. \A x \in Places : was'[x] \subseteq {files[x], files'[x]}
      BY <1>1, <1>2, <3>1 DEF IInv, TypeInv, TypeOK
    <3>3. \A x \in Places : x # p => files[x] = files'[x]
      BY <1>1 DEF IInv, TypeInv, TypeOK
    <3>4. Answer(files) \in atomic /\ files \in [Places -> Contents]
      BY DEF IInv, TypeInv, TypeOK, MomentsInv
    <3>5. \E f \in [Places -> Contents], q \in Places :
            /\ \A x \in Places : x # q => f[x] = files'[x]
            /\ \A x \in Places : was'[x] \subseteq {f[x], files'[x]}
            /\ Answer(f)' \in atomic'
      BY <1>2, <2>1, <3>2, <3>3, <3>4
    <3> QED BY <2>1, <2>2, <3>5 DEF MomentsInv
  <2>4. CASE changes # 0
    <3>1. ~(changes' <= 1)
      BY <1>3, <2>4 DEF IInv, TypeInv, TypeOK
    <3> QED BY <2>1, <2>2, <3>1 DEF MomentsInv
  <2> QED BY <2>3, <2>4
<1> QED BY <1>4, <1>5, <1>6, <1>7, <1>8 DEF IInv

(* No step leaves it. *)
LEMMA Step == IInv /\ [Next]_vars => IInv'
<1>1. ASSUME IInv, UNCHANGED vars PROVE IInv'
  <2>1. PathDirs' = PathDirs /\ MomentsInv'
    BY <1>1, AnswerKept, MomentsKept DEF vars, fileVars
  <2> QED BY <1>1, <2>1
          DEF vars, IInv, TypeInv, TypeOK, SearchInv, SeenInv, OutcomeInv
<1> QED BY <1>1, SearchStep, FoundStep, ChangeStep DEF Next, Ended

(* The whole of it holds in every state of a lookup. *)
THEOREM Invariance == Spec => []IInv
  BY Initially, Step, PTL DEF Spec

-----------------------------------------------------------------------------
(* Every state of a lookup is of the expected types. *)
THEOREM TypeCorrect == Spec => []TypeOK
<1>1. IInv => TypeOK
  BY DEF IInv, TypeInv
<1> QED BY <1>1, Invariance, PTL

(* The outcome of a lookup in which at most one file changed is the one of *)
(* a lookup at a single moment, but for a file that disappeared again.     *)
LEMMA OneMoment ==
  ASSUME IInv, changes <= 1, pc \in {"running", "exited"},
         chosen # None => ~StatFails(files[chosen])
  PROVE  [place |-> chosen, status |-> status] \in atomic
<1>1. PICK f \in [Places -> Contents], q \in Places :
        /\ \A p \in Places : p # q => f[p] = files[p]
        /\ \A p \in Places : was[p] \subseteq {f[p], files[p]}
        /\ Answer(f) \in atomic
  BY DEF IInv, MomentsInv
<1>2. Answer(files) \in atomic
  BY DEF IInv, MomentsInv
<1>3. path \in Paths \cup {NoPath} /\ \A n \in PathDirs : n \in Nat /\ path[n] \in Places
  BY PathDirsType DEF IInv, TypeInv, Places
<1>4. CASE slash
  <2>1. chosen = Here /\ status = Outcome(files[Here])
    BY <1>4 DEF IInv, SearchInv, OutcomeInv
  <2> QED BY <1>2, <1>4, <2>1, AnswerSlash
<1>5. CASE ~slash /\ chosen = None
  <2>1. status = 127
    BY <1>5 DEF IInv, SearchInv
  <2>2. \A n \in PathDirs : StatFails(f[path[n]]) \/ StatFails(files[path[n]])
    BY <1>1, <1>3, <1>5 DEF IInv, SearchInv, SeenInv
  <2>3. CASE \A n \in PathDirs : StatFails(files[path[n]])
    BY <1>2, <1>5, <2>1, <2>3, AnswerNothing
  <2>4. CASE \E n \in PathDirs : ~StatFails(files[path[n]])
    <3>1. \A n \in PathDirs : StatFails(f[path[n]])
      BY <1>1, <1>3, <2>2, <2>4
    <3> QED BY <1>1, <1>5, <2>1, <3>1, AnswerNothing
  <2> QED BY <2>3, <2>4
<1>6. CASE ~slash /\ chosen # None
  <2>1. PICK n \in PathDirs : path[n] = chosen /\ \A m \in PathDirs : m < n => m < k
    BY <1>6 DEF IInv, SearchInv
  <2>2. status = Outcome(files[path[n]]) /\ ~StatFails(files[path[n]])
    BY <1>6, <2>1 DEF IInv, OutcomeInv
  <2>3. \A m \in PathDirs : m < n => StatFails(f[path[m]]) \/ StatFails(files[path[m]])
    BY <1>1, <1>3, <1>6, <2>1 DEF IInv, SeenInv
  <2>4. CASE \A m \in PathDirs : m < n => StatFails(files[path[m]]) \/ path[m] = path[n]
    BY <1>2, <1>3, <1>6, <2>1, <2>2, <2>4, AnswerFirst
  <2>5. CASE \E m \in PathDirs : m < n /\ ~StatFails(files[path[m]]) /\ path[m] # path[n]
    <3>1. f[path[n]] = files[path[n]] /\ \A m \in PathDirs : m < n => StatFails(f[path[m]]) \/ path[m] = path[n]
      BY <1>1, <1>3, <2>3, <2>5
    <3>2. Answer(f) = [place |-> path[n], status |-> Outcome(f[path[n]])]
      BY <1>3, <1>6, <2>2, <3>1, AnswerFirst
    <3> QED BY <1>1, <2>1, <2>2, <3>1, <3>2
  <2> QED BY <2>4, <2>5
<1> QED BY <1>4, <1>5, <1>6

(* As long as at most one file changes, the two looks of find_in_paths and *)
(* main and the execve amount to one look, for any PATH: what runs or what *)
(* the status says is right of a single moment, unless the file that was   *)
(* found has disappeared.                                                  *)
THEOREM LooksAtOneMoment == Spec => []AsIfAtomic
<1>1. IInv => AsIfAtomic
  BY OneMoment DEF AsIfAtomic
<1> QED BY <1>1, Invariance, PTL

(* However many changes there are, an entry that was passed over was empty *)
(* at some moment, what runs is in a directory of PATH, and 126 and 127    *)
(* say something that was true of a file.                                  *)
THEOREM StatusHasReason == Spec => []OutcomeHasReason
<1>1. ASSUME IInv, pc \in {"running", "exited"} PROVE OutcomeHasReason
  <2>1. ~slash => \A n \in PathDirs :
          n < k \/ chosen = None => \E c \in was[path[n]] : StatFails(c)
    BY <1>1 DEF IInv, SearchInv, SeenInv
  <2>2. pc = "running" => chosen \in IF slash THEN {Here} ELSE ToSet(path) \cap Dirs
    BY <1>1, PathDirsType DEF IInv, TypeInv, SearchInv
  <2>3. chosen # None => files[chosen] \in was[chosen] /\ files[chosen] \in Contents
                         /\ status = Outcome(files[chosen])
    BY <1>1 DEF IInv, TypeInv, TypeOK, SeenInv, OutcomeInv
  <2>4. status = 126 => chosen # None
    BY <1>1 DEF IInv, SearchInv, OutcomeInv
  <2> QED BY <2>1, <2>2, <2>3, <2>4
          DEF OutcomeHasReason, Outcome, StatusOfExecve, Contents
<1>2. IInv => OutcomeHasReason
  BY <1>1 DEF OutcomeHasReason
<1> QED BY <1>2, Invariance, PTL

-----------------------------------------------------------------------------
(* ExitArg. *)

(* While digits are read nothing has been refused: num is the exact value. *)
Exact == phase # "exited" => num = IF sign = 1 THEN value ELSE 0 - value

(* The exit code of a number. *)
Verdict ==
  phase = "exited" /\ kind = "number" =>
    LET n == IF sign = 1 THEN value ELSE 0 - value
    IN code = IF InRange(n) THEN n % 256 ELSE 2

ExitIInv == ExitTypeOK /\ NoSignedOverflow /\ Exact /\ Verdict

-----------------------------------------------------------------------------

(* overflow_check answers exactly whether the next digit leaves the range. *)
LEMMA OverflowCheckExact ==
  ASSUME sign \in {1, -1}, NEW n \in Int, NEW d \in Digits, InRange(n),
         sign = 1 => n >= 0, sign = -1 => n <= 0
  PROVE  OverflowCheck(n, d) <=> ~InRange(n * 10 + sign * d)
<1>0. LLongMax \in Nat BY ExitArgAssumption DEF ExitArgAssumption
<1>1. CASE sign = 1
  <2>1. OverflowCheck(n, d) <=>
          n > LLongMax \div 10 \/ (n = LLongMax \div 10 /\ d > LLongMax % 10)
    BY <1>1 DEF OverflowCheck, MaxDivider
  <2>2. sign * d = d BY <1>1, SMT DEF Digits
  <2> QED BY <1>0, <1>1, <2>1, <2>2, SMT DEF InRange, LLongMin, Digits
<1>2. CASE sign = -1
  <2>1. OverflowCheck(n, d) <=>
          \/ n < -((LLongMax + 1) \div 10)
          \/ n = -((LLongMax + 1) \div 10) /\ d > (LLongMax + 1) % 10
    BY <1>2, SMT DEF OverflowCheck, MinDivider
  <2>2. sign * d = -d BY <1>2, SMT DEF Digits
  <2> QED BY <1>0, <1>2, <2>1, <2>2, SMT DEF InRange, LLongMin, Digits
<1> QED BY <1>1, <1>2

LEMMA ExitInitially == ExitInit => ExitIInv
<1> SUFFICES ASSUME ExitInit PROVE ExitIInv OBVIOUS
<1> USE ExitArgAssumption DEF ExitArgAssumption, ExitInit
<1>1. ExitTypeOK BY SMT DEF ExitTypeOK
<1>2. NoSignedOverflow BY SMT DEF NoSignedOverflow, InRange, LLongMin
<1>3. Exact
  <2>1. num = 0 /\ value = 0 /\ sign \in {1, -1} BY Zenon
  <2> QED BY <2>1, SMT DEF Exact
<1>4. Verdict BY DEF Verdict
<1> QED BY <1>1, <1>2, <1>3, <1>4 DEF ExitIInv

LEMMA ExitStep == ExitIInv /\ [ExitNext]_exitVars => ExitIInv'
<1> SUFFICES ASSUME ExitIInv, [ExitNext]_exitVars PROVE ExitIInv'
  OBVIOUS
<1> USE ExitArgAssumption DEF ExitArgAssumption
<1>1. CASE NoNumber
  BY <1>1, SMT DEF ExitIInv, ExitTypeOK, NoSignedOverflow, InRange, LLongMin, Exact,
     Verdict, NoNumber, ExitWith, Kinds
<1>2. CASE StartNumber
  BY <1>2, SMT DEF ExitIInv, ExitTypeOK, NoSignedOverflow, InRange, LLongMin, Exact,
     Verdict, StartNumber
<1>3. CASE Accumulate
  <2>1. PICK d \in Digits :
          /\ value' = value * 10 + d
          /\ IF OverflowCheck(num, d)
               THEN ExitWith(2) /\ UNCHANGED num
               ELSE num' = num * 10 + sign * d /\ UNCHANGED <<phase, code>>
    BY <1>3 DEF Accumulate
  <2>2. /\ phase = "digits" /\ len \in Nat /\ len < MaxDigits /\ len' = len + 1
        /\ kind' = kind /\ sign' = sign
    BY <1>3 DEF Accumulate, ExitIInv, ExitTypeOK
  <2>3. /\ sign \in {1, -1} /\ num \in Int /\ value \in Nat /\ d \in Nat
        /\ num = (IF sign = 1 THEN value ELSE 0 - value) /\ InRange(num)
        /\ sign * d = IF sign = 1 THEN d ELSE 0 - d
    BY <2>2, SMT DEF ExitIInv, ExitTypeOK, Exact, NoSignedOverflow, Digits
  <2>4. OverflowCheck(num, d) <=> ~InRange(num * 10 + sign * d)
    <3>1. (sign = 1 => num >= 0) /\ (sign = -1 => num <= 0)
      BY <2>3, SMT
    <3> QED BY <2>3, <3>1, OverflowCheckExact
  <2>5. num * 10 + sign * d = IF sign = 1 THEN value' ELSE 0 - value'
    BY <2>1, <2>3, SMT
  <2>6. ExitTypeOK'
    BY <2>1, <2>2, <2>3, SMT DEF ExitIInv, ExitTypeOK, ExitWith
  <2>7. NoSignedOverflow'
    BY <2>1, <2>3, <2>4, SMT DEF NoSignedOverflow, InRange, LLongMin
  <2>8. Exact'
    BY <2>1, <2>2, <2>5, SMT DEF Exact, ExitWith
  <2>9. Verdict'
    BY <2>1, <2>2, <2>4, <2>5, SMT DEF Verdict, ExitWith, InRange, LLongMin
  <2> QED BY <2>6, <2>7, <2>8, <2>9 DEF ExitIInv
<1>4. CASE EndOfNumber
  <2>1. phase = "digits" /\ phase' = "exited" /\ code' = num % 256
    BY <1>4 DEF EndOfNumber, ExitWith, ToCode
  <2>2. num \in Int /\ num % 256 \in Nat /\ num % 256 < 256
    BY SMT DEF ExitIInv, ExitTypeOK
  <2>3. UNCHANGED <<kind, sign, num, value, len>>
    BY <1>4 DEF EndOfNumber
  <2>4. ExitTypeOK'
    BY <2>1, <2>2, <2>3 DEF ExitIInv, ExitTypeOK
  <2>5. NoSignedOverflow' /\ Exact'
    BY <2>1, <2>3 DEF ExitIInv, NoSignedOverflow, InRange, Exact
  <2>6. Verdict'
    BY <2>1, <2>3 DEF ExitIInv, Verdict, Exact, NoSignedOverflow, InRange
  <2> QED BY <2>4, <2>5, <2>6 DEF ExitIInv
<1>5. CASE UNCHANGED exitVars
  BY <1>5 DEF ExitIInv, ExitTypeOK, NoSignedOverflow, InRange, Exact, Verdict, exitVars
<1> QED BY <1>1, <1>2, <1>3, <1>4, <1>5 DEF ExitNext, Exited

(* Every reachable state satisfies the inductive invariant. *)
THEOREM ExitInvariance == ExitSpec => []ExitIInv
BY ExitInitially, ExitStep, PTL DEF ExitSpec

(* accumulate_number never overflows its long long, whatever its width and *)
(* however long the word is.                                               *)
THEOREM NeverOverflows == ExitSpec => []NoSignedOverflow
<1>1. ExitIInv => NoSignedOverflow BY DEF ExitIInv
<1> QED BY <1>1, ExitInvariance, PTL

(* The exit code of a number is its low eight bits when it fits in a long  *)
(* long and 2 exactly when it does not.                                    *)
THEOREM CodeIsExact == ExitSpec => []ExactCode
<1>1. ExitIInv => ExactCode
  <2> SUFFICES ASSUME ExitIInv PROVE ExactCode OBVIOUS
  <2>1. sign * value = IF sign = 1 THEN value ELSE 0 - value
    BY SMT DEF ExitIInv, ExitTypeOK
  <2> QED BY <2>1 DEF ExitIInv, Verdict, ExactCode
<1> QED BY <1>1, ExitInvariance, PTL
==============================================================================
