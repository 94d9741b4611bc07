------------------------- MODULE CommandLineProofs -------------------------
(***************************************************************************)
(* The safety properties of CommandLine hold for lines of any length.      *)
(*                                                                         *)
(* A function that a definition gives by recursion (Error, OpenBehind, Row,*)
(* Count, Collect, Fill, KeptUpTo) is shown to exist by one of two general *)
(* lemmas, for recursion upwards and downwards; what it computes is then   *)
(* shown position by position.  The inductive invariant has three parts:   *)
(*   LexInv     where the tokenizer stands, every quote has an end;        *)
(*   TokensInv  the tokens so far are those meant in front of i;           *)
(*   RestInv    what Syntax has is read off those tokens: raw says which   *)
(*              of them are |, toks is what is kept of raw, and the        *)
(*              segments reach from one | of toks to the next.             *)
(***************************************************************************)
EXTENDS CommandLine, SequenceTheorems, FiniteSetTheorems, WellFoundedInduction, TLAPS

-----------------------------------------------------------------------------
(* Every set of natural numbers that is not empty has a least element, and *)
(* what is true of 0 and of the successor of each is true of all up to L.  *)
LEMMA LessThanWellFounded == IsWellFoundedOn({p \in Nat \X Nat : p[1] < p[2]}, Nat)
<1>1. OpToRel(<, Nat) = {p \in Nat \X Nat : p[1] < p[2]}
  BY DEF OpToRel
<1> QED BY <1>1, NatLessThanWellFounded, Zenon

LEMMA LeastExists ==
  ASSUME NEW S \in SUBSET Nat, S # {}
  PROVE  \E m \in S : \A n \in S : m <= n
<1>1. PICK m \in S : \A n \in S : <<n, m>> \notin {p \in Nat \X Nat : p[1] < p[2]}
  BY LessThanWellFounded, WFMin
<1>2. ASSUME NEW n \in S, n < m PROVE FALSE
  <2>1. <<n, m>> \in {p \in Nat \X Nat : p[1] < p[2]}
    BY <1>2
  <2> QED BY <1>1, <2>1
<1>3. \A n \in S : m <= n
  BY <1>2
<1> QED BY <1>3

LEMMA MinIsLeast ==
  ASSUME NEW S \in SUBSET Nat, S # {}
  PROVE  Min(S) \in S /\ \A n \in S : Min(S) <= n
<1>1. \E m \in S : \A n \in S : m <= n
  BY LeastExists
<1> QED BY <1>1 DEF Min

LEMMA Upward ==
  ASSUME NEW L \in Nat, NEW S, 0 \in S, \A m \in 0..L - 1 : m \in S => m + 1 \in S
  PROVE  \A m \in 0..L : m \in S
<1> SUFFICES ASSUME \E m \in 0..L : m \notin S PROVE FALSE
  OBVIOUS
<1> DEFINE bad == 0..L \ S
<1>1. PICK m \in bad : \A k \in bad : m <= k
  <2>1. bad \in SUBSET Nat /\ bad # {}
    OBVIOUS
  <2> HIDE DEF bad
  <2> QED BY <2>1, LeastExists
<1>2. m - 1 \in 0..L - 1 /\ m - 1 \notin bad
  BY <1>1
<1>3. m - 1 \in S /\ (m - 1) + 1 = m
  BY <1>2
<1> QED BY <1>2, <1>3, <1>1

(* Recursion from 0 upwards, a step being a function of the result so far. *)
Recursion(f, n, A, base, step) ==
  f \in [0..n -> A] /\ f[0] = base /\ \A k \in 1..n : f[k] = step[k][f[k - 1]]

LEMMA RecursionExists ==
  ASSUME NEW n \in Nat, NEW A, NEW base \in A, NEW step \in [1..n -> [A -> A]]
  PROVE  \E f : Recursion(f, n, A, base, step)
<1> DEFINE S == {m \in 0..n : \E f \in [0..m -> A] :
                   f[0] = base /\ \A k \in 1..m : f[k] = step[k][f[k - 1]]}
<1>1. 0 \in S
  <2> DEFINE f == [k \in 0..0 |-> base]
  <2>1. f \in [0..0 -> A] /\ f[0] = base
    OBVIOUS
  <2>2. \A k \in 1..0 : f[k] = step[k][f[k - 1]]
    OBVIOUS
  <2> HIDE DEF f
  <2> QED BY <2>1, <2>2
<1>2. ASSUME NEW m \in 0..n - 1, m \in S PROVE m + 1 \in S
  <2>1. PICK f \in [0..m -> A] : f[0] = base /\ \A k \in 1..m : f[k] = step[k][f[k - 1]]
    BY <1>2
  <2> DEFINE g == [k \in 0..m + 1 |-> IF k <= m THEN f[k] ELSE step[m + 1][f[m]]]
  <2>2. step[m + 1] \in [A -> A] /\ f[m] \in A
    OBVIOUS
  <2>3. g \in [0..m + 1 -> A]
    BY <2>2
  <2>4. g[0] = base /\ \A k \in 1..m + 1 : g[k] = step[k][g[k - 1]]
    BY <2>1
  <2>5. m + 1 \in 0..n
    OBVIOUS
  <2> HIDE DEF g
  <2> QED BY <2>3, <2>4, <2>5
<1>3. \A m \in 0..n : m \in S
  <2> HIDE DEF S
  <2>1. \A m \in 0..n - 1 : m \in S => m + 1 \in S
    BY <1>2
  <2> QED BY <1>1, <2>1, Upward, Zenon
<1> QED BY <1>3 DEF Recursion

(* Recursion downwards, a step being a function of all results so far. *)
DownwardSteps(step, m, n, A) == \A k \in m..n : step[k] \in [[k + 1..n -> A] -> A]
Downward(f, m, n, A, step) ==
  f \in [m..n -> A] /\ \A k \in m..n : f[k] = step[k][[l \in k + 1..n |-> f[l]]]

LEMMA DownwardExists ==
  ASSUME NEW m \in Int, NEW n \in Int, m <= n, NEW A, NEW step,
         DownwardSteps(step, m, n, A)
  PROVE  \E f : Downward(f, m, n, A, step)
<1> DEFINE Upto(f, d) ==
             /\ f \in [n - d + 1..n -> A]
             /\ \A k \in n - d + 1..n : f[k] = step[k][[l \in k + 1..n |-> f[l]]]
           L == n - m + 1
           S == {d \in 0..L : \E f : Upto(f, d)}
<1>1. 0 \in S
  <2> DEFINE f == [k \in n + 1..n |-> 0]
  <2>1. f \in [n - 0 + 1..n -> A]
    OBVIOUS
  <2>2. Upto(f, 0) /\ 0 \in 0..L
    BY <2>1
  <2> HIDE DEF f, Upto
  <2> QED BY <2>2
<1>2. ASSUME NEW d \in 0..L - 1, d \in S PROVE d + 1 \in S
  <2>1. PICK f : Upto(f, d)
    BY <1>2
  <2> DEFINE e == n - d
             g == [k \in e..n |-> IF k = e THEN step[e][f] ELSE f[k]]
  <2>2. /\ e \in m..n /\ n - d + 1 = e + 1 /\ n - (d + 1) + 1 = e /\ e \in Int
        /\ d + 1 \in 0..L
    OBVIOUS
  <2> HIDE DEF e
  <2>3. /\ f \in [e + 1..n -> A]
        /\ \A k \in e + 1..n : f[k] = step[k][[l \in k + 1..n |-> f[l]]]
    BY <2>1, <2>2
  <2>4. step[e][f] \in A
    BY <2>2, <2>3 DEF DownwardSteps
  <2>5. g \in [e..n -> A]
    BY <2>2, <2>3, <2>4
  <2>6. g[e] = step[e][f] /\ \A k \in e + 1..n : g[k] = f[k]
    BY <2>2
  <2> HIDE DEF g
  <2>7. ASSUME NEW k \in e..n PROVE g[k] = step[k][[l \in k + 1..n |-> g[l]]]
    <3>1. CASE k = e
      <4>1. f = [l \in e + 1..n |-> g[l]]
        BY <2>3, <2>6
      <4> QED BY <2>6, <3>1, <4>1
    <3>2. CASE k # e
      <4>1. k \in e + 1..n /\ \A l \in k + 1..n : l \in e + 1..n
        BY <2>2, <3>2
      <4>2. [l \in k + 1..n |-> g[l]] = [l \in k + 1..n |-> f[l]]
        BY <2>6, <4>1
      <4> QED BY <2>3, <2>6, <4>1, <4>2
    <3> QED BY <3>1, <3>2
  <2>8. Upto(g, d + 1)
    BY <2>2, <2>5, <2>7
  <2> HIDE DEF Upto
  <2> QED BY <2>2, <2>8
<1>3. L \in Nat /\ L \in 0..L /\ n - L + 1 = m
  OBVIOUS
<1>4. L \in S
  <2> HIDE DEF S, L
  <2> QED BY <1>1, <1>2, <1>3, Upward
<1>5. PICK f : Upto(f, L)
  BY <1>4
<1>6. Downward(f, m, n, A, step)
  BY <1>3, <1>5 DEF Downward
<1> QED BY <1>6

-----------------------------------------------------------------------------
(* The quotes of a line, from its end to its start. *)

(* input_error from position k on. *)
Error ==
  LET error[k \in 1 .. Len(line) + 1] ==
        IF k > Len(line) THEN FALSE
        ELSE IF line[k] \notin Quotes THEN error[k + 1]
        ELSE CloseOf(k) = 0 \/ error[CloseOf(k) + 1]
  IN error

LineInSymbols == line \in Seq(Symbols) /\ Len(line) \in Nat

(* The end of a quote is the next quote of its kind. *)
LEMMA CloseIsNext ==
  ASSUME LineInSymbols, NEW k \in 1..Len(line)
  PROVE  \/ CloseOf(k) = 0
         \/ /\ CloseOf(k) \in k + 1..Len(line) /\ line[CloseOf(k)] = line[k]
            /\ \A m \in k + 1..CloseOf(k) - 1 : line[m] # line[k]
<1> DEFINE S == {m \in k + 1..Len(line) : line[m] = line[k]}
<1>1. CloseOf(k) = IF S # {} THEN Min(S) ELSE 0
  BY DEF CloseOf, SelectInSubSeq
<1>2. CASE S = {}
  BY <1>1, <1>2
<1>3. CASE S # {}
  <2>1. S \in SUBSET Nat
    BY DEF LineInSymbols
  <2>2. Min(S) \in S /\ \A m \in S : Min(S) <= m
    <3> HIDE DEF S
    <3> QED BY <1>3, <2>1, MinIsLeast
  <2> DEFINE c == Min(S)
  <2>3. c \in k + 1..Len(line) /\ line[c] = line[k] /\ \A m \in S : c <= m
    BY <2>2
  <2> HIDE DEF c
  <2>4. \A m \in k + 1..c - 1 : m \notin S /\ m \in k + 1..Len(line)
    <3> HIDE DEF S
    <3> QED BY <2>3 DEF LineInSymbols
  <2>5. \A m \in k + 1..c - 1 : line[m] # line[k]
    BY <2>4
  <2>6. CloseOf(k) = c
    BY <1>1, <1>3 DEF c
  <2> QED BY <2>3, <2>5, <2>6
<1> QED BY <1>2, <1>3

LEMMA ErrorStep ==
  ASSUME LineInSymbols
  PROVE  /\ InputError = Error[1]
         /\ \A k \in 1..Len(line) + 1 :
              Error[k] = IF k > Len(line) THEN FALSE
                         ELSE IF line[k] \notin Quotes THEN Error[k + 1]
                         ELSE CloseOf(k) = 0 \/ Error[CloseOf(k) + 1]
<1> DEFINE n == Len(line)
           body(f, k) == IF k > n THEN FALSE
                         ELSE IF line[k] \notin Quotes THEN f[k + 1]
                         ELSE CloseOf(k) = 0 \/ f[CloseOf(k) + 1]
           step == [k \in 1..n + 1 |-> [f \in [k + 1..n + 1 -> BOOLEAN] |-> body(f, k)]]
<1>0. n \in Nat
  BY DEF LineInSymbols
<1>1. ASSUME NEW k \in 1..n + 1, k <= n
      PROVE  /\ k + 1 \in k + 1..n + 1
             /\ CloseOf(k) # 0 => CloseOf(k) + 1 \in k + 1..n + 1
  <2>1. k \in 1..n
    BY <1>0, <1>1
  <2>2. CloseOf(k) # 0 => CloseOf(k) \in k + 1..n
    BY <2>1, CloseIsNext
  <2> QED BY <1>0, <1>1, <2>2
<1>2. ASSUME NEW k \in 1..n + 1, NEW f \in [k + 1..n + 1 -> BOOLEAN]
      PROVE  body(f, k) \in BOOLEAN
  <2>1. CASE k > n
    BY <2>1
  <2>2. CASE k <= n
    <3>1. f[k + 1] \in BOOLEAN /\ (CloseOf(k) # 0 => f[CloseOf(k) + 1] \in BOOLEAN)
      BY <1>1, <2>2
    <3>2. (CloseOf(k) = 0 \/ f[CloseOf(k) + 1]) \in BOOLEAN
      BY <3>1
    <3> QED BY <2>2, <3>1, <3>2
  <2>3. k > n \/ k <= n
    BY <1>0
  <2> HIDE DEF body
  <2> QED BY <2>1, <2>2, <2>3
<1>3. DownwardSteps(step, 1, n + 1, BOOLEAN)
  BY <1>2 DEF DownwardSteps
<1>4. PICK f : Downward(f, 1, n + 1, BOOLEAN, step)
  <2> HIDE DEF step, n
  <2>1. 1 \in Int /\ n + 1 \in Int /\ 1 <= n + 1
    BY <1>0
  <2> QED BY <1>3, <2>1, DownwardExists
<1>5. ASSUME NEW k \in 1..n + 1 PROVE f[k] = body(f, k)
  <2> DEFINE h == [l \in k + 1..n + 1 |-> f[l]]
  <2>1. h \in [k + 1..n + 1 -> BOOLEAN] /\ \A l \in k + 1..n + 1 : h[l] = f[l]
    BY <1>0, <1>4 DEF Downward
  <2>2. f[k] = step[k][h]
    <3> HIDE DEF step
    <3> QED BY <1>4 DEF Downward
  <2> HIDE DEF h
  <2>3. step[k][h] = body(h, k)
    BY <2>1
  <2>4. body(h, k) = body(f, k)
    <3>1. CASE k > n
      BY <3>1
    <3>2. CASE ~(k > n)
      <4>1. k <= n
        BY <1>0, <3>2
      <4>2. h[k + 1] = f[k + 1] /\ (CloseOf(k) # 0 => h[CloseOf(k) + 1] = f[CloseOf(k) + 1])
        BY <1>1, <2>1, <4>1
      <4> QED BY <4>2
    <3> QED BY <3>1, <3>2
  <2> QED BY <2>2, <2>3, <2>4
<1>6. f = [k \in 1..n + 1 |-> body(f, k)]
  <2>1. f = [k \in 1..n + 1 |-> f[k]]
    BY <1>4 DEF Downward
  <2> HIDE DEF body
  <2> QED BY <1>5, <2>1
<1>7. Error = [k \in 1..n + 1 |-> body(Error, k)]
  BY <1>6, Zenon DEF Error
<1>8. \A k \in 1..n + 1 : Error[k] = body(Error, k)
  <2> DEFINE g == Error
  <2>1. g = [k \in 1..n + 1 |-> body(g, k)]
    BY <1>7
  <2> HIDE DEF g, body
  <2>2. \A k \in 1..n + 1 : g[k] = body(g, k)
    BY <2>1
  <2> QED BY <2>2 DEF g
<1>9. InputError = Error[1]
  BY DEF InputError, Error
<1> QED BY <1>8, <1>9

(* What may be scanned from a position may be scanned from the next one.   *)
LEMMA ScanGoesOn ==
  ASSUME LineInSymbols
  PROVE  /\ ~InputError => ~Error[1]
         /\ \A k \in 1..Len(line) :
              line[k] \notin Quotes /\ ~Error[k] => ~Error[k + 1]
         /\ \A k \in 1..Len(line) :
              line[k] \in Quotes /\ ~Error[k] => CloseOf(k) # 0 /\ ~Error[CloseOf(k) + 1]
<1>1. ASSUME NEW k \in 1..Len(line)
      PROVE  Error[k] = IF line[k] \notin Quotes THEN Error[k + 1]
                        ELSE CloseOf(k) = 0 \/ Error[CloseOf(k) + 1]
  <2>1. k \in 1..Len(line) + 1 /\ ~(k > Len(line))
    BY DEF LineInSymbols
  <2> QED BY <2>1, ErrorStep
<1>2. ASSUME NEW k \in 1..Len(line), line[k] \notin Quotes, ~Error[k] PROVE ~Error[k + 1]
  BY <1>1, <1>2, Zenon
<1>3. ASSUME NEW k \in 1..Len(line), line[k] \in Quotes, ~Error[k]
      PROVE  CloseOf(k) # 0 /\ ~Error[CloseOf(k) + 1]
  BY <1>1, <1>3, Zenon
<1>4. ~InputError => ~Error[1]
  BY ErrorStep, Zenon
<1> QED BY <1>2, <1>3, <1>4

-----------------------------------------------------------------------------
(* The scan. *)

LexTypes ==
  /\ line \in Seq(Symbols)
  /\ pc \in {"check", "top", "word", "operator", "list",
             "accepted", "refused", "overrun", "null"}
  /\ i \in 1..Len(line) + 1 /\ end \in 1..Len(line) + 1
  /\ tokens \in Seq([op : BOOLEAN, from : Nat, to : Nat])

(* No scan of a quote that starts where the tokenizer stands fails. *)
ScanInv ==
  /\ pc = "check" => i = 1 /\ tokens = <<>>
  /\ pc \in {"top", "operator"} => ~Error[i]
  /\ pc = "word" => ~Error[end] /\ i <= Len(line) /\ i <= end
  /\ pc = "operator" /\ i <= Len(line) => line[i] \in Blanks \cup Operators
  /\ pc \notin {"check", "refused"} => line # <<>>
  /\ pc \in {"list", "accepted", "null"} => i = Len(line) + 1
  /\ pc # "overrun"
  /\ pc = "null" => tokens = <<>>
  /\ pc = "accepted" => tokens # <<>>
  (* what was passed by without a token *)
  /\ tokens = <<>> => \A k \in 1..i - 1 : line[k] \in Blanks

LexInv == LexTypes /\ ScanInv

LEMMA SymbolsApart ==
  /\ \A c \in Blanks : c \notin Quotes /\ c \notin Operators
  /\ \A c \in Operators : c \notin Quotes
  /\ "none" \notin Symbols /\ "none" \notin Quotes
  BY DEF Quotes, Blanks, Operators, Symbols

(* The line does not change, and with it nothing that is read off it. *)
LEMMA ReadOffLine ==
  ASSUME UNCHANGED line
  PROVE  /\ Error' = Error /\ OpenBehind' = OpenBehind /\ Meant' = Meant
         /\ Quoted' = Quoted /\ WordPlaces' = WordPlaces
<1>1. \A k : CloseOf(k)' = CloseOf(k)
  BY DEF CloseOf, SelectInSubSeq
<1>2. Error' = Error
  BY <1>1 DEF Error
<1>3. OpenBehind' = OpenBehind
  BY DEF OpenBehind
<1>4. Quoted' = Quoted
  BY <1>3 DEF Quoted
<1>5. WordPlaces' = WordPlaces
  BY <1>4 DEF WordPlaces
<1>6. Meant' = Meant
  BY <1>5 DEF Meant
<1> QED BY <1>2, <1>3, <1>4, <1>5, <1>6

LEMMA BehindOne ==
  ASSUME NEW m \in Nat
  PROVE  \A k \in 1..(m + 1) - 1 : k \in 1..m - 1 \/ k = m
  OBVIOUS

LEMMA LexInitially == Init => LexInv
<1> SUFFICES ASSUME Init PROVE LexInv
  OBVIOUS
<1>1. line \in Seq(Symbols) /\ Len(line) \in Nat
  BY TokenizerAssumption DEF TokenizerAssumption, Init
<1>2. LexTypes
  BY <1>1 DEF Init, LexTypes
<1>3. ScanInv
  BY DEF Init, ScanInv
<1> QED BY <1>2, <1>3 DEF LexInv

LEMMA LexStep == LexInv /\ [Next]_vars => LexInv'
<1> SUFFICES ASSUME LexInv, [Next]_vars PROVE LexInv'
  OBVIOUS
<1> USE DEF LexInv
<1> DEFINE n == Len(line)
<1>1. UNCHANGED line /\ Error' = Error
  <2>1. UNCHANGED line
    BY DEF Next, vars, Ended, CheckLine, SkipSpace, StartWord, TakeSymbol, TakeQuoted,
           EndWord, TakeOperator, NoOperator, EndOfLine, ReadFirst
  <2> QED BY <2>1, ReadOffLine
<1>2. /\ LineInSymbols /\ n \in Nat
      /\ ~InputError => ~Error[1]
      /\ \A k \in 1..n : line[k] \notin Quotes /\ ~Error[k] => ~Error[k + 1]
      /\ \A k \in 1..n :
           line[k] \in Quotes /\ ~Error[k] => CloseOf(k) # 0 /\ ~Error[CloseOf(k) + 1]
  <2>1. LineInSymbols
    BY DEF LexTypes, LineInSymbols
  <2> QED BY <2>1, ScanGoesOn DEF LineInSymbols
<1>3. i \in 1..n + 1 /\ end \in 1..n + 1
  BY DEF LexTypes
<1>4. CASE CheckLine
  <2>1. (pc' = "refused" \/ (pc' = "top" /\ line # <<>> /\ ~Error[1])) /\ i = 1 /\ tokens = <<>>
    BY <1>2, <1>4 DEF CheckLine, ScanInv
  <2> QED BY <1>1, <1>2, <1>3, <1>4, <2>1 DEF CheckLine, LexTypes, ScanInv
<1>5. CASE SkipSpace
  <2>1. /\ pc = "top" /\ i <= n /\ line[i] \in Blanks
        /\ i' = i + 1 /\ UNCHANGED <<pc, end, tokens>>
    BY <1>5, Zenon DEF SkipSpace, Blanks
  <2>2. i \in 1..n /\ line[i] \in Blanks /\ line[i] \notin Quotes /\ ~Error[i]
    <3>1. i \in 1..n
      <4>1. n \in Nat /\ i <= n
        BY <1>2, <2>1
      <4> QED BY ONLY <1>3, <4>1
    <3>2. line[i] \in Blanks /\ ~Error[i]
      BY <2>1, SymbolsApart DEF ScanInv
    <3> QED BY <3>1, <3>2, SymbolsApart
  <2>3. ~Error[i + 1]
    BY <1>2, <2>2
  <2>4. tokens = <<>> => \A k \in 1..i' - 1 : line[k] \in Blanks
    <3>1. \A k \in 1..(i + 1) - 1 : k \in 1..i - 1 \/ k = i
      BY <1>2, <1>3, BehindOne
    <3>2. i' - 1 = (i + 1) - 1
      BY <1>2, <1>3, <2>1
    <3> QED BY <2>1, <2>2, <3>1, <3>2 DEF ScanInv
  <2>5. i' \in 1..n + 1
    BY <1>2, <1>3, <2>1, <2>2
  <2>6. LexTypes'
    BY <1>1, <2>1, <2>5 DEF LexTypes
  <2>7. ScanInv'
    BY <1>1, <2>1, <2>3, <2>4 DEF ScanInv
  <2> QED BY <2>6, <2>7
<1>6. CASE StartWord
  <2>1. pc = "top" /\ i <= n /\ pc' = "word" /\ end' = i /\ UNCHANGED <<i, tokens>>
    BY <1>6 DEF StartWord
  <2> QED BY <1>1, <1>2, <1>3, <2>1 DEF LexTypes, ScanInv
<1>7. CASE TakeSymbol
  <2>1. /\ pc = "word" /\ end <= n /\ line[end] \notin Quotes
        /\ end' = end + 1 /\ UNCHANGED <<pc, i, tokens>>
    BY <1>7 DEF TakeSymbol
  <2>2. ~Error[end + 1]
    BY <1>2, <1>3, <2>1 DEF ScanInv
  <2> QED BY <1>1, <1>2, <1>3, <2>1, <2>2 DEF LexTypes, ScanInv
<1>8. CASE TakeQuoted
  <2>1. pc = "word" /\ end <= n /\ line[end] \in Quotes /\ UNCHANGED <<i, tokens>>
    BY <1>8 DEF TakeQuoted
  <2>2. CloseOf(end) # 0 /\ ~Error[CloseOf(end) + 1]
    BY <1>2, <1>3, <2>1 DEF ScanInv
  <2>3. CloseOf(end) \in end + 1..n
    BY <1>2, <1>3, <2>1, <2>2, CloseIsNext
  <2>4. end' = CloseOf(end) + 1 /\ UNCHANGED pc
    BY <1>8, <2>2 DEF TakeQuoted
  <2> QED BY <1>1, <1>2, <1>3, <2>1, <2>2, <2>3, <2>4 DEF LexTypes, ScanInv
<1>9. CASE EndWord
  <2>1. /\ pc = "word" /\ (end <= n => line[end] \in Blanks \cup Operators)
        /\ i' = end /\ pc' = "operator" /\ UNCHANGED end
    BY <1>9 DEF EndWord
  <2>2. i <= end /\ ~Error[end]
    BY <2>1 DEF ScanInv
  <2>3. CASE end = i
    <3>1. UNCHANGED tokens
      BY <1>9, <2>3 DEF EndWord
    <3> QED BY <1>1, <1>2, <1>3, <2>1, <2>2, <2>3, <3>1 DEF LexTypes, ScanInv
  <2>4. CASE end # i
    <3>1. tokens' = Append(tokens, [op |-> FALSE, from |-> i, to |-> end - 1])
      BY <1>9, <2>4 DEF EndWord
    <3>2. tokens' \in Seq([op : BOOLEAN, from : Nat, to : Nat]) /\ tokens' # <<>>
      BY <1>3, <3>1 DEF LexTypes
    <3> QED BY <1>1, <1>2, <1>3, <2>1, <2>2, <3>2 DEF LexTypes, ScanInv
  <2> QED BY <2>3, <2>4
<1>10. CASE TakeOperator
  <2>1. /\ pc = "operator" /\ i <= n /\ line[i] \in Operators /\ pc' = "top"
        /\ tokens' = Append(tokens, [op |-> TRUE, from |-> i, to |-> LastOfOperator])
        /\ i' = LastOfOperator + 1 /\ UNCHANGED end
    BY <1>10 DEF TakeOperator
  <2>2. LastOfOperator = i \/ (LastOfOperator = i + 1 /\ i < n /\ line[i + 1] = line[i])
    BY DEF LastOfOperator, Doubled
  <2>3. LastOfOperator \in i..n /\ i \in 1..n
    BY <1>2, <1>3, <2>1, <2>2
  <2>4. ~Error[i + 1]
    <3>1. line[i] \notin Quotes /\ ~Error[i]
      BY <2>1, SymbolsApart DEF ScanInv
    <3> QED BY <1>2, <2>3, <3>1
  <2>5. ~Error[LastOfOperator + 1]
    <3>1. CASE LastOfOperator = i
      BY <2>4, <3>1
    <3>2. CASE LastOfOperator = i + 1 /\ i < n /\ line[i + 1] = line[i]
      <4>0. i + 1 \in 1..n
        BY <1>2, <2>3, <3>2
      <4>1. i + 1 \in 1..n /\ line[i + 1] \notin Quotes
        BY <2>1, <3>2, <4>0, SymbolsApart
      <4>2. ~Error[(i + 1) + 1]
        BY <1>2, <2>4, <4>1
      <4> QED BY <3>2, <4>2
    <3> QED BY <2>2, <3>1, <3>2
  <2>6. tokens' \in Seq([op : BOOLEAN, from : Nat, to : Nat]) /\ tokens' # <<>>
    <3> DEFINE T == [op : BOOLEAN, from : Nat, to : Nat]
               t == [op |-> TRUE, from |-> i, to |-> LastOfOperator]
    <3>1. i \in Nat /\ LastOfOperator \in Nat
      BY <1>2, <2>3
    <3>2. t \in T
      BY <3>1
    <3>3. tokens \in Seq(T)
      BY DEF LexTypes
    <3>4. tokens' = Append(tokens, t)
      BY <2>1
    <3> HIDE DEF T, t
    <3>5. tokens' \in Seq(T) /\ tokens' # <<>>
      BY ONLY <3>2, <3>3, <3>4
    <3> QED BY <3>5 DEF T
  <2>7. i' \in 1..n + 1
    BY <1>2, <1>3, <2>1, <2>3
  <2> QED BY <1>1, <1>2, <1>3, <2>1, <2>5, <2>6, <2>7 DEF LexTypes, ScanInv
<1>11. CASE NoOperator
  <2>1. /\ pc = "operator" /\ i <= n /\ line[i] \notin Operators /\ pc' = "top"
        /\ i' = i + 1 /\ UNCHANGED <<end, tokens>>
    BY <1>11 DEF NoOperator
  <2>2. i \in 1..n /\ line[i] \in Blanks /\ line[i] \notin Quotes /\ ~Error[i]
    <3>1. i \in 1..n
      <4>1. n \in Nat /\ i <= n
        BY <1>2, <2>1
      <4> QED BY ONLY <1>3, <4>1
    <3>2. line[i] \in Blanks /\ ~Error[i]
      BY <2>1, SymbolsApart DEF ScanInv
    <3> QED BY <3>1, <3>2, SymbolsApart
  <2>3. ~Error[i + 1]
    BY <1>2, <2>2
  <2>4. tokens = <<>> => \A k \in 1..i' - 1 : line[k] \in Blanks
    <3>1. \A k \in 1..(i + 1) - 1 : k \in 1..i - 1 \/ k = i
      BY <1>2, <1>3, BehindOne
    <3>2. i' - 1 = (i + 1) - 1
      BY <1>2, <1>3, <2>1
    <3> QED BY <2>1, <2>2, <3>1, <3>2 DEF ScanInv
  <2>5. i' \in 1..n + 1
    BY <1>2, <1>3, <2>1, <2>2
  <2>6. LexTypes'
    BY <1>1, <2>1, <2>5 DEF LexTypes
  <2>7. ScanInv'
    BY <1>1, <2>1, <2>3, <2>4 DEF ScanInv
  <2> QED BY <2>6, <2>7
<1>12. CASE EndOfLine \/ ReadFirst
  <2>1. /\ UNCHANGED <<i, end, tokens>>
        /\ \/ pc \in {"top", "operator"} /\ i > n /\ pc' = "list"
           \/ pc = "list" /\ pc' = IF tokens = <<>> THEN "null" ELSE "accepted"
    BY <1>12 DEF EndOfLine, ReadFirst
  <2> QED BY <1>1, <1>2, <1>3, <2>1 DEF LexTypes, ScanInv
<1>13. CASE Ended \/ UNCHANGED vars
  <2>1. UNCHANGED <<pc, i, end, tokens>>
    BY <1>13 DEF Ended, vars
  <2> QED BY <1>1, <2>1 DEF LexTypes, ScanInv
<1> QED BY <1>4, <1>5, <1>6, <1>7, <1>8, <1>9, <1>10, <1>11, <1>12, <1>13 DEF Next

-----------------------------------------------------------------------------
(* The quotes of a line, from its start to its end. *)

OpenValues == Quotes \cup {"none"}

LEMMA OpenStep ==
  ASSUME LineInSymbols
  PROVE  /\ OpenBehind \in [0..Len(line) -> OpenValues] /\ OpenBehind[0] = "none"
         /\ \A k \in 1..Len(line) :
              OpenBehind[k] =
                CASE OpenBehind[k - 1] = line[k]                      -> "none"
                  [] OpenBehind[k - 1] = "none" /\ line[k] \in Quotes -> line[k]
                  [] OTHER                                            -> OpenBehind[k - 1]
<1> DEFINE n == Len(line)
           next(k, a) == CASE a = line[k]                      -> "none"
                           [] a = "none" /\ line[k] \in Quotes -> line[k]
                           [] OTHER                            -> a
           step == [k \in 1..n |-> [a \in OpenValues |-> next(k, a)]]
           body(f) == [k \in 0..n |-> IF k = 0 THEN "none" ELSE next(k, f[k - 1])]
<1>1. n \in Nat /\ "none" \in OpenValues
  BY DEF LineInSymbols, OpenValues
<1>2. ASSUME NEW k \in 1..n, NEW a \in OpenValues PROVE next(k, a) \in OpenValues
  <2>1. line[k] \in Quotes => line[k] \in OpenValues
    BY DEF OpenValues
  <2> QED BY <1>1, <1>2, <2>1, SymbolsApart
<1>3. step \in [1..n -> [OpenValues -> OpenValues]]
  <2> HIDE DEF next
  <2> QED BY <1>2
<1>4. PICK f : Recursion(f, n, OpenValues, "none", step)
  <2> HIDE DEF step, n
  <2> QED BY <1>1, <1>3, RecursionExists
<1>5. f = body(f)
  <2>1. \A k \in 1..n : f[k - 1] \in OpenValues
    BY <1>1, <1>4 DEF Recursion
  <2>2. \A k \in 1..n : step[k][f[k - 1]] = next(k, f[k - 1])
    <3> HIDE DEF next
    <3> QED BY <2>1
  <2> HIDE DEF step, next
  <2>3. \A k \in 0..n : f[k] = IF k = 0 THEN "none" ELSE next(k, f[k - 1])
    BY <1>1, <1>4, <2>2 DEF Recursion
  <2>4. f = [k \in 0..n |-> f[k]]
    BY <1>4 DEF Recursion
  <2> QED BY <2>3, <2>4
<1>6. OpenBehind = body(OpenBehind)
  BY <1>5, Zenon DEF OpenBehind
<1> DEFINE g == OpenBehind
<1>7. \A k \in 0..n : g[k] = IF k = 0 THEN "none" ELSE next(k, g[k - 1])
  <2>1. g = [k \in 0..n |-> IF k = 0 THEN "none" ELSE next(k, g[k - 1])]
    BY <1>6
  <2> HIDE DEF g, n, next
  <2> QED BY ONLY <2>1
<1>8. g \in [0..n -> OpenValues]
  <2> DEFINE S == {k \in 0..n : g[k] \in OpenValues}
  <2> HIDE DEF g, next
  <2>1. 0 \in S
    BY <1>1, <1>7
  <2>2. ASSUME NEW m \in 0..n - 1, m \in S PROVE m + 1 \in S
    <3>1. g[m + 1] = next(m + 1, g[m]) /\ m + 1 \in 1..n /\ m + 1 \in 0..n
      BY <1>1, <1>7
    <3> QED BY <1>2, <2>2, <3>1
  <2>3. \A m \in 0..n : m \in S
    <3> HIDE DEF S, n
    <3> QED BY <1>1, <2>1, <2>2, Upward
  <2> QED BY <1>6, <2>3 DEF g
<1>9. \A k \in 1..n : g[k] = next(k, g[k - 1])
  <2> HIDE DEF g, next
  <2> QED BY <1>1, <1>7
<1> QED BY <1>1, <1>7, <1>8, <1>9

(* Where no quote is open, a quote opens and nothing else does. *)
LEMMA Unquoted ==
  ASSUME LineInSymbols, NEW k \in 1..Len(line), OpenBehind[k - 1] = "none"
  PROVE  /\ line[k] \notin Quotes => OpenBehind[k] = "none" /\ k \notin Quoted
         /\ line[k] \in Quotes => OpenBehind[k] = line[k]
         /\ k \in WordPlaces <=> line[k] \notin Blanks \cup Operators
<1>1. line[k] # "none" /\ (line[k] \in Quotes => line[k] \notin Blanks \cup Operators)
  BY SymbolsApart DEF LineInSymbols
<1>2. OpenBehind[k] = IF line[k] \in Quotes THEN line[k] ELSE "none"
  BY <1>1, OpenStep
<1>3. line[k] \notin Quotes => k \notin Quoted
  BY <1>2 DEF Quoted
<1>4. line[k] \in Quotes => k \in WordPlaces
  BY <1>1 DEF WordPlaces
<1> QED BY <1>1, <1>2, <1>3, <1>4 DEF WordPlaces

(* A quote and its end, and what is between them, are in one word. *)
LEMMA QuotedStretch ==
  ASSUME LineInSymbols, NEW k \in 1..Len(line), OpenBehind[k - 1] = "none",
         line[k] \in Quotes, CloseOf(k) # 0
  PROVE  OpenBehind[CloseOf(k)] = "none" /\ k..CloseOf(k) \subseteq WordPlaces
<1> DEFINE c == CloseOf(k)
<1>1. /\ c \in k + 1..Len(line) /\ line[c] = line[k]
      /\ \A m \in k + 1..c - 1 : line[m] # line[k]
  BY CloseIsNext
<1> HIDE DEF c
<1>2. line[k] # "none" /\ Len(line) \in Nat
  BY SymbolsApart DEF LineInSymbols
<1> DEFINE S == {m \in 0..c - 1 - k : OpenBehind[k + m] = line[k]}
<1>3. 0 \in S
  <2>1. k + 0 = k /\ 0 \in 0..c - 1 - k
    BY <1>1, <1>2
  <2> QED BY <2>1, Unquoted
<1>4. ASSUME NEW m \in 0..(c - 1 - k) - 1, m \in S PROVE m + 1 \in S
  <2> DEFINE p == k + m + 1
  <2>1. /\ p \in k + 1..c - 1 /\ p \in 1..Len(line) /\ p - 1 = k + m
        /\ k + (m + 1) = p /\ m + 1 \in 0..c - 1 - k
    BY <1>1, <1>2
  <2> HIDE DEF p
  <2>2. OpenBehind[p - 1] = line[k] /\ line[p] # line[k]
    BY <1>1, <1>4, <2>1
  <2>3. OpenBehind[p] = line[k]
    BY <1>2, <2>1, <2>2, OpenStep
  <2> QED BY <2>1, <2>3
<1>5. \A m \in 0..c - 1 - k : m \in S
  <2>1. c - 1 - k \in Nat
    BY <1>1, <1>2
  <2> HIDE DEF S
  <2> QED BY <1>3, <1>4, <2>1, Upward
<1>6. ASSUME NEW p \in k..c - 1 PROVE OpenBehind[p] = line[k]
  <2>1. p - k \in 0..c - 1 - k /\ k + (p - k) = p
    BY <1>1, <1>2
  <2>2. p - k \in S
    BY <1>5, <2>1
  <2> QED BY <2>1, <2>2
<1>7. OpenBehind[c] = "none"
  <2>1. c \in 1..Len(line) /\ c - 1 \in k..c - 1
    BY <1>1, <1>2
  <2>2. OpenBehind[c - 1] = line[c]
    BY <1>1, <1>6, <2>1
  <2> QED BY <1>2, <2>1, <2>2, OpenStep
<1>8. ASSUME NEW p \in k..c PROVE p \in WordPlaces
  <2>1. p \in 1..Len(line)
    BY <1>1, <1>2
  <2>2. OpenBehind[p] # "none" \/ OpenBehind[p - 1] # "none"
    <3>1. CASE p = c
      <4>1. c - 1 \in k..c - 1
        BY <1>1, <1>2
      <4> QED BY <1>2, <1>6, <3>1, <4>1
    <3>2. CASE p # c
      <4>1. p \in k..c - 1
        BY <1>1, <1>2, <3>2
      <4> QED BY <1>2, <1>6, <4>1
    <3> QED BY <3>1, <3>2
  <2> QED BY <2>1, <2>2 DEF WordPlaces, Quoted
<1> QED BY <1>7, <1>8 DEF c

(* The parts of Meant. *)
Same(k) ==
  k \notin WordPlaces /\ k + 1 \in 1..Len(line) \ WordPlaces /\ line[k] = line[k + 1]
Row ==
  LET row[k \in 1..Len(line)] == IF k > 1 /\ Same(k - 1) THEN 1 + row[k - 1] ELSE 0
  IN row
OperatorPlaces ==
  {k \in 1..Len(line) \ WordPlaces :
     line[k] \in Operators /\ (line[k] = "|" \/ Row[k] % 2 = 0)}
WordEnds == {k \in WordPlaces : k + 1 \notin WordPlaces}
WordToken(k) == [op |-> FALSE, from |-> k, to |-> Min({e \in WordEnds : e >= k})]
OperatorToken(k) ==
  [op |-> TRUE, from |-> k, to |-> IF line[k] # "|" /\ Same(k) THEN k + 1 ELSE k]

LEMMA RowStep ==
  ASSUME LineInSymbols
  PROVE  /\ Row \in [1..Len(line) -> Nat]
         /\ \A k \in 1..Len(line) :
              Row[k] = IF k > 1 /\ Same(k - 1) THEN 1 + Row[k - 1] ELSE 0
<1> DEFINE n == Len(line)
           step == [k \in 1..n |-> [a \in Nat |-> IF k > 1 /\ Same(k - 1) THEN 1 + a ELSE 0]]
           body(f) == [k \in 1..n |-> IF k > 1 /\ Same(k - 1) THEN 1 + f[k - 1] ELSE 0]
<1>1. n \in Nat
  BY DEF LineInSymbols
<1>2. step \in [1..n -> [Nat -> Nat]]
  OBVIOUS
<1>3. PICK f : Recursion(f, n, Nat, 0, step)
  <2> HIDE DEF step, n
  <2> QED BY <1>1, <1>2, RecursionExists
<1> DEFINE r == [k \in 1..n |-> f[k]]
<1>4. r = body(r)
  <2>1. \A k \in 1..n : f[k] = IF k > 1 /\ Same(k - 1) THEN 1 + f[k - 1] ELSE 0
    <3> SUFFICES ASSUME NEW k \in 1..n
                 PROVE  f[k] = IF k > 1 /\ Same(k - 1) THEN 1 + f[k - 1] ELSE 0
      OBVIOUS
    <3>1. f[k - 1] \in Nat
      BY <1>1, <1>3 DEF Recursion
    <3>2. f[k] = step[k][f[k - 1]]
      BY <1>3 DEF Recursion
    <3> QED BY <3>1, <3>2
  <2>2. \A k \in 1..n : k > 1 => r[k - 1] = f[k - 1]
    BY <1>1
  <2> QED BY <2>1, <2>2
<1>5. Row = body(Row)
  <2> HIDE DEF r
  <2> QED BY <1>4, Zenon DEF Row
<1> DEFINE g == Row
<1>6. \A k \in 1..n : g[k] = IF k > 1 /\ Same(k - 1) THEN 1 + g[k - 1] ELSE 0
  <2>1. g = [k \in 1..n |-> IF k > 1 /\ Same(k - 1) THEN 1 + g[k - 1] ELSE 0]
    BY <1>5
  <2> HIDE DEF g, n
  <2> QED BY ONLY <2>1
<1>7. g \in [1..n -> Nat]
  <2> DEFINE S == {k \in 0..n : k = 0 \/ g[k] \in Nat}
  <2> HIDE DEF g
  <2>1. 0 \in S
    BY <1>1
  <2>2. ASSUME NEW m \in 0..n - 1, m \in S PROVE m + 1 \in S
    <3>1. g[m + 1] = (IF m + 1 > 1 /\ Same(m) THEN 1 + g[m] ELSE 0) /\ m + 1 \in 0..n
      <4>1. m + 1 \in 1..n /\ (m + 1) - 1 = m /\ m + 1 \in 0..n
        BY <1>1
      <4> QED BY <1>6, <4>1
    <3>2. m + 1 > 1 => g[m] \in Nat
      BY <2>2
    <3> QED BY <3>1, <3>2
  <2>3. \A m \in 0..n : m \in S
    <3> HIDE DEF S, n
    <3> QED BY <1>1, <2>1, <2>2, Upward
  <2>4. \A k \in 1..n : g[k] \in Nat
    BY <1>1, <2>3
  <2> QED BY <1>5, <2>4 DEF g
<1> QED BY <1>6, <1>7

LEMMA MeantIs ==
  Meant = {WordToken(k) : k \in {w \in WordPlaces : w - 1 \notin WordPlaces}}
          \cup {OperatorToken(k) : k \in OperatorPlaces}
  BY Zenon DEF Meant, WordToken, OperatorToken, OperatorPlaces, WordEnds, Row, Same

LEMMA MeantFrom ==
  /\ \A t \in Meant :
       \/ t.from \in WordPlaces /\ t.from - 1 \notin WordPlaces /\ t = WordToken(t.from)
       \/ t.from \in OperatorPlaces /\ t = OperatorToken(t.from)
  /\ \A k \in WordPlaces : k - 1 \notin WordPlaces => WordToken(k) \in Meant
  /\ \A k \in OperatorPlaces : OperatorToken(k) \in Meant
<1>1. \A k : WordToken(k).from = k /\ OperatorToken(k).from = k
  BY DEF WordToken, OperatorToken
<1> QED BY <1>1, MeantIs

LEMMA PlacesInLine ==
  ASSUME LineInSymbols
  PROVE  /\ WordPlaces \subseteq 1..Len(line) /\ OperatorPlaces \subseteq 1..Len(line)
         /\ OperatorPlaces \cap WordPlaces = {}
         /\ \A t \in Meant : t.from \in 1..Len(line)
<1>1. /\ WordPlaces \subseteq 1..Len(line) /\ OperatorPlaces \subseteq 1..Len(line)
      /\ OperatorPlaces \cap WordPlaces = {}
  BY DEF WordPlaces, Quoted, OperatorPlaces
<1> QED BY <1>1, MeantFrom

-----------------------------------------------------------------------------
(* The tokens that have been cut from the line. *)

(* The tokens are those of the line in front of i, in their order. *)
Collected ==
  /\ ToSet(tokens) = {t \in Meant : t.from < i}
  /\ \A k \in 1..Len(tokens) : tokens[k].from <= tokens[k].to /\ tokens[k].to < i
  /\ \A k \in 1..Len(tokens) - 1 : tokens[k].to < tokens[k + 1].from

LEMMA TokenTypes ==
  ASSUME LexTypes
  PROVE  /\ i \in Nat /\ Len(tokens) \in Nat
         /\ \A k \in 1..Len(tokens) : tokens[k].to \in Nat /\ tokens[k].from \in Nat
<1>1. Len(line) \in Nat /\ i \in 1..Len(line) + 1
  BY DEF LexTypes
<1>2. Len(tokens) \in Nat /\ \A k \in 1..Len(tokens) : tokens[k] \in [op : BOOLEAN, from : Nat, to : Nat]
  <2> DEFINE T == [op : BOOLEAN, from : Nat, to : Nat]
  <2>1. tokens \in Seq(T)
    BY DEF LexTypes
  <2> HIDE DEF T
  <2>2. Len(tokens) \in Nat /\ \A k \in 1..Len(tokens) : tokens[k] \in T
    BY ONLY <2>1
  <2> QED BY <2>2 DEF T
<1> QED BY <1>1, <1>2

LEMMA NothingCollected ==
  ASSUME LexTypes, Collected, UNCHANGED <<line, tokens>>, i' \in Nat, i <= i',
         \A t \in Meant : ~(i <= t.from /\ t.from < i')
  PROVE  Collected'
<1>1. Meant' = Meant
  BY ReadOffLine
<1>2. \A t \in Meant : t.from \in Nat
  BY PlacesInLine DEF LexTypes, LineInSymbols
<1>3. i \in Nat /\ \A k \in 1..Len(tokens) : tokens[k].to \in Nat
  BY TokenTypes
<1>4. {t \in Meant : t.from < i'} = {t \in Meant : t.from < i}
  BY <1>2, <1>3
<1> QED BY <1>1, <1>3, <1>4 DEF Collected

LEMMA OneCollected ==
  ASSUME LexTypes, Collected, UNCHANGED line, i' \in Nat, i <= i',
         NEW t \in Meant, tokens' = Append(tokens, t), i <= t.from, t.from <= t.to, t.from < i', t.to < i',
         \A u \in Meant : i <= u.from /\ u.from < i' => u = t
  PROVE  Collected'
<1>1. Meant' = Meant
  BY ReadOffLine
<1>2. \A u \in Meant : u.from \in Nat
  BY PlacesInLine DEF LexTypes, LineInSymbols
<1>3. /\ i \in Nat /\ Len(tokens) \in Nat /\ tokens \in Seq([op : BOOLEAN, from : Nat, to : Nat])
      /\ \A k \in 1..Len(tokens) : tokens[k].to \in Nat
  BY TokenTypes DEF LexTypes
<1> DEFINE n == Len(tokens)
<1>4. /\ Len(tokens') = n + 1 /\ tokens'[n + 1] = t
      /\ \A k \in 1..n : tokens'[k] = tokens[k]
  BY <1>3
<1>5. ToSet(tokens)' = ToSet(tokens) \cup {t}
  <2>1. DOMAIN tokens = 1..n /\ DOMAIN tokens' = 1..n + 1
    BY <1>3
  <2>2. \A k \in 1..n + 1 : k \in 1..n \/ k = n + 1
    BY <1>3
  <2>3. n + 1 \in 1..n + 1 /\ \A k \in 1..n : k \in 1..n + 1
    BY <1>3
  <2> HIDE DEF n
  <2> QED BY ONLY <1>4, <2>1, <2>2, <2>3 DEF ToSet
<1>6. ToSet(tokens)' = {u \in Meant : u.from < i'}
  <2>1. \A u \in Meant : u.from < i' <=> u.from < i \/ u = t
    BY <1>2, <1>3
  <2> QED BY <1>5, <2>1 DEF Collected
<1>7. \A k \in 1..n + 1 : tokens'[k].from <= tokens'[k].to /\ tokens'[k].to < i'
  <2>1. ASSUME NEW k \in 1..n
        PROVE  tokens'[k].from <= tokens'[k].to /\ tokens'[k].to < i'
    <3>1. /\ tokens'[k] = tokens[k] /\ tokens[k].to < i /\ tokens[k].to \in Nat
          /\ tokens[k].from <= tokens[k].to
      BY <1>3, <1>4 DEF Collected
    <3> QED BY <1>3, <3>1
  <2>2. \A k \in 1..n + 1 : k \in 1..n \/ k = n + 1
    BY <1>3
  <2> QED BY <1>4, <2>1, <2>2
<1>8. ASSUME NEW k \in 1..n PROVE tokens'[k].to < tokens'[k + 1].from
  <2>1. CASE k = n
    <3>1. tokens'[k].to = tokens[k].to /\ tokens[k].to < i /\ tokens[k].to \in Nat
      BY <1>3, <1>4 DEF Collected
    <3>2. tokens'[k + 1].from = t.from /\ t.from \in Nat
      BY <1>2, <1>4, <2>1
    <3> QED BY <1>3, <3>1, <3>2
  <2>2. CASE k # n
    <3>1. k \in 1..n - 1 /\ k + 1 \in 1..n
      BY <1>3, <2>2
    <3> QED BY <1>4, <3>1 DEF Collected
  <2> QED BY <2>1, <2>2
<1>9. (n + 1) - 1 = n
  BY <1>3
<1> QED BY <1>1, <1>4, <1>6, <1>7, <1>8, <1>9 DEF Collected

(* The operators that may be doubled. *)
Angles == Operators \ {"|"}

LEMMA OperatorsApart ==
  /\ \A k : k \in OperatorPlaces <=>
            /\ k \in 1..Len(line) /\ k \notin WordPlaces /\ line[k] \in Operators
            /\ line[k] \in Angles => Row[k] % 2 = 0
  /\ \A k \in OperatorPlaces :
       OperatorToken(k) =
         [op |-> TRUE, from |-> k, to |-> IF line[k] \in Angles /\ Same(k) THEN k + 1 ELSE k]
  /\ Doubled <=> i < Len(line) /\ line[i] \in Angles /\ line[i + 1] = line[i]
<1>1. Angles = {"<", ">"}
  BY Zenon DEF Angles, Operators
<1>2. \A k : k \in OperatorPlaces <=>
            /\ k \in 1..Len(line) /\ k \notin WordPlaces /\ line[k] \in Operators
            /\ line[k] \in Angles => Row[k] % 2 = 0
  BY Zenon DEF OperatorPlaces, Angles
<1>3. ASSUME NEW k \in OperatorPlaces
      PROVE  OperatorToken(k) =
         [op |-> TRUE, from |-> k, to |-> IF line[k] \in Angles /\ Same(k) THEN k + 1 ELSE k]
  <2>1. line[k] # "|" <=> line[k] \in Angles
    BY <1>2, <1>3, Zenon DEF Angles
  <2> QED BY <2>1, Zenon DEF OperatorToken
<1>4. Doubled <=> i < Len(line) /\ line[i] \in Angles /\ line[i + 1] = line[i]
  BY <1>1, Zenon DEF Doubled
<1> QED BY <1>2, <1>3, <1>4

TokensInv ==
  pc \notin {"check", "refused"} =>
    /\ Collected
    /\ OpenBehind[IF pc = "word" THEN end - 1 ELSE i - 1] = "none"
    /\ pc \in {"top", "word"} => i - 1 \notin WordPlaces
    /\ pc = "word" => \A k \in i..end - 1 : k \in WordPlaces
    /\ pc \in {"top", "word", "operator"} /\ i <= Len(line) /\ line[i] \in Angles =>
         Row[i] % 2 = 0

(* A row of equal operators is counted from its start. *)
LEMMA RowIsEven ==
  ASSUME LineInSymbols, NEW k \in 1..Len(line), k > 1 => ~Same(k - 1)
  PROVE  Row[k] % 2 = 0
<1>1. Row[k] = 0
  BY RowStep
<1> QED BY <1>1

LEMMA TokensInitially == Init => TokensInv
  BY DEF Init, TokensInv

LEMMA TokensStep == LexInv /\ TokensInv /\ [Next]_vars => TokensInv'
<1> SUFFICES ASSUME LexInv, TokensInv, [Next]_vars PROVE TokensInv'
  OBVIOUS
<1> DEFINE n == Len(line)
<1>1. /\ UNCHANGED line /\ OpenBehind' = OpenBehind /\ WordPlaces' = WordPlaces
      /\ Row' = Row
  <2>1. UNCHANGED line
    BY DEF Next, vars, Ended, CheckLine, SkipSpace, StartWord, TakeSymbol, TakeQuoted,
           EndWord, TakeOperator, NoOperator, EndOfLine, ReadFirst
  <2>2. OpenBehind' = OpenBehind /\ WordPlaces' = WordPlaces
    BY <2>1, ReadOffLine
  <2>3. \A k : Same(k)' = Same(k)
    BY <2>1, <2>2 DEF Same
  <2>4. Row' = Row
    BY <2>1, <2>3 DEF Row
  <2> QED BY <2>1, <2>2, <2>4
<1>2. LineInSymbols /\ n \in Nat
  BY DEF LexInv, LexTypes, LineInSymbols
<1>3. i \in 1..n + 1 /\ end \in 1..n + 1 /\ LexTypes
  BY DEF LexInv, LexTypes
<1>4. CASE CheckLine
  <2>1. i = 1 /\ tokens = <<>> /\ UNCHANGED <<i, end, tokens>> /\ pc' \in {"refused", "top"}
    BY <1>4 DEF CheckLine, LexInv, ScanInv
  <2>2. Collected'
    <3>1. \A t \in Meant : t.from \in Nat /\ ~(t.from < 1)
      BY <1>2, PlacesInLine
    <3>2. Meant' = Meant
      BY <1>1, ReadOffLine
    <3>3. ToSet(tokens)' = {}
      BY <2>1 DEF ToSet
    <3> QED BY <2>1, <3>1, <3>2, <3>3 DEF Collected
  <2>3. 0 \notin WordPlaces /\ OpenBehind[0] = "none"
    BY <1>2, PlacesInLine, OpenStep
  <2>4. 1 <= n => Row[1] % 2 = 0
    BY <1>2, RowIsEven
  <2> QED BY <1>1, <2>1, <2>2, <2>3, <2>4 DEF TokensInv
<1>5. CASE SkipSpace \/ NoOperator
  <2>1. /\ pc \in {"top", "operator"} /\ i <= n /\ line[i] \in Blanks
        /\ i' = i + 1 /\ pc' = "top" /\ UNCHANGED <<end, tokens>>
    <3>1. CASE SkipSpace
      BY <3>1, Zenon DEF SkipSpace, Blanks
    <3>2. CASE NoOperator
      BY <3>2 DEF NoOperator, LexInv, ScanInv
    <3> QED BY <1>5, <3>1, <3>2
  <2>2. i \in 1..n /\ i + 1 \in 1..n + 1 /\ (i + 1) - 1 = i /\ i + 1 \in Nat /\ i <= i + 1
    BY <1>2, <1>3, <2>1
  <2>3. /\ line[i] \notin Quotes /\ line[i] \notin Operators /\ OpenBehind[i - 1] = "none"
        /\ Collected
    BY <2>1, SymbolsApart DEF TokensInv
  <2>4. OpenBehind[i] = "none" /\ i \notin WordPlaces /\ i \notin OperatorPlaces
    <3>1. i \notin OperatorPlaces
      BY <2>3, OperatorsApart
    <3> QED BY <1>2, <2>1, <2>2, <2>3, <3>1, Unquoted
  <2>5. Collected'
    <3>1. \A t \in Meant : t.from \in Nat /\ t.from # i
      BY <1>2, <2>4, MeantFrom, PlacesInLine
    <3>2. \A t \in Meant : ~(i <= t.from /\ t.from < i + 1)
      BY <1>3, <3>1
    <3> QED BY <1>1, <1>3, <2>1, <2>2, <2>3, <3>2, NothingCollected
  <2>6. i + 1 <= n /\ line[i + 1] \in Angles => Row[i + 1] % 2 = 0
    <3> SUFFICES ASSUME i + 1 <= n, line[i + 1] \in Angles PROVE Row[i + 1] % 2 = 0
      OBVIOUS
    <3>1. i + 1 \in 1..n
      BY <1>2, <2>2
    <3>2. ~Same(i)
      BY <2>3 DEF Same, Angles
    <3> QED BY <1>2, <2>2, <3>1, <3>2, RowIsEven
  <2>7. i' - 1 = i
    BY <2>1, <2>2
  <2> QED BY <1>1, <2>1, <2>4, <2>5, <2>6, <2>7 DEF TokensInv
<1>6. CASE StartWord
  <2>1. /\ pc = "top" /\ i <= n /\ pc' = "word" /\ end' = i /\ UNCHANGED <<i, tokens>>
    BY <1>6, Zenon DEF StartWord
  <2>2. Collected'
    BY <1>1, <2>1, ReadOffLine DEF TokensInv, Collected
  <2>3. \A k \in i..i - 1 : k \in WordPlaces
    BY <1>3
  <2> QED BY <1>1, <2>1, <2>2, <2>3 DEF TokensInv
<1>7. CASE TakeSymbol
  <2>1. /\ pc = "word" /\ end <= n /\ line[end] \notin Blanks \cup Operators
        /\ line[end] \notin Quotes /\ end' = end + 1 /\ UNCHANGED <<pc, i, tokens>>
    BY <1>7 DEF TakeSymbol
  <2>2. end \in 1..n /\ (end + 1) - 1 = end
    BY <1>2, <1>3, <2>1
  <2>3. OpenBehind[end] = "none" /\ end \in WordPlaces
    BY <1>2, <2>1, <2>2, Unquoted DEF TokensInv
  <2>4. Collected'
    BY <1>1, <2>1, ReadOffLine DEF TokensInv, Collected
  <2>5. \A k \in i..(end + 1) - 1 : k \in WordPlaces
    <3>1. \A k \in i..(end + 1) - 1 : k \in i..end - 1 \/ k = end
      BY <1>3
    <3> QED BY <2>1, <2>3, <3>1 DEF TokensInv
  <2>6. end' - 1 = end
    BY <2>1, <2>2
  <2> QED BY <1>1, <2>1, <2>3, <2>4, <2>5, <2>6 DEF TokensInv
<1>8. CASE TakeQuoted
  <2> DEFINE c == CloseOf(end)
  <2>1. pc = "word" /\ end <= n /\ line[end] \in Quotes /\ UNCHANGED <<i, tokens>>
    BY <1>8 DEF TakeQuoted
  <2>2. end \in 1..n /\ OpenBehind[end - 1] = "none"
    BY <1>2, <1>3, <2>1 DEF TokensInv
  <2>3. c # 0
    BY <1>2, <2>1, <2>2, ScanGoesOn DEF LexInv, ScanInv
  <2>4. c \in end + 1..n
    BY <1>2, <2>2, <2>3, CloseIsNext
  <2>5. end' = c + 1 /\ UNCHANGED pc
    BY <1>8, <2>3 DEF TakeQuoted
  <2>6. OpenBehind[c] = "none" /\ end..c \subseteq WordPlaces
    BY <1>2, <2>1, <2>2, <2>3, QuotedStretch
  <2> HIDE DEF c
  <2>7. Collected'
    BY <1>1, <2>1, ReadOffLine DEF TokensInv, Collected
  <2>8. (c + 1) - 1 = c
    BY <2>4
  <2>9. \A k \in i..(c + 1) - 1 : k \in WordPlaces
    <3>1. \A k \in i..(c + 1) - 1 : k \in i..end - 1 \/ k \in end..c
      BY <1>3, <2>2, <2>4
    <3> QED BY <2>1, <2>6, <3>1 DEF TokensInv
  <2>10. end' - 1 = c
    BY <2>5, <2>8
  <2> QED BY <1>1, <2>1, <2>5, <2>6, <2>7, <2>9, <2>10 DEF TokensInv
<1>9. CASE EndWord
  <2>1. /\ pc = "word" /\ (end <= n => line[end] \in Blanks \cup Operators)
        /\ i' = end /\ pc' = "operator" /\ UNCHANGED end
    BY <1>9 DEF EndWord
  <2>2. /\ i <= end /\ OpenBehind[end - 1] = "none" /\ Collected /\ i - 1 \notin WordPlaces
        /\ i <= n /\ \A k \in i..end - 1 : k \in WordPlaces
    BY <2>1 DEF TokensInv, LexInv, ScanInv
  <2>3. end \notin WordPlaces
    <3>1. CASE end <= n
      <4>1. end \in 1..n
        BY <1>2, <1>3, <3>1
      <4> QED BY <1>2, <2>1, <2>2, <3>1, <4>1, Unquoted
    <3>2. CASE ~(end <= n)
      <4>1. end \notin 1..n
        BY <1>3, <3>2
      <4> QED BY <1>2, <4>1, PlacesInLine
    <3> QED BY <3>1, <3>2
  <2>4. CASE end = i
    <3>1. UNCHANGED <<i, tokens>>
      BY <1>9, <2>1, <2>4 DEF EndWord
    <3>2. Collected'
      BY <1>1, <2>2, <3>1, ReadOffLine DEF Collected
    <3> QED BY <1>1, <2>1, <2>2, <2>4, <3>1, <3>2 DEF TokensInv
  <2>5. CASE end # i
    <3>1. tokens' = Append(tokens, [op |-> FALSE, from |-> i, to |-> end - 1])
      BY <1>9, <2>5 DEF EndWord
    <3>2. /\ end - 1 \in i..end - 1 /\ i \in i..end - 1 /\ (end - 1) + 1 = end
          /\ i \in Nat /\ end \in Nat /\ i < end /\ end - 1 < end
      BY <1>3, <2>2, <2>5
    <3>3. WordToken(i) = [op |-> FALSE, from |-> i, to |-> end - 1]
      <4> DEFINE E == {e \in WordEnds : e >= i}
      <4>1. end - 1 \in E
        BY <2>2, <2>3, <3>2 DEF WordEnds
      <4>2. ASSUME NEW e \in E PROVE end - 1 <= e
        <5>1. e \in Nat /\ e >= i /\ e + 1 \notin WordPlaces
          BY <1>2, PlacesInLine DEF WordEnds
        <5>2. e + 1 \notin i..end - 1
          BY <2>2, <5>1
        <5> QED BY <3>2, <5>1, <5>2
      <4>3. E \subseteq Nat
        BY <1>2, PlacesInLine DEF WordEnds
      <4>4. Min(E) \in E /\ \A e \in E : Min(E) <= e
        <5> HIDE DEF E
        <5> QED BY <4>1, <4>3, MinIsLeast
      <4> HIDE DEF E
      <4>5. Min(E) = end - 1
        <5>1. Min(E) \in Nat /\ end - 1 \in Nat /\ Min(E) <= end - 1 /\ end - 1 <= Min(E)
          BY <4>1, <4>2, <4>3, <4>4
        <5> QED BY <5>1
      <4> QED BY <4>5 DEF WordToken, E
    <3>4. WordToken(i) \in Meant
      BY <2>2, <3>2, MeantFrom
    <3>5. ASSUME NEW u \in Meant, i <= u.from, u.from < end PROVE u = WordToken(i)
      <4>1. u.from \in Nat
        BY <1>2, PlacesInLine
      <4>2. u.from \in i..end - 1 /\ (u.from # i => u.from - 1 \in i..end - 1)
        BY <3>2, <3>5, <4>1
      <4>3. u.from \in WordPlaces /\ (u.from # i => u.from - 1 \in WordPlaces)
        BY <2>2, <4>2
      <4>4. u.from \notin OperatorPlaces
        BY <1>2, <4>3, PlacesInLine
      <4> QED BY <4>3, <4>4, MeantFrom
    <3>6. Collected'
      <4> DEFINE t == WordToken(i)
      <4>1. t.from = i /\ t.to = end - 1
        BY <3>3
      <4>2. i' \in Nat /\ i <= i' /\ i <= t.from /\ t.from <= t.to /\ t.from < i' /\ t.to < i'
        BY <2>1, <3>2, <4>1
      <4>3. tokens' = Append(tokens, t)
        BY <3>1, <3>3
      <4>4. \A u \in Meant : i <= u.from /\ u.from < i' => u = t
        BY <2>1, <3>5
      <4> HIDE DEF t
      <4>5. t \in Meant
        BY <3>4 DEF t
      <4> QED BY <1>1, <1>3, <2>2, <4>2, <4>3, <4>4, <4>5, OneCollected
    <3>7. end <= n => Row[end] % 2 = 0
      <4> SUFFICES ASSUME end <= n PROVE Row[end] % 2 = 0
        OBVIOUS
      <4>1. end \in 1..n /\ ~Same(end - 1)
        BY <1>2, <1>3, <2>2, <3>2 DEF Same
      <4> QED BY <1>2, <4>1, RowIsEven
    <3> QED BY <1>1, <2>1, <2>2, <3>6, <3>7 DEF TokensInv
  <2> QED BY <2>4, <2>5
<1>10. CASE TakeOperator
  <2> DEFINE l == LastOfOperator
             t == OperatorToken(i)
  <2>1. /\ pc = "operator" /\ i <= n /\ line[i] \in Operators /\ pc' = "top"
        /\ tokens' = Append(tokens, [op |-> TRUE, from |-> i, to |-> l])
        /\ i' = l + 1
    BY <1>10 DEF TakeOperator
  <2>2. i \in 1..n /\ OpenBehind[i - 1] = "none" /\ Collected
    BY <1>2, <1>3, <2>1 DEF TokensInv
  <2>3. i \notin WordPlaces /\ OpenBehind[i] = "none"
    BY <1>2, <2>1, <2>2, Unquoted, SymbolsApart
  <2>4. i \in OperatorPlaces
    BY <2>1, <2>2, <2>3, OperatorsApart DEF TokensInv
  <2>5. Doubled => /\ i + 1 \in 1..n /\ (i + 1) - 1 = i /\ line[i] \in Angles
                   /\ line[i + 1] = line[i] /\ i + 1 \notin WordPlaces
                   /\ OpenBehind[i + 1] = "none" /\ Same(i)
    <3> SUFFICES ASSUME Doubled
                 PROVE  /\ i + 1 \in 1..n /\ (i + 1) - 1 = i /\ line[i] \in Angles
                        /\ line[i + 1] = line[i] /\ i + 1 \notin WordPlaces
                        /\ OpenBehind[i + 1] = "none" /\ Same(i)
      OBVIOUS
    <3>1. i < n /\ line[i] \in Angles /\ line[i + 1] = line[i]
      BY OperatorsApart
    <3>2. i + 1 \in 1..n /\ (i + 1) - 1 = i
      BY <1>2, <2>2, <3>1
    <3>3. i + 1 \notin WordPlaces /\ OpenBehind[i + 1] = "none"
      BY <1>2, <2>1, <2>3, <3>1, <3>2, Unquoted, SymbolsApart
    <3> QED BY <2>3, <3>1, <3>2, <3>3 DEF Same
  <2>6. Same(i) /\ line[i] \in Angles => Doubled
    <3>1. Same(i) => i + 1 \in 1..n /\ line[i] = line[i + 1]
      BY DEF Same
    <3>2. i + 1 \in 1..n => i < n
      BY <1>2, <2>2
    <3> QED BY <3>1, <3>2, OperatorsApart
  <2>7. (Doubled /\ l = i + 1) \/ (~Doubled /\ l = i)
    BY DEF LastOfOperator
  <2>8. t = [op |-> TRUE, from |-> i, to |-> l]
    <3>1. t = [op |-> TRUE, from |-> i, to |-> IF line[i] \in Angles /\ Same(i) THEN i + 1 ELSE i]
      BY <2>4, OperatorsApart
    <3>2. line[i] \in Angles /\ Same(i) <=> Doubled
      BY <2>5, <2>6
    <3> HIDE DEF t, l
    <3> QED BY <2>7, <3>1, <3>2
  <2>9. t \in Meant
    BY <2>4, MeantFrom
  <2>10. t.from = i /\ t.to = l
    BY <2>8
  <2> HIDE DEF l, t
  <2>11. l \in i..n /\ l \in 1..n /\ l + 1 \in 1..n + 1 /\ (l + 1) - 1 = l
    BY <1>2, <2>2, <2>5, <2>7
  <2>12. Doubled => Row[i + 1] = 1 + Row[i] /\ Row[i] % 2 = 0 /\ Row[i] \in Nat
    <3> SUFFICES ASSUME Doubled PROVE Row[i + 1] = 1 + Row[i] /\ Row[i] % 2 = 0 /\ Row[i] \in Nat
      OBVIOUS
    <3>1. Row[i] % 2 = 0
      BY <2>1, <2>5 DEF TokensInv
    <3>2. i + 1 > 1
      BY <2>2
    <3> QED BY <1>2, <2>2, <2>5, <3>1, <3>2, RowStep
  <2>13. ASSUME NEW u \in Meant, i <= u.from, u.from < l + 1 PROVE u = t
    <3>1. u.from \in Nat
      BY <1>2, PlacesInLine
    <3>2. u.from = i \/ (Doubled /\ u.from = i + 1)
      BY <2>2, <2>7, <2>13, <3>1
    <3>3. CASE u.from = i
      BY <2>3, <3>3, MeantFrom DEF t
    <3>4. CASE Doubled /\ u.from = i + 1
      <4>1. Row[i + 1] % 2 # 0
        BY <2>12, <3>4
      <4>2. i + 1 \notin OperatorPlaces
        BY <2>5, <3>4, <4>1, OperatorsApart
      <4> QED BY <2>5, <3>4, <4>2, MeantFrom
    <3> QED BY <3>2, <3>3, <3>4
  <2>14. Collected'
    <3>1. i' \in Nat /\ i <= i' /\ i <= t.from /\ t.from <= t.to /\ t.from < i' /\ t.to < i'
      BY <2>1, <2>2, <2>10, <2>11
    <3>2. tokens' = Append(tokens, t)
      BY <2>1, <2>8
    <3>3. \A u \in Meant : i <= u.from /\ u.from < i' => u = t
      BY <2>1, <2>13
    <3> QED BY <1>1, <1>3, <2>2, <2>9, <3>1, <3>2, <3>3, OneCollected
  <2>15. OpenBehind[l] = "none" /\ l \notin WordPlaces
    BY <2>3, <2>5, <2>7
  <2>16. ASSUME l + 1 <= n, line[l + 1] \in Angles PROVE Row[l + 1] % 2 = 0
    <3>1. l + 1 \in 1..n /\ l + 1 > 1
      BY <2>11, <2>16
    <3>2. CASE ~Same(l)
      BY <1>2, <2>11, <3>1, <3>2, RowIsEven
    <3>3. CASE Same(l)
      <4>1. line[l] \in Angles
        BY <2>16, <3>3 DEF Same
      <4>2. Doubled /\ l = i + 1
        BY <2>6, <2>7, <3>3, <4>1
      <4>3. Row[l + 1] = 1 + Row[l]
        BY <1>2, <2>11, <3>1, <3>3, RowStep
      <4>4. Row[l + 1] = 1 + (1 + Row[i]) /\ Row[i] % 2 = 0 /\ Row[i] \in Nat
        BY <2>12, <4>2, <4>3
      <4> QED BY ONLY <4>4
    <3> QED BY <3>2, <3>3
  <2>17. i' - 1 = l
    BY <2>1, <2>11
  <2> QED BY <1>1, <2>1, <2>14, <2>15, <2>16, <2>17 DEF TokensInv
<1>11. CASE EndOfLine \/ ReadFirst
  <2>1. /\ UNCHANGED <<i, tokens>> /\ pc \in {"top", "operator", "list"}
        /\ pc' \in {"list", "null", "accepted"}
    BY <1>11 DEF EndOfLine, ReadFirst
  <2>2. Collected'
    BY <1>1, <2>1, ReadOffLine DEF TokensInv, Collected
  <2> QED BY <1>1, <2>1, <2>2 DEF TokensInv
<1>12. CASE Ended \/ UNCHANGED vars
  <2>1. UNCHANGED <<pc, i, end, tokens>>
    BY <1>12 DEF Ended, vars
  <2>2. pc \notin {"check", "refused"} => Collected'
    BY <1>1, <2>1, ReadOffLine DEF TokensInv, Collected
  <2> QED BY <1>1, <2>1, <2>2 DEF TokensInv
<1> QED BY <1>4, <1>5, <1>6, <1>7, <1>8, <1>9, <1>10, <1>11, <1>12 DEF Next

-----------------------------------------------------------------------------
(* What runs after the tokenizer leaves its variables alone.               *)
LEMMA LineTakesTokenizerSteps == [LineNext]_lineVars => [Next]_vars
<1> SUFFICES ASSUME [LineNext]_lineVars PROVE [Next]_vars
  OBVIOUS
<1>1. CASE Tokenize
  BY <1>1 DEF Tokenize
<1>2. CASE HandOver
  BY <1>2 DEF HandOver, vars
<1>3. CASE Run
  BY <1>3 DEF Run
<1>4. CASE LineEnded \/ UNCHANGED lineVars
  BY <1>4 DEF LineEnded, lineVars, vars
<1> QED BY <1>1, <1>2, <1>3, <1>4 DEF LineNext

LEMMA TokenizerInvariance == LineSpec => [](LexInv /\ TokensInv)
<1>1. LineInit => LexInv /\ TokensInv
  BY LexInitially, TokensInitially DEF LineInit
<1>2. LexInv /\ TokensInv /\ [LineNext]_lineVars => (LexInv /\ TokensInv)'
  BY LineTakesTokenizerSteps, LexStep, TokensStep
<1> QED BY <1>1, <1>2, PTL DEF LineSpec

(* input_error accepts exactly what alloc_quote can scan, for lines of any *)
(* length: no scan for the end of a quote leaves the line, and only a line *)
(* of blanks reaches check_parsing_errors without a token.                 *)
THEOREM QuotesHaveEnds == LineSpec => []ScansStayInside
<1>1. LexInv => ScansStayInside
  <2> SUFFICES ASSUME LexInv PROVE ScansStayInside
    OBVIOUS
  <2>1. pc # "overrun" /\ i <= Len(line) + 1 /\ end <= Len(line) + 1
    BY DEF LexInv, LexTypes, ScanInv
  <2>2. ASSUME pc = "null" PROVE line # <<>> /\ ToSet(line) \subseteq Blanks
    <3>1. line # <<>> /\ i = Len(line) + 1 /\ \A k \in 1..i - 1 : line[k] \in Blanks
      BY <2>2 DEF LexInv, ScanInv
    <3>2. i - 1 = Len(line) /\ DOMAIN line = 1..Len(line)
      BY <3>1 DEF LexInv, LexTypes
    <3> QED BY <3>1, <3>2 DEF ToSet
  <2> QED BY <2>1, <2>2 DEF ScansStayInside
<1> QED BY <1>1, TokenizerInvariance, PTL

(* At the end of the line all its tokens have been cut. *)
LEMMA AllCollected ==
  ASSUME LexInv, TokensInv, pc \in {"list", "accepted"}
  PROVE  /\ ToSet(tokens) = Meant
         /\ \A k \in 1 .. Len(tokens) - 1 : tokens[k].to < tokens[k + 1].from
<1>1. i = Len(line) + 1 /\ LineInSymbols /\ Collected
  BY DEF LexInv, LexTypes, ScanInv, TokensInv, LineInSymbols
<1>2. \A t \in Meant : t.from < i
  BY <1>1, PlacesInLine DEF LineInSymbols
<1> QED BY <1>1, <1>2 DEF Collected

(* The tokens of an accepted line are those that its quotes, blanks and    *)
(* operators mean, in their order, for lines of any length.                *)
THEOREM TokenizedAsMeant == LineSpec => []TokensAsMeant
<1>1. LexInv /\ TokensInv => TokensAsMeant
  BY AllCollected DEF TokensAsMeant
<1> QED BY <1>1, TokenizerInvariance, PTL

-----------------------------------------------------------------------------
(* The split. *)

LEMMA DownTo ==
  ASSUME NEW L \in Nat, NEW S, \A k \in 1..L : (\A l \in k + 1..L : l \in S) => k \in S
  PROVE  \A k \in 1..L : k \in S
<1> DEFINE T == {d \in 0..L : \A l \in L - d + 1..L : l \in S}
<1>1. 0 \in T
  OBVIOUS
<1>2. ASSUME NEW d \in 0..L - 1, d \in T PROVE d + 1 \in T
  <2>1. L - d \in 1..L /\ \A l \in (L - d) + 1..L : l \in S
    BY <1>2
  <2>2. L - d \in S
    BY <2>1
  <2>3. \A l \in L - (d + 1) + 1..L : l = L - d \/ l \in L - d + 1..L
    OBVIOUS
  <2> QED BY <1>2, <2>2, <2>3
<1>3. L \in T
  <2> HIDE DEF T
  <2> QED BY <1>1, <1>2, Upward
<1> QED BY <1>3

IsPipe(s, m) == s[m].kind = "pipe"

LEMMA PipeFromIs ==
  ASSUME NEW s, Len(s) \in Nat, NEW k \in 1..Len(s) + 1
  PROVE  /\ Rest!PipeFrom(s, k) \in k..Len(s) + 1
         /\ \A m \in k..Rest!PipeFrom(s, k) - 1 : ~IsPipe(s, m)
         /\ Rest!PipeFrom(s, k) <= Len(s) => IsPipe(s, Rest!PipeFrom(s, k))
<1> DEFINE S == {m \in k..Len(s) : s[m].kind = "pipe"} \cup {Len(s) + 1}
           p == Min(S)
<1>1. Rest!PipeFrom(s, k) = p
  BY DEF Rest!PipeFrom, Rest!Min, Min
<1>2. S \in SUBSET Nat /\ S # {}
  OBVIOUS
<1>3. p \in S /\ \A m \in S : p <= m
  <2> HIDE DEF S
  <2> QED BY <1>2, MinIsLeast
<1> HIDE DEF p
<1>4. p \in k..Len(s) + 1 /\ (p <= Len(s) => IsPipe(s, p))
  BY <1>3 DEF IsPipe
<1>5. \A m \in k..p - 1 : ~IsPipe(s, m)
  <2> SUFFICES ASSUME NEW m \in k..p - 1, IsPipe(s, m) PROVE FALSE
    OBVIOUS
  <2>1. m \in k..Len(s)
    BY <1>4
  <2>2. m \in S
    BY <2>1 DEF IsPipe
  <2> QED BY <1>3, <1>4, <2>2
<1> QED BY <1>1, <1>4, <1>5

Count(s) ==
  LET count[k \in 1 .. Len(s) + 2] ==
        IF k > Len(s) THEN 0 ELSE 1 + count[Rest!PipeFrom(s, k) + 1]
  IN count

LEMMA CountStep ==
  ASSUME NEW s, Len(s) \in Nat
  PROVE  /\ Rest!CountSegments(s) = Count(s)[1]
         /\ \A k \in 1..Len(s) + 2 :
              Count(s)[k] = IF k > Len(s) THEN 0 ELSE 1 + Count(s)[Rest!PipeFrom(s, k) + 1]
<1> DEFINE n == Len(s)
           next(k) == Rest!PipeFrom(s, k) + 1
           body(f, k) == IF k > n THEN 0 ELSE 1 + f[next(k)]
           step == [k \in 1..n + 2 |-> [f \in [k + 1..n + 2 -> Nat] |-> body(f, k)]]
<1>1. ASSUME NEW k \in 1..n + 2, ~(k > n) PROVE next(k) \in k + 1..n + 2
  <2>1. k \in 1..n + 1
    BY <1>1
  <2>2. Rest!PipeFrom(s, k) \in k..n + 1
    BY <2>1, PipeFromIs
  <2> QED BY <1>1, <2>2
<1> HIDE DEF next
<1>2. ASSUME NEW k \in 1..n + 2, NEW f \in [k + 1..n + 2 -> Nat] PROVE body(f, k) \in Nat
  BY <1>1
<1>3. DownwardSteps(step, 1, n + 2, Nat)
  BY <1>2 DEF DownwardSteps
<1>4. PICK f : Downward(f, 1, n + 2, Nat, step)
  <2>1. 1 \in Int /\ n + 2 \in Int /\ 1 <= n + 2
    OBVIOUS
  <2> HIDE DEF step, n
  <2> QED BY <1>3, <2>1, DownwardExists
<1>5. ASSUME NEW k \in 1..n + 2 PROVE f[k] = body(f, k)
  <2> DEFINE h == [l \in k + 1..n + 2 |-> f[l]]
  <2>1. h \in [k + 1..n + 2 -> Nat] /\ \A l \in k + 1..n + 2 : h[l] = f[l]
    BY <1>4 DEF Downward
  <2>2. f[k] = step[k][h]
    <3> HIDE DEF step
    <3> QED BY <1>4 DEF Downward
  <2> HIDE DEF h
  <2>3. step[k][h] = body(h, k)
    BY <2>1
  <2>4. body(h, k) = body(f, k)
    BY <1>1, <2>1
  <2> QED BY <2>2, <2>3, <2>4
<1>6. f = [k \in 1..n + 2 |-> body(f, k)]
  <2>1. f = [k \in 1..n + 2 |-> f[k]]
    BY <1>4 DEF Downward
  <2> HIDE DEF body
  <2> QED BY <1>5, <2>1
<1>7. Count(s) = [k \in 1..n + 2 |-> body(Count(s), k)]
  BY <1>6, Zenon DEF Count, next
<1>8. \A k \in 1..n + 2 : Count(s)[k] = body(Count(s), k)
  <2> DEFINE g == Count(s)
  <2>1. g = [k \in 1..n + 2 |-> body(g, k)]
    BY <1>7
  <2> HIDE DEF g, body
  <2>2. \A k \in 1..n + 2 : g[k] = body(g, k)
    BY <2>1
  <2> QED BY <2>2 DEF g
<1>9. Rest!CountSegments(s) = Count(s)[1]
  BY DEF Rest!CountSegments, Count
<1> QED BY <1>8, <1>9 DEF next

Collect(s) ==
  LET collect[k \in 1 .. Len(s) + 2] ==
        IF k > Len(s) THEN <<>>
        ELSE <<Rest!Segment(s, k)>> \o collect[Rest!PipeFrom(s, k) + 1]
  IN collect

LEMMA SegmentTypes ==
  ASSUME NEW s, Len(s) \in Nat, NEW k \in 1..Len(s) + 1
  PROVE  Rest!Segment(s, k) \in [start : Nat, end : Nat]
<1>1. Rest!PipeFrom(s, k) \in k..Len(s) + 1
  BY PipeFromIs
<1> QED BY <1>1 DEF Rest!Segment, Rest!Null

LEMMA CollectStep ==
  ASSUME NEW s, Len(s) \in Nat
  PROVE  /\ Rest!CollectSegments(s) = Collect(s)[1]
         /\ \A k \in 1..Len(s) + 2 :
              Collect(s)[k] = IF k > Len(s) THEN <<>>
                               ELSE <<Rest!Segment(s, k)>> \o Collect(s)[Rest!PipeFrom(s, k) + 1]
<1> DEFINE n == Len(s)
           next(k) == Rest!PipeFrom(s, k) + 1
           segment(k) == Rest!Segment(s, k)
           body(f, k) == IF k > n THEN <<>> ELSE <<segment(k)>> \o f[next(k)]
           A == Seq([start : Nat, end : Nat])
           step == [k \in 1..n + 2 |-> [f \in [k + 1..n + 2 -> A] |-> body(f, k)]]
<1>1. ASSUME NEW k \in 1..n + 2, ~(k > n) PROVE next(k) \in k + 1..n + 2
  <2>1. k \in 1..n + 1
    BY <1>1
  <2>2. Rest!PipeFrom(s, k) \in k..n + 1
    BY <2>1, PipeFromIs
  <2> QED BY <1>1, <2>2
<1> HIDE DEF next
<1>2. ASSUME NEW k \in 1..n + 2, NEW f \in [k + 1..n + 2 -> A] PROVE body(f, k) \in A
  <2>1. CASE k > n
    BY <2>1
  <2>2. CASE ~(k > n)
    <3>1. next(k) \in k + 1..n + 2
      BY <1>1, <2>2
    <3>2. f[next(k)] \in A
      BY <1>2, <3>1
    <3>3. k \in 1..n + 1
      BY <2>2
    <3>4. segment(k) \in [start : Nat, end : Nat]
      BY <3>3, SegmentTypes
    <3> HIDE DEF segment
    <3>5. <<segment(k)>> \in A
      BY <3>4
    <3> QED BY <2>2, <3>2, <3>5
  <2> QED BY <2>1, <2>2
<1> HIDE DEF segment, A
<1>3. DownwardSteps(step, 1, n + 2, A)
  <2> HIDE DEF body
  <2> QED BY <1>2 DEF DownwardSteps
<1>4. PICK f : Downward(f, 1, n + 2, A, step)
  <2>1. 1 \in Int /\ n + 2 \in Int /\ 1 <= n + 2
    OBVIOUS
  <2> HIDE DEF step, n
  <2> QED BY <1>3, <2>1, DownwardExists
<1>5. ASSUME NEW k \in 1..n + 2 PROVE f[k] = body(f, k)
  <2> DEFINE h == [l \in k + 1..n + 2 |-> f[l]]
  <2>1. h \in [k + 1..n + 2 -> A] /\ \A l \in k + 1..n + 2 : h[l] = f[l]
    BY <1>4 DEF Downward
  <2>2. f[k] = step[k][h]
    <3> HIDE DEF step
    <3> QED BY <1>4 DEF Downward
  <2> HIDE DEF h
  <2>3. step[k][h] = body(h, k)
    <3> HIDE DEF body
    <3> QED BY <2>1
  <2>4. body(h, k) = body(f, k)
    BY <1>1, <2>1
  <2> QED BY <2>2, <2>3, <2>4
<1>6. f = [k \in 1..n + 2 |-> body(f, k)]
  <2>1. f = [k \in 1..n + 2 |-> f[k]]
    BY <1>4 DEF Downward
  <2> HIDE DEF body
  <2> QED BY <1>5, <2>1
<1>7. Collect(s) = [k \in 1..n + 2 |-> body(Collect(s), k)]
  BY <1>6, Zenon DEF Collect, next, segment
<1>8. \A k \in 1..n + 2 : Collect(s)[k] = body(Collect(s), k)
  <2> DEFINE g == Collect(s)
  <2>1. g = [k \in 1..n + 2 |-> body(g, k)]
    BY <1>7
  <2> HIDE DEF g, body
  <2>2. \A k \in 1..n + 2 : g[k] = body(g, k)
    BY <2>1
  <2> QED BY <2>2 DEF g
<1>9. Rest!CollectSegments(s) = Collect(s)[1]
  BY DEF Rest!CollectSegments, Collect
<1> QED BY <1>8, <1>9 DEF next, segment

(* How many pipes there are in front of a position. *)
PipesBefore(s, p) == Cardinality({m \in 1..p - 1 : IsPipe(s, m)})

LEMMA PipesBeforeGrows ==
  ASSUME NEW s, NEW p \in Nat, NEW q \in Nat, p <= q
  PROVE  /\ PipesBefore(s, p) \in Nat /\ PipesBefore(s, q) \in Nat
         /\ PipesBefore(s, p) <= PipesBefore(s, q)
         /\ (\A m \in p..q - 1 : ~IsPipe(s, m)) => PipesBefore(s, p) = PipesBefore(s, q)
<1> DEFINE P == {m \in 1..p - 1 : IsPipe(s, m)}
           Q == {m \in 1..q - 1 : IsPipe(s, m)}
<1>1. IsFiniteSet(1..q - 1)
  BY FS_Interval
<1>2. P \subseteq Q /\ Q \subseteq 1..q - 1
  OBVIOUS
<1>3. (\A m \in p..q - 1 : ~IsPipe(s, m)) => P = Q
  OBVIOUS
<1>4. PipesBefore(s, p) = Cardinality(P) /\ PipesBefore(s, q) = Cardinality(Q)
  BY DEF PipesBefore
<1> HIDE DEF P, Q
<1>5. IsFiniteSet(Q)
  BY <1>1, <1>2, FS_Subset
<1>6. Cardinality(Q) \in Nat /\ Cardinality(P) \in Nat /\ Cardinality(P) <= Cardinality(Q)
  BY <1>2, <1>5, FS_Subset, FS_CardinalityType
<1> QED BY <1>3, <1>4, <1>6

LEMMA PipesBeforeNext ==
  ASSUME NEW s, NEW p \in Nat \ {0}, IsPipe(s, p)
  PROVE  PipesBefore(s, p + 1) = PipesBefore(s, p) + 1
<1> DEFINE P == {m \in 1..p - 1 : IsPipe(s, m)}
<1>1. {m \in 1..(p + 1) - 1 : IsPipe(s, m)} = P \cup {p}
  OBVIOUS
<1>2. p \notin P
  OBVIOUS
<1>3. IsFiniteSet(P)
  <2>1. IsFiniteSet(1..p - 1)
    BY FS_Interval
  <2>2. P \subseteq 1..p - 1
    OBVIOUS
  <2> HIDE DEF P
  <2> QED BY <2>1, <2>2, FS_Subset
<1>4. PipesBefore(s, p + 1) = Cardinality(P \cup {p}) /\ PipesBefore(s, p) = Cardinality(P)
  BY <1>1 DEF PipesBefore
<1> HIDE DEF P
<1> QED BY <1>2, <1>3, <1>4, FS_AddElement

LEMMA PipesBeforeFirst == \A s : PipesBefore(s, 1) = 0
<1> SUFFICES ASSUME NEW s PROVE PipesBefore(s, 1) = 0
  OBVIOUS
<1>1. {m \in 1..1 - 1 : IsPipe(s, m)} = {}
  OBVIOUS
<1> QED BY <1>1, FS_EmptySet DEF PipesBefore

(* What the rounds of collect_segments from position k on give. *)
SegmentsFrom(s, k) ==
  LET c == Collect(s)[k]
      n == Len(s)
  IN /\ c \in Seq([start : Nat, end : Nat]) /\ Len(c) = Count(s)[k]
     /\ k <= n => Len(c) >= 1 /\ c[1].start = k
     /\ \A j \in 1..Len(c) :
          /\ c[j].start \in k..n /\ c[j] = Rest!Segment(s, c[j].start)
          /\ c[j].start = k \/ IsPipe(s, c[j].start - 1)
          /\ PipesBefore(s, c[j].start) = PipesBefore(s, k) + j - 1
     /\ k <= n /\ ~IsPipe(s, n) => Len(c) = 1 + PipesBefore(s, n + 1) - PipesBefore(s, k)

LEMMA SegmentsFromEach ==
  ASSUME NEW s, Len(s) \in Nat
  PROVE  \A k \in 1..Len(s) + 2 : SegmentsFrom(s, k)
<1> DEFINE n == Len(s)
           Seg == [start : Nat, end : Nat]
           S == {k \in 1..n + 2 : SegmentsFrom(s, k)}
<1>1. ASSUME NEW k \in 1..n + 2, \A l \in k + 1..n + 2 : l \in S PROVE k \in S
  <2> DEFINE c == Collect(s)[k]
  <2>1. CASE k > n
    <3>1. c = <<>> /\ Count(s)[k] = 0
      BY <2>1, CollectStep, CountStep
    <3>2. c \in Seq([start : Nat, end : Nat]) /\ Len(c) = 0
      BY <3>1
    <3>3. ~(k <= n) /\ \A j : j \notin 1..Len(c)
      BY <2>1, <3>2
    <3> HIDE DEF n
    <3>4. SegmentsFrom(s, k)
      BY <3>1, <3>2, <3>3 DEF SegmentsFrom, n
    <3> QED BY <3>4
  <2>2. CASE ~(k > n)
    <3> DEFINE p == Rest!PipeFrom(s, k)
               d == Collect(s)[p + 1]
               x == Rest!Segment(s, k)
    <3>1. k \in 1..n + 1 /\ k \in 1..n
      BY <2>2
    <3>2. /\ p \in k..n + 1 /\ (p <= n => IsPipe(s, p))
          /\ \A m \in k..p - 1 : ~IsPipe(s, m)
      BY <3>1, PipeFromIs
    <3>3. c = <<x>> \o d /\ Count(s)[k] = 1 + Count(s)[p + 1]
      BY <2>2, CollectStep, CountStep
    <3>4. x \in Seg /\ x.start = k
      BY <3>1, SegmentTypes DEF Rest!Segment
    <3>x. x = Rest!Segment(s, k)
      OBVIOUS
    <3> HIDE DEF p, x, c
    <3>5. p + 1 \in k + 1..n + 2
      BY <3>2
    <3>6. SegmentsFrom(s, p + 1)
      BY <1>1, <3>5
    <3>7. d \in Seq(Seg) /\ Len(d) = Count(s)[p + 1] /\ Len(d) \in Nat
      BY <3>6 DEF SegmentsFrom
    <3> HIDE DEF d
    <3>8. /\ c \in Seq(Seg) /\ Len(c) = Len(d) + 1 /\ c[1] = x
          /\ \A j \in 2..Len(c) : c[j] = d[j - 1]
      <4> HIDE DEF Seg
      <4> QED BY <3>3, <3>4, <3>7
    <3>9. PipesBefore(s, k) \in Nat /\ PipesBefore(s, p) = PipesBefore(s, k)
      BY <3>1, <3>2, PipesBeforeGrows
    <3>10. p <= n => PipesBefore(s, p + 1) = PipesBefore(s, k) + 1
      <4>1. p \in Nat \ {0}
        BY <3>1, <3>2
      <4> QED BY <3>2, <3>9, <4>1, PipesBeforeNext
    <3>11. ASSUME NEW j \in 1..Len(c)
           PROVE  /\ c[j].start \in k..n /\ c[j] = Rest!Segment(s, c[j].start)
                  /\ c[j].start = k \/ IsPipe(s, c[j].start - 1)
                  /\ PipesBefore(s, c[j].start) = PipesBefore(s, k) + j - 1
      <4>1. CASE j = 1
        <5>1. c[j] = x /\ x = Rest!Segment(s, k) /\ x.start = k
          BY <3>4, <3>8, <3>x, <4>1
        <5> QED BY <3>1, <3>9, <4>1, <5>1
      <4>2. CASE j # 1
        <5>1. j \in 2..Len(c) /\ j - 1 \in 1..Len(d) /\ Len(d) >= 1
          <6>1. Len(c) \in Nat /\ Len(c) = Len(d) + 1
            BY <3>7, <3>8
          <6> QED BY ONLY <3>7, <6>1, <4>2, j \in 1..Len(c)
        <5>2. /\ d[j - 1].start \in p + 1..n /\ d[j - 1] = Rest!Segment(s, d[j - 1].start)
              /\ d[j - 1].start = p + 1 \/ IsPipe(s, d[j - 1].start - 1)
              /\ PipesBefore(s, d[j - 1].start) = PipesBefore(s, p + 1) + (j - 1) - 1
          BY <3>6, <5>1 DEF SegmentsFrom, d
        <5>3. p <= n /\ c[j] = d[j - 1] /\ (p + 1) - 1 = p
          <6>1. p <= n /\ (p + 1) - 1 = p
            BY <3>2, <5>2
          <6>2. c[j] = d[j - 1]
            BY <3>8, <5>1
          <6> QED BY <6>1, <6>2
        <5>4. c[j].start \in k..n
          BY <3>2, <5>2, <5>3
        <5>5. IsPipe(s, c[j].start - 1)
          BY <3>2, <5>2, <5>3
        <5>6. PipesBefore(s, c[j].start) = PipesBefore(s, k) + j - 1
          BY <3>9, <3>10, <5>2, <5>3
        <5> QED BY <5>2, <5>3, <5>4, <5>5, <5>6
      <4> QED BY <4>1, <4>2
    <3>12. ASSUME ~IsPipe(s, n)
           PROVE  Len(c) = 1 + PipesBefore(s, n + 1) - PipesBefore(s, k)
      <4>1. CASE p = n + 1
        <5>1. PipesBefore(s, n + 1) = PipesBefore(s, k)
          BY <3>9, <4>1
        <5>2. Count(s)[p + 1] = 0
          <6>1. p + 1 \in 1..n + 2 /\ p + 1 > n
            BY <4>1
          <6> QED BY <6>1, CountStep
        <5> QED BY <3>7, <3>8, <3>9, <5>1, <5>2
      <4>2. CASE p # n + 1
        <5>1. p <= n /\ p # n
          BY <3>2, <3>12, <4>2
        <5>2. p + 1 <= n
          BY <3>2, <5>1
        <5>3. Len(d) = 1 + PipesBefore(s, n + 1) - PipesBefore(s, p + 1)
          BY <3>6, <3>12, <5>2 DEF SegmentsFrom, d
        <5>4. PipesBefore(s, n + 1) \in Nat
          <6>1. n + 1 \in Nat /\ n + 1 <= n + 1
            OBVIOUS
          <6> QED BY <6>1, PipesBeforeGrows
        <5> QED BY <3>8, <3>9, <3>10, <5>1, <5>3, <5>4
      <4> QED BY <4>1, <4>2
    <3>13. Len(c) = Count(s)[k] /\ Len(c) >= 1 /\ c[1].start = k
      BY <3>3, <3>4, <3>7, <3>8
    <3> HIDE DEF d, Seg
    <3>14. SegmentsFrom(s, k)
      <4> USE DEF c, Seg
      <4> QED BY <3>8, <3>11, <3>12, <3>13 DEF SegmentsFrom
    <3> QED BY <3>14
  <2> QED BY <2>1, <2>2
<1>2. \A k \in 1..n + 2 : k \in S
  <2>1. n + 2 \in Nat
    OBVIOUS
  <2> HIDE DEF S, n
  <2> QED BY <1>1, <2>1, DownTo
<1> QED BY <1>2

(* A segment reaches from one pipe to the next. *)
SegmentIs(s, g) ==
  /\ g.start \in 1..Len(s) + 1 /\ g.end \in 0..Len(s)
  /\ g.start = 1 \/ IsPipe(s, g.start - 1)
  /\ g.end = Rest!Null => Len(s) = 0 \/ IsPipe(s, g.start)
  /\ g.end # Rest!Null =>
       /\ g.start <= g.end
       /\ g.end = Len(s) \/ IsPipe(s, g.end + 1)
       /\ \A m \in g.start..g.end : ~IsPipe(s, m)

LEMMA SegmentReaches ==
  ASSUME NEW s, Len(s) \in Nat, NEW k \in 1..Len(s), k = 1 \/ IsPipe(s, k - 1)
  PROVE  SegmentIs(s, Rest!Segment(s, k))
<1> DEFINE p == Rest!PipeFrom(s, k)
           g == Rest!Segment(s, k)
<1>1. k \in 1..Len(s) + 1
  OBVIOUS
<1>2. /\ p \in k..Len(s) + 1 /\ (p <= Len(s) => IsPipe(s, p))
      /\ \A m \in k..p - 1 : ~IsPipe(s, m)
  BY <1>1, PipeFromIs
<1>3. g.start = k /\ g.end = IF p = k THEN 0 ELSE p - 1
  BY DEF Rest!Segment, Rest!Null
<1>4. Rest!Null = 0
  BY DEF Rest!Null
<1> HIDE DEF p, g
<1>5. CASE p = k
  BY <1>1, <1>2, <1>3, <1>4, <1>5 DEF SegmentIs, g
<1>6. CASE p # k
  <2>1. p - 1 \in k..Len(s) /\ (p - 1) + 1 = p /\ p - 1 # 0
    BY <1>2, <1>6
  <2>2. g.end = p - 1 /\ g.start = k
    BY <1>3, <1>6
  <2>3. p - 1 = Len(s) \/ IsPipe(s, p)
    BY <1>2, <2>1
  <2>4. SegmentIs(s, g)
    BY <1>1, <1>2, <1>4, <2>1, <2>2, <2>3 DEF SegmentIs
  <2> QED BY <2>4 DEF g
<1> QED BY <1>5, <1>6

(* What the split of a list gives. *)
SplitIs(s, many, g) ==
  /\ g \in Seq([start : Nat, end : Nat]) /\ many = Len(g)
  /\ \A j \in 1..Len(g) : SegmentIs(s, g[j]) /\ PipesBefore(s, g[j].start) = j - 1
  /\ Len(s) >= 1 /\ ~IsPipe(s, Len(s)) => many = 1 + PipesBefore(s, Len(s) + 1)

LEMMA SplitGives ==
  ASSUME NEW s, Len(s) \in Nat, DOMAIN s = 1..Len(s)
  PROVE  IF Rest!HasPipe(s)
           THEN SplitIs(s, Rest!CountSegments(s), Rest!CollectSegments(s))
           ELSE SplitIs(s, 1, <<[start |-> 1, end |-> Len(s)]>>)
<1> DEFINE n == Len(s)
<1>1. CASE Rest!HasPipe(s)
  <2> DEFINE c == Rest!CollectSegments(s)
  <2>1. n >= 1 /\ 1 <= n /\ 1 \in 1..n + 2
    BY <1>1 DEF Rest!HasPipe
  <2>2. c = Collect(s)[1] /\ Rest!CountSegments(s) = Count(s)[1]
    BY CollectStep, CountStep
  <2>3. SegmentsFrom(s, 1)
    BY <2>1, SegmentsFromEach
  <2> HIDE DEF c
  <2>4. /\ c \in Seq([start : Nat, end : Nat]) /\ Len(c) = Rest!CountSegments(s)
        /\ \A j \in 1..Len(c) :
             /\ c[j].start \in 1..n /\ c[j] = Rest!Segment(s, c[j].start)
             /\ c[j].start = 1 \/ IsPipe(s, c[j].start - 1)
             /\ PipesBefore(s, c[j].start) = PipesBefore(s, 1) + j - 1
        /\ ~IsPipe(s, n) => Len(c) = 1 + PipesBefore(s, n + 1) - PipesBefore(s, 1)
    BY <2>1, <2>2, <2>3 DEF SegmentsFrom
  <2>5. \A j \in 1..Len(c) : SegmentIs(s, c[j])
    BY <2>4, SegmentReaches
  <2>6. PipesBefore(s, 1) = 0
    BY PipesBeforeFirst
  <2>7. PipesBefore(s, n + 1) \in Nat
    <3>1. n + 1 \in Nat /\ n + 1 <= n + 1
      OBVIOUS
    <3> QED BY <3>1, PipesBeforeGrows
  <2>8. SplitIs(s, Rest!CountSegments(s), c)
    <3>1. \A j \in 1..Len(c) : PipesBefore(s, c[j].start) = j - 1
      BY <2>4, <2>6
    <3>2. ~IsPipe(s, n) => Len(c) = 1 + PipesBefore(s, n + 1)
      BY <2>4, <2>6, <2>7
    <3> QED BY <2>4, <2>5, <3>1, <3>2 DEF SplitIs
  <2> QED BY <1>1, <2>8 DEF c
<1>2. CASE ~Rest!HasPipe(s)
  <2> DEFINE x == [start |-> 1, end |-> n]
             c == <<x>>
  <2>1. \A m \in 1..n : ~IsPipe(s, m)
    BY <1>2 DEF Rest!HasPipe, IsPipe
  <2>2. x \in [start : Nat, end : Nat] /\ x.start = 1 /\ x.end = n
    OBVIOUS
  <2>3. Rest!Null = 0
    BY DEF Rest!Null
  <2> HIDE DEF x
  <2>4. SegmentIs(s, x)
    BY <2>1, <2>2, <2>3 DEF SegmentIs
  <2>5. c \in Seq([start : Nat, end : Nat]) /\ Len(c) = 1 /\ c[1] = x
    BY <2>2
  <2>6. PipesBefore(s, 1) = 0
    BY PipesBeforeFirst
  <2>7. PipesBefore(s, n + 1) = 0
    <3>1. \A m \in 1..(n + 1) - 1 : ~IsPipe(s, m)
      BY <2>1
    <3>2. 1 \in Nat /\ n + 1 \in Nat /\ 1 <= n + 1
      OBVIOUS
    <3> QED BY <2>6, <3>1, <3>2, PipesBeforeGrows
  <2> HIDE DEF c
  <2>8. SplitIs(s, 1, c)
    <3>1. \A j \in 1..Len(c) : j = 1
      BY <2>5
    <3>2. 1 - 1 = 0 /\ 1 = 1 + 0
      OBVIOUS
    <3> QED BY <2>2, <2>4, <2>5, <2>6, <2>7, <3>1, <3>2 DEF SplitIs
  <2> QED BY <1>2, <2>8 DEF c, x
<1> QED BY <1>1, <1>2

-----------------------------------------------------------------------------
(* The words of a child. *)

IsRedir(k) == toks[k].kind \in Rest!RedirOps
IsWord(k)  == toks[k].kind \in Rest!Words
IsSplit(k) == toks[k].kind = "split"

(* tokens_to_args for the segment j. *)
Fill(j) ==
  LET fill[k \in segs[j].start .. Rest!LastOf(j) + 2] ==
        IF k > Rest!LastOf(j) THEN <<>>
        ELSE IF toks[k].kind \in Rest!RedirOps
          THEN IF k < Rest!LastOf(j) /\ toks[k + 1].kind = "split" THEN fill[k + 1]
                                                                  ELSE fill[k + 2]
        ELSE IF toks[k].kind \in Rest!Words THEN <<k>> \o fill[k + 1]
        ELSE fill[k + 1]
  IN fill

LEMMA FillStep ==
  ASSUME NEW j, NEW a \in Nat, NEW b \in Nat, segs[j].start = a, Rest!LastOf(j) = b, a <= b + 1
  PROVE  /\ Rest!Args(j) = Fill(j)[a]
         /\ \A k \in a..b + 2 :
              /\ Fill(j)[k] \in Seq(Nat)
              /\ Fill(j)[k] = IF k > b THEN <<>>
                              ELSE IF IsRedir(k)
                                THEN IF k < b /\ IsSplit(k + 1) THEN Fill(j)[k + 1]
                                                                ELSE Fill(j)[k + 2]
                              ELSE IF IsWord(k) THEN <<k>> \o Fill(j)[k + 1]
                              ELSE Fill(j)[k + 1]
<1> DEFINE A == Seq(Nat)
           body(f, k) == IF k > b THEN <<>>
                         ELSE IF IsRedir(k)
                           THEN IF k < b /\ IsSplit(k + 1) THEN f[k + 1] ELSE f[k + 2]
                         ELSE IF IsWord(k) THEN <<k>> \o f[k + 1]
                         ELSE f[k + 1]
           step == [k \in a..b + 2 |-> [f \in [k + 1..b + 2 -> A] |-> body(f, k)]]
<1>1. ASSUME NEW k \in a..b + 2, ~(k > b)
      PROVE  k \in Nat /\ k + 1 \in k + 1..b + 2 /\ k + 2 \in k + 1..b + 2
  BY <1>1
<1>2. ASSUME NEW k \in a..b + 2, NEW f \in [k + 1..b + 2 -> A] PROVE body(f, k) \in A
  <2>1. CASE k > b
    BY <2>1
  <2>2. CASE ~(k > b)
    <3>1. k \in Nat /\ f[k + 1] \in A /\ f[k + 2] \in A
      BY <1>1, <2>2
    <3>2. <<k>> \o f[k + 1] \in A
      BY <3>1
    <3> HIDE DEF A
    <3> QED BY <2>2, <3>1, <3>2
  <2> QED BY <2>1, <2>2
<1> HIDE DEF A
<1>3. DownwardSteps(step, a, b + 2, A)
  <2> HIDE DEF body
  <2> QED BY <1>2 DEF DownwardSteps
<1>4. PICK f : Downward(f, a, b + 2, A, step)
  <2>1. a \in Int /\ b + 2 \in Int /\ a <= b + 2
    OBVIOUS
  <2> HIDE DEF step
  <2> QED BY <1>3, <2>1, DownwardExists
<1>5. ASSUME NEW k \in a..b + 2 PROVE f[k] = body(f, k) /\ f[k] \in A
  <2> DEFINE h == [l \in k + 1..b + 2 |-> f[l]]
  <2>1. h \in [k + 1..b + 2 -> A] /\ \A l \in k + 1..b + 2 : h[l] = f[l]
    BY <1>4 DEF Downward
  <2>2. f[k] = step[k][h] /\ f[k] \in A
    <3> HIDE DEF step
    <3> QED BY <1>4 DEF Downward
  <2> HIDE DEF h
  <2>3. step[k][h] = body(h, k)
    <3> HIDE DEF body
    <3> QED BY <2>1
  <2>4. body(h, k) = body(f, k)
    BY <1>1, <2>1
  <2> QED BY <2>2, <2>3, <2>4
<1>6. f = [k \in a..b + 2 |-> body(f, k)]
  <2>1. f = [k \in a..b + 2 |-> f[k]]
    BY <1>4 DEF Downward
  <2> HIDE DEF body
  <2> QED BY <1>5, <2>1
<1>7. Fill(j) = CHOOSE g : g = [k \in a..b + 2 |-> body(g, k)]
  BY Zenon DEF Fill, IsRedir, IsWord, IsSplit
<1>8. Fill(j) = [k \in a..b + 2 |-> body(Fill(j), k)]
  <2> HIDE DEF body
  <2> QED BY <1>6, <1>7, Zenon
<1> DEFINE g == Fill(j)
<1>9. \A k \in a..b + 2 : g[k] = body(g, k)
  <2>1. g = [k \in a..b + 2 |-> body(g, k)]
    BY <1>8
  <2> HIDE DEF g, body
  <2> QED BY <2>1
<1>10. \A k \in a..b + 2 : g[k] \in A
  <2> DEFINE S == {k \in 1..b + 3 : k - 1 >= a => g[k - 1] \in A}
  <2> HIDE DEF g
  <2>1. ASSUME NEW k \in 1..b + 3, \A l \in k + 1..b + 3 : l \in S PROVE k \in S
    <3>1. CASE k - 1 >= a /\ ~(k - 1 > b)
      <4>1. k - 1 \in a..b + 2 /\ (k - 1) + 1 = k /\ (k - 1) + 2 = k + 1
        BY <3>1
      <4>2. k + 1 \in S /\ k + 2 \in S /\ (k + 2) - 1 = k + 1 /\ (k + 1) - 1 = k
        BY <2>1, <3>1
      <4>3. g[k] \in A /\ g[k + 1] \in A /\ k - 1 \in Nat
        BY <3>1, <4>2
      <4>4. <<k - 1>> \o g[k] \in A
        BY <4>3 DEF A
      <4>5. g[k - 1] = body(g, k - 1)
        BY <1>9, <4>1
      <4>6. g[k - 1] \in A
        BY <3>1, <4>1, <4>3, <4>4, <4>5
      <4> QED BY <4>6
    <3>2. CASE k - 1 >= a /\ k - 1 > b
      <4>1. k - 1 \in a..b + 2
        BY <3>2
      <4>2. g[k - 1] = <<>>
        BY <1>9, <3>2, <4>1
      <4>3. g[k - 1] \in A
        BY <4>2 DEF A
      <4> QED BY <4>3
    <3> QED BY <3>1, <3>2
  <2>2. b + 3 \in Nat
    OBVIOUS
  <2>3. \A k \in 1..b + 3 : k \in S
    <3> HIDE DEF S
    <3> QED BY <2>1, <2>2, DownTo
  <2>4. ASSUME NEW k \in a..b + 2 PROVE g[k] \in A
    <3>1. k + 1 \in S /\ (k + 1) - 1 = k
      BY <2>3
    <3> QED BY <3>1
  <2> QED BY <2>4
<1>11. Rest!Args(j) = Fill(j)[a]
  BY Zenon DEF Rest!Args, Fill
<1> QED BY <1>9, <1>10, <1>11 DEF A

LEMMA ConsSet ==
  ASSUME NEW k \in Nat, NEW f \in Seq(Nat)
  PROVE  ToSet(<<k>> \o f) = {k} \cup ToSet(f)
<1> DEFINE g == <<k>> \o f
<1>1. /\ Len(f) \in Nat /\ Len(g) = Len(f) + 1 /\ g[1] = k /\ DOMAIN g = 1..Len(f) + 1
      /\ DOMAIN f = 1..Len(f) /\ \A l \in 1..Len(f) : g[l + 1] = f[l]
  OBVIOUS
<1> HIDE DEF g
<1>2. \A l \in 1..Len(f) + 1 : l = 1 \/ (l - 1 \in 1..Len(f) /\ (l - 1) + 1 = l)
  BY <1>1
<1>3. \A l \in 1..Len(f) : l + 1 \in 1..Len(f) + 1
  BY <1>1
<1>4. 1 \in 1..Len(f) + 1
  BY <1>1
<1>5. ToSet(g) = {k} \cup ToSet(f)
  <2>1. ASSUME NEW l \in 1..Len(f) + 1 PROVE g[l] \in {k} \cup ToSet(f)
    <3>1. l # 1 => g[l] = f[l - 1] /\ l - 1 \in 1..Len(f)
      BY <1>1, <1>2
    <3> QED BY <1>1, <3>1 DEF ToSet
  <2>2. \A x \in {k} \cup ToSet(f) : x \in ToSet(g)
    BY <1>1, <1>3, <1>4 DEF ToSet
  <2>3. ToSet(g) = {g[l] : l \in 1..Len(f) + 1}
    BY <1>1 DEF ToSet
  <2> QED BY <2>1, <2>2, <2>3
<1> QED BY <1>5 DEF g

(* The words from position k on that are not operands, or of which more    *)
(* than an operand is left.                                                *)
WordsFrom(k, b) == {p \in k..b : IsWord(p) /\ (p = k \/ ~IsRedir(p - 1) \/ IsSplit(p))}

LEMMA FillIs ==
  ASSUME NEW j, NEW a \in Nat \ {0}, NEW b \in Nat, segs[j].start = a, Rest!LastOf(j) = b, a <= b + 1
  PROVE  /\ ToSet(Rest!Args(j)) \subseteq a..b
         /\ (\A k \in a..b - 1 : IsRedir(k) => IsWord(k + 1)) =>
              ToSet(Rest!Args(j)) = WordsFrom(a, b)
<1> DEFINE g == Fill(j)
           Operands == \A k \in a..b - 1 : IsRedir(k) => IsWord(k + 1)
           Is(k) == ToSet(g[k]) \subseteq k..b /\ (Operands => ToSet(g[k]) = WordsFrom(k, b))
           S == {k \in 1..b + 2 : k >= a => Is(k)}
<1>0. \A k : (IsRedir(k) => ~IsWord(k)) /\ (IsSplit(k) => IsWord(k))
  BY DEF IsRedir, IsWord, IsSplit, Rest!RedirOps, Rest!Words
<1>1. ASSUME NEW k \in 1..b + 2, \A l \in k + 1..b + 2 : l \in S PROVE k \in S
  <2> SUFFICES ASSUME k >= a PROVE Is(k)
    OBVIOUS
  <2>1. k \in a..b + 2
    OBVIOUS
  <2>2. /\ g[k] \in Seq(Nat)
        /\ g[k] = IF k > b THEN <<>>
                  ELSE IF IsRedir(k)
                    THEN IF k < b /\ IsSplit(k + 1) THEN g[k + 1] ELSE g[k + 2]
                  ELSE IF IsWord(k) THEN <<k>> \o g[k + 1]
                  ELSE g[k + 1]
    BY <2>1, FillStep
  <2>3. ~(k > b) => Is(k + 1) /\ Is(k + 2) /\ g[k + 1] \in Seq(Nat)
    <3> HAVE ~(k > b)
    <3>1. k + 1 \in S /\ k + 2 \in S /\ k + 1 >= a /\ k + 2 >= a /\ k + 1 \in a..b + 2
      BY <1>1
    <3> HIDE DEF Is, g
    <3>2. Is(k + 1) /\ Is(k + 2)
      BY <3>1
    <3> USE DEF g
    <3>3. Fill(j)[k + 1] \in Seq(Nat)
      BY <3>1, FillStep
    <3> QED BY <3>2, <3>3
  <2> HIDE DEF g
  <2>4. CASE k > b
    <3>1. g[k] = <<>> /\ k..b = {}
      BY <2>2, <2>4
    <3>2. ToSet(g[k]) = {} /\ WordsFrom(k, b) = {}
      BY <3>1 DEF ToSet, WordsFrom
    <3> QED BY <3>2
  <2>5. CASE ~(k > b) /\ IsRedir(k) /\ ~(k < b /\ IsSplit(k + 1))
    <3>1. g[k] = g[k + 2] /\ Is(k + 2)
      BY <2>2, <2>3, <2>5
    <3>2. k + 2..b \subseteq k..b
      BY <2>1
    <3>3. Operands => WordsFrom(k, b) = WordsFrom(k + 2, b)
      <4> HAVE Operands
      <4>1. k + 1 <= b => IsWord(k + 1) /\ ~IsRedir(k + 1)
        BY <1>0, <2>1, <2>5
      <4>2. ~IsWord(k) /\ IsRedir((k + 1) - 1)
        BY <1>0, <2>5
      <4>3. ASSUME NEW p \in WordsFrom(k, b) PROVE p \in WordsFrom(k + 2, b)
        <5>1. p \in k..b /\ IsWord(p) /\ (p = k \/ ~IsRedir(p - 1) \/ IsSplit(p))
          BY <4>3 DEF WordsFrom
        <5>2. p # k /\ p # k + 1
          <6>1. p = k + 1 => k < b
            BY <2>1, <5>1
          <6> QED BY <2>5, <4>2, <5>1, <6>1
        <5>3. p \in k + 2..b
          BY <5>1, <5>2
        <5> QED BY <5>1, <5>2, <5>3 DEF WordsFrom
      <4>4. ASSUME NEW p \in WordsFrom(k + 2, b) PROVE p \in WordsFrom(k, b)
        <5>1. p \in k + 2..b /\ IsWord(p) /\ (p = k + 2 \/ ~IsRedir(p - 1) \/ IsSplit(p))
          BY <4>4 DEF WordsFrom
        <5>2. p = k + 2 => ~IsRedir(p - 1)
          <6>1. p = k + 2 => p - 1 = k + 1 /\ k + 1 <= b
            BY <5>1
          <6> QED BY <4>1, <6>1
        <5> QED BY <5>1, <5>2 DEF WordsFrom
      <4> QED BY <4>3, <4>4
    <3>4. Is(k)
      BY <3>1, <3>2, <3>3
    <3> QED BY <3>4
  <2>7. CASE ~(k > b) /\ IsRedir(k) /\ k < b /\ IsSplit(k + 1)
    <3>1. g[k] = g[k + 1] /\ Is(k + 1)
      BY <2>2, <2>3, <2>7
    <3>2. k + 1..b \subseteq k..b /\ \A p \in k..b : p = k \/ p \in k + 1..b
      BY <2>1
    <3>3. ~IsWord(k)
      BY <1>0, <2>7
    <3>4. WordsFrom(k, b) = WordsFrom(k + 1, b)
      <4>1. \A p \in k + 1..b : p # k
        BY <2>1
      <4> QED BY <2>7, <3>2, <3>3, <4>1 DEF WordsFrom
    <3>5. Is(k)
      BY <3>1, <3>2, <3>4
    <3> QED BY <3>5
  <2>6. CASE ~(k > b) /\ ~IsRedir(k)
    <3>1. Is(k + 1)
      BY <2>3, <2>6
    <3>2. k \in k..b /\ k + 1..b \subseteq k..b /\ k..b = {k} \cup (k + 1..b)
      BY <2>6
    <3>3. WordsFrom(k, b) = (IF IsWord(k) THEN {k} ELSE {}) \cup WordsFrom(k + 1, b)
      <4>1. \A p \in k + 1..b : p # k /\ (p = k + 1 => ~IsRedir(p - 1))
        BY <2>6
      <4> QED BY <3>2, <4>1 DEF WordsFrom
    <3>4. ToSet(g[k]) = (IF IsWord(k) THEN {k} ELSE {}) \cup ToSet(g[k + 1])
      <4>1. ToSet(<<k>> \o g[k + 1]) = {k} \cup ToSet(g[k + 1])
        BY <2>3, <2>6, ConsSet
      <4> QED BY <2>2, <2>6, <4>1
    <3>5. Is(k)
      BY <3>1, <3>2, <3>3, <3>4
    <3> QED BY <3>5
  <2> QED BY <2>4, <2>5, <2>6, <2>7
<1>2. \A k \in 1..b + 2 : k \in S
  <2>1. b + 2 \in Nat
    OBVIOUS
  <2> HIDE DEF S
  <2> QED BY <1>1, <2>1, DownTo
<1>3. Is(a)
  <2>1. a \in S /\ a >= a
    BY <1>2
  <2> HIDE DEF Is
  <2> QED BY <2>1
<1>4. Rest!Args(j) = g[a]
  <2>1. a \in a..b + 2
    OBVIOUS
  <2> QED BY <2>1, FillStep
<1> QED BY <1>3, <1>4

-----------------------------------------------------------------------------
(* The words that stay. *)

Token == [kind : Rest!Kinds, at : Nat]

KeptUpTo(s) ==
  LET kept[k \in 0..Len(s)] ==
        IF k = 0 THEN <<>>
        ELSE IF s[k].kind = "gone" THEN kept[k - 1]
        ELSE Append(kept[k - 1], s[k])
  IN kept

LEMMA KeptStep ==
  ASSUME NEW s \in Seq(Token)
  PROVE  /\ Rest!Kept(s) = KeptUpTo(s)[Len(s)] /\ KeptUpTo(s)[0] = <<>>
         /\ \A k \in 1..Len(s) :
              KeptUpTo(s)[k] = IF s[k].kind = "gone" THEN KeptUpTo(s)[k - 1]
                               ELSE Append(KeptUpTo(s)[k - 1], s[k])
<1> DEFINE n == Len(s)
           A == Seq(Token)
           next(k, a) == IF s[k].kind = "gone" THEN a ELSE Append(a, s[k])
           step == [k \in 1..n |-> [a \in A |-> next(k, a)]]
           body(f) == [k \in 0..n |-> IF k = 0 THEN <<>> ELSE next(k, f[k - 1])]
<1>1. n \in Nat /\ \A k \in 1..n : s[k] \in Token
  <2> HIDE DEF Token
  <2> QED OBVIOUS
<1>2. ASSUME NEW k \in 1..n, NEW a \in A PROVE next(k, a) \in A
  <2> HIDE DEF Token
  <2> QED BY <1>1, <1>2
<1>3. step \in [1..n -> [A -> A]] /\ <<>> \in A
  <2> HIDE DEF next
  <2> QED BY <1>2
<1>4. PICK f : Recursion(f, n, A, <<>>, step)
  <2> HIDE DEF step, n, A
  <2> QED BY <1>1, <1>3, RecursionExists
<1>5. f = body(f)
  <2>1. \A k \in 1..n : f[k - 1] \in A
    <3> HIDE DEF A, step
    <3> QED BY <1>1, <1>4 DEF Recursion
  <2>2. \A k \in 1..n : step[k][f[k - 1]] = next(k, f[k - 1])
    <3> HIDE DEF next, A
    <3> QED BY <2>1
  <2> HIDE DEF step, next, A
  <2>3. \A k \in 0..n : f[k] = IF k = 0 THEN <<>> ELSE next(k, f[k - 1])
    BY <1>1, <1>4, <2>2 DEF Recursion
  <2>4. f = [k \in 0..n |-> f[k]]
    BY <1>4 DEF Recursion
  <2> QED BY <2>3, <2>4
<1>6. KeptUpTo(s) = body(KeptUpTo(s))
  BY <1>5, Zenon DEF KeptUpTo
<1> DEFINE g == KeptUpTo(s)
<1>7. \A k \in 0..n : g[k] = IF k = 0 THEN <<>> ELSE next(k, g[k - 1])
  <2>1. g = [k \in 0..n |-> IF k = 0 THEN <<>> ELSE next(k, g[k - 1])]
    BY <1>6
  <2> HIDE DEF g, n, next
  <2> QED BY ONLY <2>1
<1>8. \A k \in 1..n : g[k] = next(k, g[k - 1])
  <2> HIDE DEF g, next
  <2> QED BY <1>1, <1>7
<1>9. g[0] = <<>>
  <2> HIDE DEF g, next
  <2> QED BY <1>1, <1>7
<1>10. Rest!Kept(s) = KeptUpTo(s)[Len(s)]
  BY Zenon DEF Rest!Kept, KeptUpTo
<1> QED BY <1>8, <1>9, <1>10

(* What is kept of the first m tokens, each of which knows its place: those*)
(* of which something is left, in their order.                             *)
KeptOf(s, m, k) ==
  /\ k \in Seq(Token)
  /\ \A j \in 1..Len(k) : k[j].at \in 1..m /\ k[j] = s[k[j].at]
  /\ \A j \in 1..Len(k) : \A l \in 1..Len(k) : j < l => k[j].at < k[l].at
  /\ \A q \in 1..m : s[q].kind # "gone" => \E j \in 1..Len(k) : k[j] = s[q]
  /\ (\A q \in 1..m : s[q].kind # "gone") => Len(k) = m /\ \A j \in 1..m : k[j] = s[j]

LEMMA KeptIs ==
  ASSUME NEW s \in Seq(Token), \A q \in 1..Len(s) : s[q].at = q
  PROVE  KeptOf(s, Len(s), Rest!Kept(s))
<1> DEFINE n == Len(s)
           g == KeptUpTo(s)
           S == {m \in 0..n : KeptOf(s, m, g[m])}
<1>1. n \in Nat /\ \A q \in 1..n : s[q] \in Token
  <2> HIDE DEF Token
  <2> QED OBVIOUS
<1>2. 0 \in S
  <2>1. g[0] = <<>>
    BY KeptStep
  <2>2. g[0] \in Seq(Token) /\ Len(g[0]) = 0
    BY <2>1
  <2> HIDE DEF g
  <2>3. KeptOf(s, 0, g[0])
    <3>1. \A j : j \notin 1..0
      OBVIOUS
    <3> QED BY <2>2, <3>1 DEF KeptOf
  <2> QED BY <1>1, <2>3
<1>3. ASSUME NEW m \in 0..n - 1, m \in S PROVE m + 1 \in S
  <2> DEFINE q == m + 1
             k == g[m]
  <2>1. q \in 1..n /\ q - 1 = m /\ q \in 0..n /\ m \in Nat /\ q \in Nat
    BY <1>1
  <2>2. g[q] = IF s[q].kind = "gone" THEN k ELSE Append(k, s[q])
    BY <2>1, KeptStep
  <2>3. KeptOf(s, m, k)
    BY <1>3
  <2> HIDE DEF k, g
  <2>4. s[q] \in Token /\ s[q].at = q
    BY <1>1, <2>1
  <2>5. /\ \A p \in 1..q : p \in 1..m \/ p = q
        /\ \A p \in 1..m : p \in 1..q /\ p < q
        /\ m + 1 = q
    BY <2>1
  <2> HIDE DEF q
  <2>6. CASE s[q].kind = "gone"
    <3>1. g[q] = k
      BY <2>2, <2>6
    <3>2. q \in 1..q
      BY <2>1
    <3> HIDE DEF Token
    <3>3. KeptOf(s, q, k)
      BY <2>3, <2>5, <2>6, <3>2 DEF KeptOf
    <3> QED BY <2>1, <2>5, <3>1, <3>3
  <2>7. CASE s[q].kind # "gone"
    <3> DEFINE h == Append(k, s[q])
               l == Len(k)
    <3>1. k \in Seq(Token) /\ l \in Nat
      BY <2>3 DEF KeptOf
    <3>2. /\ h \in Seq(Token) /\ Len(h) = l + 1 /\ h[l + 1] = s[q]
          /\ \A j \in 1..l : h[j] = k[j]
      <4> HIDE DEF Token
      <4> QED BY <2>4, <3>1
    <3>3. /\ \A j \in 1..l + 1 : j \in 1..l \/ j = l + 1
          /\ \A j \in 1..l : j \in 1..l + 1 /\ j < l + 1
          /\ l + 1 \in 1..l + 1
      BY <3>1
    <3> HIDE DEF h, l
    <3>4. /\ \A j \in 1..l : k[j].at \in 1..m /\ k[j] = s[k[j].at]
          /\ \A j \in 1..l : \A i2 \in 1..l : j < i2 => k[j].at < k[i2].at
          /\ \A p \in 1..m : s[p].kind # "gone" => \E j \in 1..l : k[j] = s[p]
          /\ (\A p \in 1..m : s[p].kind # "gone") => l = m /\ \A j \in 1..m : k[j] = s[j]
      BY <2>3 DEF KeptOf, l
    <3>5. \A j \in 1..l + 1 : h[j].at \in 1..q /\ h[j] = s[h[j].at]
      <4>1. \A j \in 1..l : h[j].at \in 1..q /\ h[j] = s[h[j].at]
        BY <2>5, <3>2, <3>4
      <4>2. h[l + 1].at \in 1..q /\ h[l + 1] = s[h[l + 1].at]
        BY <2>1, <2>4, <3>2
      <4> QED BY <3>3, <4>1, <4>2
    <3>6. \A j \in 1..l + 1 : \A i2 \in 1..l + 1 : j < i2 => h[j].at < h[i2].at
      <4> SUFFICES ASSUME NEW j \in 1..l + 1, NEW i2 \in 1..l + 1, j < i2
                   PROVE  h[j].at < h[i2].at
        OBVIOUS
      <4>1. j \in 1..l
        BY <3>1 DEF l
      <4>2. CASE i2 \in 1..l
        BY <3>2, <3>4, <4>1, <4>2
      <4>3. CASE i2 = l + 1
        <5>1. h[i2].at = q /\ h[j].at \in 1..m
          BY <2>4, <3>2, <3>4, <4>1, <4>3
        <5> QED BY <2>5, <5>1
      <4> QED BY <3>3, <4>2, <4>3
    <3>7. \A p \in 1..q : s[p].kind # "gone" => \E j \in 1..l + 1 : h[j] = s[p]
      <4> SUFFICES ASSUME NEW p \in 1..q, s[p].kind # "gone"
                   PROVE  \E j \in 1..l + 1 : h[j] = s[p]
        OBVIOUS
      <4>1. CASE p = q
        BY <3>2, <3>3, <4>1
      <4>2. CASE p \in 1..m
        BY <3>2, <3>3, <3>4, <4>2
      <4> QED BY <2>5, <4>1, <4>2
    <3>8. (\A p \in 1..q : s[p].kind # "gone") => l + 1 = q /\ \A j \in 1..q : h[j] = s[j]
      <4> SUFFICES ASSUME \A p \in 1..q : s[p].kind # "gone"
                   PROVE  l + 1 = q /\ \A j \in 1..q : h[j] = s[j]
        OBVIOUS
      <4>1. l = m /\ \A j \in 1..m : k[j] = s[j]
        BY <2>5, <3>4
      <4> QED BY <2>5, <3>2, <4>1
    <3> HIDE DEF Token
    <3>9. KeptOf(s, q, h)
      BY <3>2, <3>5, <3>6, <3>7, <3>8 DEF KeptOf
    <3> QED BY <2>1, <2>2, <2>5, <2>7, <3>9 DEF h
  <2> QED BY <2>6, <2>7
<1>4. n \in S
  <2>1. n \in 0..n
    BY <1>1
  <2> HIDE DEF S, n
  <2> QED BY <1>1, <1>2, <1>3, <2>1, Upward
<1>5. Rest!Kept(s) = g[n]
  BY KeptStep
<1> HIDE DEF g
<1> QED BY <1>4, <1>5

-----------------------------------------------------------------------------
(* From the tokens to the commands. *)

IsBar(t) == t.op /\ line[t.from] = "|"

LEMMA OperatorKinds ==
  \A t : /\ OperatorKind(t) \in Rest!Kinds \ Rest!Words
         /\ t.op => (OperatorKind(t) = "pipe" <=> IsBar(t))
<1>1. /\ "pipe" \in Rest!Kinds \ Rest!Words /\ "hdoc" \in Rest!Kinds \ Rest!Words
      /\ "redir" \in Rest!Kinds \ Rest!Words /\ "hdoc" # "pipe" /\ "redir" # "pipe"
  BY DEF Rest!Kinds, Rest!Words, Rest!RedirOps
<1>2. ASSUME NEW t
      PROVE  \/ OperatorKind(t) = "pipe" /\ line[t.from] = "|"
             \/ OperatorKind(t) \in {"hdoc", "redir"} /\ line[t.from] # "|"
  BY Zenon DEF OperatorKind
<1>3. ASSUME NEW t PROVE OperatorKind(t) \in Rest!Kinds \ Rest!Words
  <2>1. OperatorKind(t) \in {"pipe", "hdoc", "redir"}
    BY <1>2, Zenon
  <2> QED BY <1>1, <2>1
<1>4. ASSUME NEW t, t.op PROVE OperatorKind(t) = "pipe" <=> IsBar(t)
  <2>1. OperatorKind(t) \in {"hdoc", "redir"} => OperatorKind(t) # "pipe"
    OBVIOUS
  <2> QED BY <1>2, <1>4, <2>1, Zenon DEF IsBar
<1> QED BY <1>3, <1>4

(* The tokens as typed. *)
Typed == [k \in 1..Len(raw) |-> [kind |-> raw[k], at |-> k]]

RawIs ==
  /\ raw \in Seq(Rest!Kinds) /\ Len(raw) = Len(tokens)
  /\ \A k \in 1..Len(raw) : raw[k] = "pipe" <=> IsBar(tokens[k])

RestInv ==
  /\ stage \in {"tokens", "check", "rejected", "expand", "split", "run"}
  /\ stage # "tokens" => pc = "accepted" /\ RawIs
  /\ stage \in {"check", "rejected", "expand"} => toks = Typed
  /\ stage \in {"expand", "split", "run"} => ~Rest!ParsingError(raw)
  /\ stage \in {"split", "run"} => toks = Rest!Kept(Typed)
  /\ stage = "run" => SplitIs(toks, nseg, segs)

LEMMA TypedIs ==
  ASSUME raw \in Seq(Rest!Kinds)
  PROVE  /\ Typed \in Seq(Token) /\ Len(Typed) = Len(raw) /\ Len(raw) \in Nat
         /\ DOMAIN raw = 1..Len(raw)
         /\ \A k \in 1..Len(raw) : Typed[k].kind = raw[k] /\ Typed[k].at = k
<1> DEFINE K == Rest!Kinds
<1> HIDE DEF K
<1>1. raw \in Seq(K)
  BY DEF K
<1>2. Len(raw) \in Nat /\ DOMAIN raw = 1..Len(raw) /\ \A k \in 1..Len(raw) : raw[k] \in K
  BY <1>1
<1>3. \A k \in 1..Len(raw) : Typed[k] = [kind |-> raw[k], at |-> k]
  BY DEF Typed
<1>4. \A k \in 1..Len(raw) : Typed[k] \in Token
  <2> SUFFICES ASSUME NEW k \in 1..Len(raw) PROVE Typed[k] \in Token
    OBVIOUS
  <2>1. raw[k] \in Rest!Kinds /\ k \in Nat
    BY <1>2 DEF K
  <2>2. [kind |-> raw[k], at |-> k] \in [kind : Rest!Kinds, at : Nat]
    BY ONLY <2>1
  <2>3. Typed[k] = [kind |-> raw[k], at |-> k]
    BY <1>3
  <2> QED BY ONLY <2>2, <2>3 DEF Token
<1>5. Typed \in [1..Len(raw) -> Token]
  BY <1>4 DEF Typed
<1>6. Typed \in Seq(Token) /\ Len(Typed) = Len(raw)
  <2> DEFINE n == Len(raw)
             f == Typed
             T == Token
  <2>1. f \in [1..n -> T] /\ n \in Nat
    BY <1>2, <1>5
  <2> HIDE DEF f, T, n
  <2>2. f \in Seq(T) /\ Len(f) = n
    BY ONLY <2>1
  <2> QED BY <2>2 DEF f, T, n
<1>7. \A k \in 1..Len(raw) : Typed[k].kind = raw[k] /\ Typed[k].at = k
  <2> SUFFICES ASSUME NEW k \in 1..Len(raw) PROVE Typed[k].kind = raw[k] /\ Typed[k].at = k
    OBVIOUS
  <2>1. Typed[k] = [kind |-> raw[k], at |-> k]
    BY <1>3
  <2> QED BY ONLY <2>1
<1> QED BY <1>2, <1>6, <1>7

LEMMA HandOverStep == LexInv /\ HandOver => RestInv'
<1> SUFFICES ASSUME LexInv, HandOver PROVE RestInv'
  OBVIOUS
<1> DEFINE K == Rest!Kinds
<1>0. \E gone \in SUBSET Vanishable : \E cut \in SUBSET (Splittable \ gone) :
        raw' = [k \in DOMAIN tokens |->
                 IF tokens[k].op THEN OperatorKind(tokens[k])
                 ELSE IF k \in gone THEN "gone"
                 ELSE IF k \in cut THEN "split" ELSE "word"]
  BY Zenon DEF HandOver
<1>b. PICK gone \in SUBSET Vanishable : \E cut \in SUBSET (Splittable \ gone) :
        raw' = [k \in DOMAIN tokens |->
                 IF tokens[k].op THEN OperatorKind(tokens[k])
                 ELSE IF k \in gone THEN "gone"
                 ELSE IF k \in cut THEN "split" ELSE "word"]
  BY <1>0
<1>1. PICK cut \in SUBSET (Splittable \ gone) :
        raw' = [k \in DOMAIN tokens |->
                 IF tokens[k].op THEN OperatorKind(tokens[k])
                 ELSE IF k \in gone THEN "gone"
                 ELSE IF k \in cut THEN "split" ELSE "word"]
  BY <1>b
<1>2. /\ toks' = [k \in DOMAIN tokens |-> [kind |-> raw'[k], at |-> k]]
      /\ stage' = "check" /\ pc' = "accepted" /\ UNCHANGED <<line, tokens>>
  BY DEF HandOver
<1>3. Len(tokens) \in Nat /\ DOMAIN tokens = 1..Len(tokens)
  BY DEF LexInv, LexTypes
<1>4. {"gone", "split", "word"} \subseteq Rest!Words /\ Rest!Words \subseteq K /\ "pipe" \notin Rest!Words
  BY DEF Rest!Kinds, Rest!Words, Rest!RedirOps
<1>5. ASSUME NEW k \in 1..Len(tokens)
      PROVE  raw'[k] \in K /\ (raw'[k] = "pipe" <=> IsBar(tokens[k]))
  <2>1. raw'[k] = IF tokens[k].op THEN OperatorKind(tokens[k])
                  ELSE IF k \in gone THEN "gone"
                  ELSE IF k \in cut THEN "split" ELSE "word"
    BY <1>1, <1>3
  <2>2. CASE tokens[k].op
    BY <2>1, <2>2, OperatorKinds
  <2>3. CASE ~tokens[k].op
    <3>1. raw'[k] \in {"gone", "split", "word"} /\ ~IsBar(tokens[k])
      BY <2>1, <2>3 DEF IsBar
    <3>2. raw'[k] \in Rest!Words
      BY <1>4, <3>1
    <3> QED BY <1>4, <3>1, <3>2
  <2> QED BY <2>2, <2>3
<1> HIDE DEF K
<1>6. raw' \in [1..Len(tokens) -> K]
  BY <1>1, <1>3, <1>5
<1>7. raw' \in Seq(K) /\ Len(raw') = Len(tokens)
  BY <1>3, <1>6
<1>8. \A k \in 1..Len(tokens) : IsBar(tokens[k])' = IsBar(tokens[k])
  BY <1>2 DEF IsBar
<1>9. RawIs'
  BY <1>2, <1>5, <1>7, <1>8 DEF RawIs, K
<1>10. toks' = Typed'
  BY <1>2, <1>3, <1>7 DEF Typed
<1> QED BY <1>2, <1>9, <1>10 DEF RestInv

LEMMA RestStep == LexInv /\ RestInv /\ [LineNext]_lineVars => RestInv'
<1> SUFFICES ASSUME LexInv, RestInv, [LineNext]_lineVars PROVE RestInv'
  OBVIOUS
<1>1. CASE Tokenize
  <2>1. stage = "tokens" /\ stage' = "tokens"
    BY <1>1 DEF Tokenize, RestInv, Ends, syntaxVars
  <2> QED BY <2>1 DEF RestInv
<1>2. CASE HandOver
  BY <1>2, HandOverStep
<1>3. CASE Run
  <2>1. stage # "tokens" /\ UNCHANGED <<line, pc, tokens>>
    BY <1>3 DEF Run, vars
  <2>2. raw' = raw
    BY <1>3 DEF Run, CheckAndSplit, Rest!Check, Rest!Expand, Rest!Split
  <2>3. pc' = "accepted" /\ RawIs' /\ Typed' = Typed
    <3>1. \A k : IsBar(tokens[k])' = IsBar(tokens[k])
      BY <2>1 DEF IsBar
    <3>2. pc = "accepted" /\ RawIs
      BY <2>1 DEF RestInv
    <3> QED BY <2>1, <2>2, <3>1, <3>2 DEF RawIs, Typed
  <2>4. Rest!ParsingError(raw)' = Rest!ParsingError(raw)
    BY <2>2 DEF Rest!ParsingError
  <2>5. CASE Rest!Check
    <3>1. /\ stage = "check" /\ toks' = toks
          /\ stage' = IF Rest!ParsingError(raw) THEN "rejected" ELSE "expand"
      BY <2>5 DEF Rest!Check
    <3>2. toks' = Typed'
      BY <2>3, <3>1 DEF RestInv
    <3> QED BY <2>3, <2>4, <3>1, <3>2 DEF RestInv
  <2>6. CASE Rest!Expand
    <3>1. stage = "expand" /\ stage' = "split" /\ toks' = Rest!Kept(toks)
      BY <2>6 DEF Rest!Expand
    <3>2. toks' = Rest!Kept(Typed') /\ ~Rest!ParsingError(raw)'
      BY <2>3, <2>4, <3>1 DEF RestInv
    <3>3. Rest!Kept(Typed') = Rest!Kept(Typed)'
      BY DEF Rest!Kept
    <3> QED BY <2>3, <3>1, <3>2, <3>3 DEF RestInv
  <2>7. CASE Rest!Split
    <3>1. /\ stage = "split" /\ stage' = "run" /\ toks' = toks
          /\ IF Rest!HasPipe(toks)
               THEN nseg' = Rest!CountSegments(toks) /\ segs' = Rest!CollectSegments(toks)
               ELSE nseg' = 1 /\ segs' = <<[start |-> 1, end |-> Len(toks)]>>
      BY <2>7 DEF Rest!Split
    <3>2. toks = Rest!Kept(Typed) /\ ~Rest!ParsingError(raw) /\ raw \in Seq(Rest!Kinds)
      BY <3>1 DEF RestInv, RawIs
    <3>3. toks \in Seq(Token)
      BY <3>2, TypedIs, KeptIs DEF KeptOf
    <3>4. Len(toks) \in Nat /\ DOMAIN toks = 1..Len(toks)
      <4> HIDE DEF Token
      <4> QED BY <3>3
    <3>5. SplitIs(toks, nseg', segs')
      BY <3>1, <3>4, SplitGives
    <3>6. SplitIs(toks, nseg, segs)' /\ toks' = Rest!Kept(Typed)'
      <4>1. Rest!Kept(Typed') = Rest!Kept(Typed)'
        BY DEF Rest!Kept
      <4>2. SplitIs(toks', nseg', segs') = SplitIs(toks, nseg, segs)'
        OBVIOUS
      <4> QED BY <2>3, <3>1, <3>2, <3>5, <4>1, <4>2
    <3> QED BY <2>3, <2>4, <3>1, <3>2, <3>6 DEF RestInv
  <2> QED BY <1>3, <2>5, <2>6, <2>7 DEF Run, CheckAndSplit
<1>4. CASE LineEnded \/ UNCHANGED lineVars
  <2>1. UNCHANGED lineVars
    BY <1>4 DEF LineEnded
  <2>2. /\ line' = line /\ pc' = pc /\ tokens' = tokens /\ raw' = raw /\ toks' = toks
        /\ nseg' = nseg /\ segs' = segs /\ stage' = stage
    BY <2>1 DEF lineVars
  <2>3. RawIs' = RawIs
    BY <2>2 DEF RawIs, IsBar
  <2>4. Typed' = Typed /\ Rest!ParsingError(raw)' = Rest!ParsingError(raw)
    BY <2>2 DEF Typed, Rest!ParsingError
  <2>5. Rest!Kept(Typed)' = Rest!Kept(Typed') /\ SplitIs(toks, nseg, segs)' = SplitIs(toks', nseg', segs')
    BY DEF Rest!Kept
  <2> QED BY <2>2, <2>3, <2>4, <2>5 DEF RestInv
<1> QED BY <1>1, <1>2, <1>3, <1>4 DEF LineNext

LEMMA RestInvariance == LineSpec => [](LexInv /\ TokensInv /\ RestInv)
<1>1. LineInit => RestInv
  BY DEF LineInit, RestInv
<1>2. RestInv /\ LexInv /\ [LineNext]_lineVars => RestInv'
  BY RestStep
<1> QED BY <1>1, <1>2, TokenizerInvariance, PTL DEF LineSpec

-----------------------------------------------------------------------------
(* What the children run. *)

(* The tokens stand in the list as they stand in the line. *)
LEMMA FromSorted ==
  ASSUME LexInv, TokensInv, pc = "accepted"
  PROVE  /\ Len(tokens) \in Nat
         /\ \A p \in 1..Len(tokens) : tokens[p].from \in Nat
         /\ \A p \in 1..Len(tokens) : \A q \in 1..Len(tokens) :
              p < q => tokens[p].from < tokens[q].from
<1> DEFINE n == Len(tokens)
           F(p) == tokens[p].from
           S == {d \in 0..n : \A p \in 1..n : d > 0 /\ p + d <= n => F(p) < F(p + d)}
<1>1. n \in Nat /\ \A p \in 1..n : F(p) \in Nat /\ tokens[p].to \in Nat
  BY TokenTypes DEF LexInv
<1>2. \A p \in 1..n - 1 : F(p) < F(p + 1)
  <2>1. Collected
    BY DEF TokensInv
  <2> SUFFICES ASSUME NEW p \in 1..n - 1 PROVE F(p) < F(p + 1)
    OBVIOUS
  <2>2. p \in 1..n /\ p + 1 \in 1..n
    BY <1>1
  <2>3. F(p) <= tokens[p].to /\ tokens[p].to < F(p + 1)
    BY <2>1, <2>2 DEF Collected
  <2> QED BY <1>1, <2>2, <2>3
<1> HIDE DEF F
<1>3. 0 \in S
  BY <1>1
<1>4. ASSUME NEW d \in 0..n - 1, d \in S PROVE d + 1 \in S
  <2> SUFFICES ASSUME NEW p \in 1..n, p + (d + 1) <= n PROVE F(p) < F(p + (d + 1))
    BY <1>1
  <2>1. p + d \in 1..n - 1 /\ (p + d) + 1 = p + (d + 1) /\ p + d \in 1..n /\ p + (d + 1) \in 1..n
    BY <1>1
  <2>2. F(p + d) < F(p + (d + 1))
    BY <1>2, <2>1
  <2>3. d > 0 => F(p) < F(p + d)
    BY <1>4, <2>1
  <2>4. ~(d > 0) => p + d = p
    OBVIOUS
  <2>5. F(p) \in Nat /\ F(p + d) \in Nat /\ F(p + (d + 1)) \in Nat
    BY <1>1, <2>1
  <2> QED BY <2>2, <2>3, <2>4, <2>5
<1>5. \A d \in 0..n : d \in S
  <2> HIDE DEF S, n
  <2> QED BY <1>1, <1>3, <1>4, Upward
<1>6. ASSUME NEW p \in 1..n, NEW q \in 1..n, p < q PROVE F(p) < F(q)
  <2>1. q - p \in 0..n /\ q - p > 0 /\ p + (q - p) = q
    BY <1>1, <1>6
  <2>2. q - p \in S
    BY <1>5, <2>1
  <2> QED BY <2>1, <2>2
<1> QED BY <1>1, <1>6 DEF F

(* The tokens of the unquoted | are those. *)
LEMMA BarsAreTokens ==
  ASSUME LexInv, TokensInv, pc = "accepted"
  PROVE  /\ \A m \in Pipes : \E q \in 1..Len(tokens) : tokens[q].from = m /\ IsBar(tokens[q])
         /\ \A q \in 1..Len(tokens) : IsBar(tokens[q]) => tokens[q].from \in Pipes
<1>1. ToSet(tokens) = Meant
  BY AllCollected
<1>2. DOMAIN tokens = 1..Len(tokens)
  BY DEF LexInv, LexTypes
<1>3. ASSUME NEW m \in Pipes
      PROVE  \E q \in 1..Len(tokens) : tokens[q].from = m /\ IsBar(tokens[q])
  <2>1. m \in 1..Len(line) /\ line[m] = "|" /\ m \notin Quoted
    BY <1>3, Zenon DEF Pipes
  <2>2. line[m] \in Operators
    BY <2>1, Zenon DEF Operators
  <2>3. m \notin WordPlaces
    BY <2>1, <2>2, Zenon DEF WordPlaces
  <2>4. m \in OperatorPlaces
    BY <2>1, <2>2, <2>3, Zenon DEF OperatorPlaces
  <2>5. OperatorToken(m) \in Meant
    BY <2>4, MeantFrom, Zenon
  <2>6. OperatorToken(m).from = m /\ OperatorToken(m).op
    BY DEF OperatorToken
  <2>7. IsBar(OperatorToken(m))
    BY <2>1, <2>6, Zenon DEF IsBar
  <2>8. PICK q \in 1..Len(tokens) : tokens[q] = OperatorToken(m)
    BY <1>1, <1>2, <2>5 DEF ToSet
  <2> QED BY <2>6, <2>7, <2>8, Zenon
<1>4. ASSUME NEW q \in 1..Len(tokens), IsBar(tokens[q]) PROVE tokens[q].from \in Pipes
  <2> DEFINE t == tokens[q]
  <2>1. t \in Meant /\ t.op /\ line[t.from] = "|"
    <3>1. tokens[q] \in ToSet(tokens)
      BY <1>2 DEF ToSet
    <3> QED BY <1>1, <1>4, <3>1, Zenon DEF IsBar
  <2> HIDE DEF t
  <2>2. t # WordToken(t.from)
    BY <2>1 DEF WordToken
  <2>3. t.from \in OperatorPlaces
    BY <2>1, <2>2, MeantFrom, Zenon
  <2>4. t.from \in 1..Len(line) /\ t.from \notin WordPlaces
    BY <2>3, Zenon DEF OperatorPlaces
  <2>5. t.from \notin Quoted
    BY <2>4, Zenon DEF WordPlaces
  <2> QED BY <2>1, <2>4, <2>5, Zenon DEF Pipes, t
<1> QED BY <1>3, <1>4

(* The list when the commands run, seen from the tokens as typed. *)
LEMMA ListAtRun ==
  ASSUME LexInv, TokensInv, RestInv, stage = "run"
  PROVE  /\ pc = "accepted" /\ RawIs /\ ~Rest!ParsingError(raw) /\ SplitIs(toks, nseg, segs)
         /\ KeptOf(Typed, Len(raw), toks) /\ Len(toks) \in Nat
<1>1. /\ pc = "accepted" /\ RawIs /\ ~Rest!ParsingError(raw) /\ SplitIs(toks, nseg, segs)
      /\ toks = Rest!Kept(Typed)
  BY DEF RestInv
<1>2. KeptOf(Typed, Len(raw), toks)
  BY <1>1, TypedIs, KeptIs DEF RawIs
<1>3. Len(toks) \in Nat
  <2>1. toks \in Seq(Token)
    BY <1>2 DEF KeptOf
  <2> HIDE DEF Token
  <2> QED BY <2>1
<1> QED BY <1>1, <1>2, <1>3

(* Without a | between two tokens of the list, none is between them in the *)
(* line, whatever vanished.                                                *)
LEMMA SameStretch ==
  ASSUME LexInv, TokensInv, RestInv, stage = "run",
         NEW a \in 1..Len(toks), NEW k \in 1..Len(toks), a <= k,
         \A m \in a..k : ~IsPipe(toks, m)
  PROVE  Stretch(Pipes, k) = Stretch(Pipes, a)
<1> DEFINE F(j) == tokens[toks[j].at].from
<1>1. /\ pc = "accepted" /\ RawIs /\ KeptOf(Typed, Len(raw), toks) /\ Len(toks) \in Nat
  BY ListAtRun
<1>2. /\ Len(tokens) \in Nat /\ \A p \in 1..Len(tokens) : tokens[p].from \in Nat
      /\ \A p \in 1..Len(tokens) : \A q \in 1..Len(tokens) :
           p < q => tokens[p].from < tokens[q].from
  BY <1>1, FromSorted
<1>3. Len(raw) = Len(tokens) /\ raw \in Seq(Rest!Kinds)
  BY <1>1 DEF RawIs
<1>4. /\ \A j \in 1..Len(toks) : toks[j].at \in 1..Len(tokens)
      /\ \A j \in 1..Len(toks) : \A l \in 1..Len(toks) : j < l => toks[j].at < toks[l].at
      /\ \A q \in 1..Len(tokens) : Typed[q].kind # "gone" => \E j \in 1..Len(toks) : toks[j] = Typed[q]
  BY <1>1, <1>3 DEF KeptOf
<1>5. toks[a].at \in 1..Len(tokens) /\ toks[k].at \in 1..Len(tokens) /\ toks[a].at <= toks[k].at
  <2>1. toks[a].at \in 1..Len(tokens) /\ toks[k].at \in 1..Len(tokens)
    BY <1>4
  <2>2. a < k => toks[a].at < toks[k].at
    BY <1>4
  <2>3. a < k \/ a = k
    OBVIOUS
  <2> QED BY <2>1, <2>2, <2>3
<1>6. F(a) \in Nat /\ F(k) \in Nat /\ F(a) <= F(k)
  <2>1. toks[a].at < toks[k].at => F(a) < F(k)
    BY <1>2, <1>5
  <2>2. toks[a].at = toks[k].at => F(a) = F(k)
    OBVIOUS
  <2>3. toks[a].at < toks[k].at \/ toks[a].at = toks[k].at
    BY <1>2, <1>5
  <2>4. F(a) \in Nat /\ F(k) \in Nat
    BY <1>2, <1>5
  <2> HIDE DEF F
  <2> QED BY <2>1, <2>2, <2>3, <2>4
<1>7. ASSUME NEW m \in Pipes, ~(m < F(a)), m < F(k) PROVE FALSE
  <2>1. PICK q \in 1..Len(tokens) : tokens[q].from = m /\ IsBar(tokens[q])
    BY <1>1, <1>7, BarsAreTokens
  <2>2. toks[a].at <= q /\ q < toks[k].at
    <3>1. ~(q < toks[a].at)
      BY <1>2, <1>5, <1>7, <2>1
    <3>2. ~(toks[k].at < q) /\ q # toks[k].at
      <4>1. tokens[q].from \in Nat /\ ~(F(k) < tokens[q].from) /\ F(k) # tokens[q].from
        BY <1>2, <1>6, <1>7, <2>1
      <4> QED BY <1>2, <1>5, <4>1
    <3> QED BY <1>2, <1>5, <3>1, <3>2
  <2>3. Typed[q].kind = "pipe" /\ Typed[q].at = q
    <3>1. raw[q] = "pipe"
      BY <1>1, <1>3, <2>1 DEF RawIs
    <3> QED BY <1>3, <3>1, TypedIs
  <2>4. PICK j \in 1..Len(toks) : toks[j] = Typed[q]
    BY <1>4, <2>3
  <2>5. toks[j].at = q /\ IsPipe(toks, j)
    BY <2>3, <2>4 DEF IsPipe
  <2>6. ~(j < a)
    <3>1. j < a => toks[j].at < toks[a].at
      BY <1>4
    <3> QED BY <1>2, <1>5, <2>2, <2>5, <3>1
  <2>7. ~(k < j)
    <3>1. k < j => toks[k].at < toks[j].at
      BY <1>4
    <3> QED BY <1>2, <1>5, <2>2, <2>5, <3>1
  <2>8. j \in a..k
    BY <1>1, <2>6, <2>7
  <2> QED BY <2>5, <2>8
<1>8. \A m \in Pipes : m < F(k) <=> m < F(a)
  <2>1. \A m \in Pipes : m \in Nat
    BY DEF Pipes
  <2>2. \A m \in Pipes : m < F(a) => m < F(k)
    <3> HIDE DEF F
    <3> QED BY <1>6, <2>1
  <2> QED BY <1>7, <2>2
<1>9. {m \in Pipes : m < F(k)} = {m \in Pipes : m < F(a)}
  BY <1>8
<1> QED BY <1>9 DEF Stretch

(* No child runs words from behind another | of the line than its own,     *)
(* except the one of a stretch that vanished, for lines of any length and  *)
(* however much of them vanishes; and every slot that is read was filled.  *)
THEOREM ChildrenRunTheirOwn == LineSpec => []OwnWordsUnlessEmptied
<1>1. ASSUME LexInv, TokensInv, RestInv PROVE OwnWordsUnlessEmptied
  <2> SUFFICES ASSUME stage = "run"
               PROVE  /\ nseg = Len(segs)
                      /\ \A n \in DOMAIN segs :
                           segs[n].end # Rest!Null =>
                             \A k \in ToSet(Rest!Args(n)) :
                               Stretch(Pipes, k) = Stretch(Pipes, segs[n].start)
    BY Zenon DEF OwnWordsUnlessEmptied
  <2>1. SplitIs(toks, nseg, segs) /\ Len(toks) \in Nat
    BY <1>1, ListAtRun
  <2>2. DOMAIN segs = 1..Len(segs) /\ nseg = Len(segs)
    BY <2>1 DEF SplitIs
  <2>3. ASSUME NEW n \in DOMAIN segs, segs[n].end # Rest!Null, NEW k \in ToSet(Rest!Args(n))
        PROVE  Stretch(Pipes, k) = Stretch(Pipes, segs[n].start)
    <3> DEFINE a == segs[n].start
               b == segs[n].end
    <3>1. SegmentIs(toks, segs[n])
      BY <2>1, <2>2, <2>3 DEF SplitIs
    <3>2. /\ a \in 1..Len(toks) + 1 /\ b \in 0..Len(toks) /\ a <= b
          /\ \A m \in a..b : ~IsPipe(toks, m)
      BY <2>3, <3>1 DEF SegmentIs
    <3>3. Rest!LastOf(n) = b
      BY <2>3 DEF Rest!LastOf
    <3> HIDE DEF a, b
    <3>4. a \in Nat \ {0} /\ b \in Nat /\ a <= b + 1 /\ a \in 1..Len(toks)
      BY <2>1, <3>2
    <3>5. k \in a..b
      BY <2>3, <3>3, <3>4, FillIs DEF a
    <3>6. k \in 1..Len(toks) /\ a <= k /\ \A m \in a..k : m \in a..b
      BY <2>1, <3>2, <3>5
    <3> QED BY <1>1, <3>2, <3>4, <3>6, SameStretch DEF a
  <2> QED BY <2>2, <2>3
<1> QED BY <1>1, RestInvariance, PTL

(* Syntax counts as CommandLine does. *)
LEMMA SameCardinality == \A S : Rest!Cardinality(S) = Cardinality(S)
  BY Zenon DEF Rest!Cardinality, Cardinality

(* A line on which nothing vanishes: its list is what was typed. *)
LEMMA NothingVanished ==
  ASSUME LexInv, TokensInv, RestInv, stage = "run", ~Rest!Emptied
  PROVE  /\ Len(raw) \in Nat /\ Len(raw) >= 1 /\ Len(toks) = Len(raw)
         /\ DOMAIN raw = 1..Len(raw)
         /\ \A k \in 1..Len(raw) : toks[k].kind = raw[k] /\ toks[k].at = k
         /\ \A k \in 1..Len(raw) :
              /\ IsPipe(toks, k) <=> raw[k] = "pipe"
              /\ IsRedir(k) <=> raw[k] \in Rest!RedirOps
              /\ IsWord(k) <=> raw[k] \in Rest!Words
              /\ IsSplit(k) <=> raw[k] = "split"
              /\ IsPipe(toks, k) \/ IsRedir(k) \/ IsWord(k)
<1>1. RawIs /\ KeptOf(Typed, Len(raw), toks) /\ raw \in Seq(Rest!Kinds)
  BY ListAtRun DEF RawIs
<1>2. /\ Len(raw) \in Nat /\ DOMAIN raw = 1..Len(raw)
      /\ \A k \in 1..Len(raw) : Typed[k].kind = raw[k] /\ Typed[k].at = k
  BY <1>1, TypedIs
<1>3. \A k \in 1..Len(raw) : raw[k] # "gone" /\ raw[k] \in Rest!Kinds
  <2>1. \A k \in 1..Len(raw) : raw[k] # "gone"
    BY <1>2 DEF Rest!Emptied
  <2>2. \A k \in 1..Len(raw) : raw[k] \in Rest!Kinds
    <3> DEFINE K == Rest!Kinds
    <3>1. raw \in Seq(K)
      BY <1>1
    <3> HIDE DEF K
    <3>2. \A k \in 1..Len(raw) : raw[k] \in K
      BY <1>2, <3>1
    <3> QED BY <3>2 DEF K
  <2> QED BY <2>1, <2>2
<1>4. Len(toks) = Len(raw) /\ \A k \in 1..Len(raw) : toks[k] = Typed[k]
  BY <1>1, <1>2, <1>3 DEF KeptOf
<1>5. \A k \in 1..Len(raw) : toks[k].kind = raw[k] /\ toks[k].at = k
  BY <1>2, <1>4
<1>6. Len(raw) >= 1
  <2>1. tokens # <<>> /\ Len(tokens) = Len(raw)
    BY <1>1, ListAtRun DEF LexInv, ScanInv, RawIs
  <2>2. Len(tokens) # 0
    <3> DEFINE T == [op : BOOLEAN, from : Nat, to : Nat]
    <3>1. tokens \in Seq(T)
      BY DEF LexInv, LexTypes
    <3> HIDE DEF T
    <3> QED BY <2>1, <3>1, EmptySeq
  <2> QED BY <1>2, <2>1, <2>2
<1>7. ASSUME NEW k \in 1..Len(raw)
      PROVE  /\ IsPipe(toks, k) <=> raw[k] = "pipe"
             /\ IsRedir(k) <=> raw[k] \in Rest!RedirOps
             /\ IsWord(k) <=> raw[k] \in Rest!Words
             /\ IsSplit(k) <=> raw[k] = "split"
             /\ IsPipe(toks, k) \/ IsRedir(k) \/ IsWord(k)
  <2>1. toks[k].kind = raw[k] /\ raw[k] # "gone" /\ raw[k] \in Rest!Kinds
    BY <1>3, <1>5
  <2> QED BY <2>1 DEF IsPipe, IsRedir, IsWord, IsSplit, Rest!Kinds, Rest!Words, Rest!RedirOps
<1> QED BY <1>2, <1>4, <1>5, <1>6, <1>7

(* What the check lets through, on such a line. *)
LEMMA CheckedLine ==
  ASSUME LexInv, TokensInv, RestInv, stage = "run", ~Rest!Emptied
  PROVE  /\ ~IsPipe(toks, 1) /\ IsWord(Len(raw))
         /\ \A k \in 1..Len(raw) - 1 : ~IsWord(k) =>
              IsWord(k + 1) \/ (IsRedir(k) /\ IsPipe(toks, k + 1))
<1>1. ~Rest!ParsingError(raw)
  BY ListAtRun
<1>2. /\ raw[1] \in Rest!Words \cup {"hdoc"} /\ raw[Len(raw)] \in Rest!Words
      /\ \A k \in 1..Len(raw) - 1 : raw[k] \notin Rest!Words /\ raw[k + 1] \notin Rest!Words =>
           ~(raw[k] = "pipe" \/ raw[k + 1] # "pipe")
  BY <1>1 DEF Rest!ParsingError
<1>3. 1 \in 1..Len(raw) /\ Len(raw) \in 1..Len(raw)
  BY NothingVanished
<1>4. raw[1] # "pipe"
  BY <1>2 DEF Rest!Words
<1>5. ~IsPipe(toks, 1) /\ IsWord(Len(raw))
  BY <1>2, <1>3, <1>4, NothingVanished
<1>6. ASSUME NEW k \in 1..Len(raw) - 1, ~IsWord(k), ~IsWord(k + 1)
      PROVE  IsRedir(k) /\ IsPipe(toks, k + 1)
  <2>1. k \in 1..Len(raw) /\ k + 1 \in 1..Len(raw)
    BY NothingVanished
  <2>2. raw[k] \notin Rest!Words /\ raw[k + 1] \notin Rest!Words
    BY <1>6, <2>1, NothingVanished
  <2>3. raw[k] # "pipe" /\ raw[k + 1] = "pipe"
    BY <1>2, <2>2
  <2> QED BY <1>6, <2>1, <2>3, NothingVanished
<1> QED BY <1>5, <1>6

(* A segment of such a line: where it starts and ends, and which segment   *)
(* of the typed line that is.                                              *)
LEMMA CleanSegment ==
  ASSUME LexInv, TokensInv, RestInv, stage = "run", ~Rest!Emptied, NEW n \in 1..nseg
  PROVE  /\ segs[n].start \in 1..Len(raw) /\ Rest!LastOf(n) \in segs[n].start..Len(raw)
         /\ segs[n].start = 1 \/ IsPipe(toks, segs[n].start - 1)
         /\ Rest!LastOf(n) = Len(raw) \/ IsPipe(toks, Rest!LastOf(n) + 1)
         /\ \A m \in segs[n].start..Rest!LastOf(n) : ~IsPipe(toks, m)
         /\ PipesBefore(toks, segs[n].start) = n - 1
<1> DEFINE g == segs[n]
<1>1. Len(raw) \in Nat /\ Len(raw) >= 1 /\ Len(toks) = Len(raw)
  BY NothingVanished
<1>2. SegmentIs(toks, g) /\ PipesBefore(toks, g.start) = n - 1
  BY ListAtRun DEF SplitIs
<1> HIDE DEF g
<1>3. /\ g.start \in 1..Len(raw) + 1 /\ g.end \in 0..Len(raw)
      /\ g.start = 1 \/ IsPipe(toks, g.start - 1)
      /\ g.end = Rest!Null => IsPipe(toks, g.start)
      /\ g.end # Rest!Null =>
           /\ g.start <= g.end
           /\ g.end = Len(raw) \/ IsPipe(toks, g.end + 1)
           /\ \A m \in g.start..g.end : ~IsPipe(toks, m)
  BY <1>1, <1>2 DEF SegmentIs
<1>4. g.end # Rest!Null
  <2> SUFFICES ASSUME g.end = Rest!Null PROVE FALSE
    OBVIOUS
  <2>1. IsPipe(toks, g.start)
    BY <1>3
  <2>2. g.start # 1 /\ IsPipe(toks, g.start - 1)
    BY <1>3, <2>1, CheckedLine
  <2> DEFINE k == g.start - 1
  <2>3. k \in 1..Len(raw) /\ k + 1 = g.start
    BY <1>1, <1>3, <2>2
  <2> HIDE DEF k
  <2>4. IsPipe(toks, k) /\ IsPipe(toks, k + 1)
    BY <2>1, <2>2, <2>3 DEF k
  <2>5. ~IsWord(k) /\ ~IsRedir(k)
    BY <2>4 DEF IsPipe, IsWord, IsRedir, Rest!RedirOps, Rest!Words
  <2>6. k # Len(raw)
    BY <2>5, CheckedLine
  <2>7. k \in 1..Len(raw) - 1
    BY <1>1, <2>3, <2>6
  <2>8. IsWord(k + 1)
    BY <2>5, <2>7, CheckedLine
  <2> QED BY <2>4, <2>8 DEF IsPipe, IsWord, Rest!Words
<1>5. Rest!LastOf(n) = g.end
  BY <1>4 DEF Rest!LastOf, g
<1>6. g.start \in 1..Len(raw) /\ g.end \in g.start..Len(raw)
  BY <1>1, <1>3, <1>4
<1> QED BY <1>2, <1>3, <1>4, <1>5, <1>6 DEF g

LEMMA CleanArgs ==
  ASSUME LexInv, TokensInv, RestInv, stage = "run", ~Rest!Emptied, NEW n \in 1..nseg
  PROVE  /\ {toks[k].at : k \in ToSet(Rest!Args(n))} = Rest!TypedWords(n)
         /\ Rest!Crashes(n) => raw[toks[Rest!LastOf(n)].at + 1] = "pipe"
         /\ \A k \in segs[n].start .. Rest!LastOf(n) - 1 :
              toks[k].kind \in Rest!RedirOps => toks[k + 1].kind \in Rest!Words
<1> DEFINE a == segs[n].start
           b == Rest!LastOf(n)
           N == Len(raw)
<1>1. /\ N \in Nat /\ N >= 1 /\ Len(toks) = N /\ DOMAIN raw = 1..N
      /\ \A k \in 1..N : toks[k].at = k
      /\ \A k \in 1..N : /\ IsPipe(toks, k) <=> raw[k] = "pipe"
                         /\ IsRedir(k) <=> raw[k] \in Rest!RedirOps
                         /\ IsWord(k) <=> raw[k] \in Rest!Words
                         /\ IsSplit(k) <=> raw[k] = "split"
  BY NothingVanished
<1>2. /\ a \in 1..N /\ b \in a..N
      /\ a = 1 \/ IsPipe(toks, a - 1)
      /\ b = N \/ IsPipe(toks, b + 1)
      /\ \A m \in a..b : ~IsPipe(toks, m)
      /\ PipesBefore(toks, a) = n - 1
  BY CleanSegment
<1>3. /\ ~IsPipe(toks, 1) /\ IsWord(N)
      /\ \A k \in 1..N - 1 : ~IsWord(k) =>
              IsWord(k + 1) \/ (IsRedir(k) /\ IsPipe(toks, k + 1))
  BY CheckedLine
<1>4. \A k : /\ IsRedir(k) => ~IsWord(k) /\ ~IsPipe(toks, k)
             /\ IsPipe(toks, k) => ~IsWord(k)
  BY DEF IsPipe, IsRedir, IsWord, Rest!RedirOps, Rest!Words
<1>a. segs[n].start = a /\ Rest!LastOf(n) = b
  OBVIOUS
<1> HIDE DEF a, b, N
<1>5. ASSUME NEW k \in a..b - 1, IsRedir(k) PROVE IsWord(k + 1)
  <2>1. k \in 1..N - 1 /\ k + 1 \in a..b
    BY <1>1, <1>2
  <2> QED BY <1>2, <1>3, <1>4, <1>5, <2>1
<1>6. ToSet(Rest!Args(n)) = WordsFrom(a, b)
  <2>1. a \in Nat \ {0} /\ b \in Nat /\ a <= b + 1
    BY <1>1, <1>2
  <2> QED BY <1>5, <1>a, <2>1, FillIs
<1>7. ASSUME NEW p \in 1..N, IsWord(p) PROVE PipesBefore(toks, p) = n - 1 <=> p \in a..b
  <2>1. CASE p \in a..b
    <3>1. a \in Nat /\ p \in Nat /\ a <= p
      BY <1>1, <1>2, <2>1
    <3>2. \A m \in a..p - 1 : ~IsPipe(toks, m)
      BY <1>1, <1>2, <2>1
    <3> QED BY <1>2, <2>1, <3>1, <3>2, PipesBeforeGrows
  <2>2. CASE p < a
    <3>1. a - 1 \in Nat \ {0} /\ p \in Nat /\ p <= a - 1 /\ (a - 1) + 1 = a
      BY <1>1, <1>2, <2>2
    <3>2. IsPipe(toks, a - 1)
      BY <1>2, <2>2
    <3>3. PipesBefore(toks, a) = PipesBefore(toks, a - 1) + 1
      BY <3>1, <3>2, PipesBeforeNext
    <3>4. /\ PipesBefore(toks, p) <= PipesBefore(toks, a - 1)
          /\ PipesBefore(toks, p) \in Nat /\ PipesBefore(toks, a - 1) \in Nat
      BY <3>1, PipesBeforeGrows
    <3>5. p \notin a..b
      BY <1>1, <1>2, <2>2
    <3>6. PipesBefore(toks, p) # PipesBefore(toks, a)
      BY <3>3, <3>4
    <3> QED BY <1>2, <3>5, <3>6
  <2>3. CASE b < p
    <3>1. b # N /\ b + 1 \in Nat \ {0} /\ b + 2 \in Nat /\ (b + 1) + 1 = b + 2
      BY <1>1, <1>2, <2>3
    <3>2. IsPipe(toks, b + 1)
      BY <1>2, <3>1
    <3>3. p # b + 1
      BY <1>4, <1>7, <3>2
    <3>4. b + 2 <= p /\ p \in Nat /\ a \in Nat /\ a <= b + 1
      BY <1>1, <1>2, <2>3, <3>3
    <3>5. PipesBefore(toks, b + 2) = PipesBefore(toks, b + 1) + 1
      BY <3>1, <3>2, PipesBeforeNext
    <3>6. /\ PipesBefore(toks, b + 2) <= PipesBefore(toks, p)
          /\ PipesBefore(toks, b + 2) \in Nat /\ PipesBefore(toks, p) \in Nat
      BY <3>1, <3>4, PipesBeforeGrows
    <3>7. /\ PipesBefore(toks, a) <= PipesBefore(toks, b + 1)
          /\ PipesBefore(toks, a) \in Nat /\ PipesBefore(toks, b + 1) \in Nat
      BY <3>1, <3>4, PipesBeforeGrows
    <3>8. p \notin a..b
      BY <1>1, <1>2, <2>3
    <3>9. PipesBefore(toks, p) # PipesBefore(toks, a)
      BY <3>5, <3>6, <3>7
    <3> QED BY <1>2, <3>8, <3>9
  <2> QED BY <1>1, <1>2, <2>1, <2>2, <2>3
<1>8. \A p \in 1..N : Rest!TypedSegment(p) = 1 + PipesBefore(toks, p)
  <2> SUFFICES ASSUME NEW p \in 1..N PROVE Rest!TypedSegment(p) = 1 + PipesBefore(toks, p)
    OBVIOUS
  <2>1. \A m \in 1..p - 1 : m \in 1..N
    BY <1>1
  <2>2. {m \in 1..p - 1 : raw[m] = "pipe"} = {m \in 1..p - 1 : IsPipe(toks, m)}
    BY <1>1, <2>1
  <2> QED BY <2>2, SameCardinality DEF Rest!TypedSegment, PipesBefore
<1>9. ASSUME NEW p \in 1..N, IsWord(p) PROVE Rest!TypedSegment(p) = n <=> p \in a..b
  <2>1. PipesBefore(toks, p) \in Nat /\ n \in Int
    <3>1. p \in Nat /\ p <= p
      BY <1>1
    <3>2. nseg \in Nat
      BY ListAtRun DEF SplitIs
    <3> QED BY <3>1, <3>2, PipesBeforeGrows
  <2>2. PipesBefore(toks, p) = n - 1 <=> 1 + PipesBefore(toks, p) = n
    BY <2>1
  <2> QED BY <1>7, <1>8, <1>9, <2>2
<1>10. Rest!TypedWords(n) = WordsFrom(a, b)
  <2>1. Rest!TypedWords(n) =
          {p \in 1..N : /\ IsWord(p) /\ Rest!TypedSegment(p) = n
                        /\ p = 1 \/ raw[p - 1] \notin Rest!RedirOps \/ IsSplit(p)}
    BY <1>1 DEF Rest!TypedWords
  <2>2. ASSUME NEW p \in a..b
        PROVE  /\ p \in 1..N
               /\ (p = 1 \/ raw[p - 1] \notin Rest!RedirOps) <=> (p = a \/ ~IsRedir(p - 1))
    <3>1. p \in 1..N /\ (p # 1 => p - 1 \in 1..N)
      BY <1>1, <1>2
    <3>2. p # 1 => (raw[p - 1] \notin Rest!RedirOps <=> ~IsRedir(p - 1))
      BY <1>1, <3>1
    <3>3. CASE p = 1
      <4>1. a = 1
        BY <1>1, <1>2, <3>3
      <4> QED BY <3>1, <3>3, <4>1
    <3>4. CASE p # 1 /\ p = a
      <4>1. IsPipe(toks, p - 1)
        BY <1>2, <3>4
      <4> QED BY <1>4, <3>1, <3>2, <3>4, <4>1
    <3>5. CASE p # 1 /\ p # a
      BY <3>1, <3>2, <3>5
    <3> QED BY <3>3, <3>4, <3>5
  <2>3. ASSUME NEW p \in Rest!TypedWords(n) PROVE p \in WordsFrom(a, b)
    <3>1. /\ p \in 1..N /\ IsWord(p) /\ Rest!TypedSegment(p) = n
          /\ p = 1 \/ raw[p - 1] \notin Rest!RedirOps \/ IsSplit(p)
      BY <2>1, <2>3
    <3>2. p \in a..b
      BY <1>9, <3>1
    <3> QED BY <2>2, <3>1, <3>2 DEF WordsFrom
  <2>4. ASSUME NEW p \in WordsFrom(a, b) PROVE p \in Rest!TypedWords(n)
    <3>1. p \in a..b /\ IsWord(p) /\ (p = a \/ ~IsRedir(p - 1) \/ IsSplit(p))
      BY <2>4 DEF WordsFrom
    <3>2. p \in 1..N /\ (p = 1 \/ raw[p - 1] \notin Rest!RedirOps \/ IsSplit(p))
      BY <2>2, <3>1
    <3>3. Rest!TypedSegment(p) = n
      BY <1>9, <3>1, <3>2
    <3> QED BY <2>1, <3>1, <3>2, <3>3
  <2> QED BY <2>3, <2>4
<1>11. {toks[k].at : k \in ToSet(Rest!Args(n))} = Rest!TypedWords(n)
  <2>1. \A k \in WordsFrom(a, b) : toks[k].at = k
    BY <1>1, <1>2 DEF WordsFrom
  <2>2. {toks[k].at : k \in WordsFrom(a, b)} = WordsFrom(a, b)
    BY <2>1
  <2> QED BY <1>6, <1>10, <2>2
<1>12. ASSUME Rest!Crashes(n) PROVE raw[toks[b].at + 1] = "pipe"
  <2>1. IsRedir(b)
    BY <1>12, <1>a DEF Rest!Crashes, IsRedir
  <2>2. b # N
    BY <1>3, <1>4, <2>1
  <2>3. b \in 1..N /\ b + 1 \in 1..N /\ IsPipe(toks, b + 1)
    BY <1>1, <1>2, <2>2
  <2>4. toks[b].at = b
    BY <1>1, <2>3
  <2> QED BY <1>1, <2>3, <2>4
<1>13. \A k \in a..b - 1 : toks[k].kind \in Rest!RedirOps => toks[k + 1].kind \in Rest!Words
  BY <1>5 DEF IsRedir, IsWord
<1> QED BY <1>11, <1>12, <1>13, <1>a

(* There are as many | in the list as unquoted | on the line. *)
LEMMA CountedPipes ==
  ASSUME LexInv, TokensInv, RestInv, stage = "run"
  PROVE  Cardinality(Pipes) = Cardinality({k \in DOMAIN raw : raw[k] = "pipe"})
<1> DEFINE P == {k \in DOMAIN raw : raw[k] = "pipe"}
           f == [k \in P |-> tokens[k].from]
<1>1. pc = "accepted" /\ RawIs
  BY ListAtRun
<1>2. DOMAIN raw = 1..Len(tokens) /\ Len(tokens) \in Nat
  BY <1>1, TypedIs DEF RawIs
<1>3. P = {k \in 1..Len(tokens) : IsBar(tokens[k])}
  BY <1>1, <1>2 DEF RawIs
<1>4. IsFiniteSet(P)
  <2>1. IsFiniteSet(1..Len(tokens)) /\ P \subseteq 1..Len(tokens)
    BY <1>2, FS_Interval
  <2> HIDE DEF P
  <2> QED BY <2>1, FS_Subset
<1> HIDE DEF P
<1>5. f \in [P -> Pipes]
  BY <1>1, <1>3, BarsAreTokens
<1>6. \A m \in Pipes : \E k \in P : f[k] = m
  BY <1>1, <1>3, BarsAreTokens
<1>7. \A k \in P : \A l \in P : f[k] = f[l] => k = l
  <2> SUFFICES ASSUME NEW k \in P, NEW l \in P, f[k] = f[l] PROVE k = l
    OBVIOUS
  <2>1. k \in 1..Len(tokens) /\ l \in 1..Len(tokens) /\ tokens[k].from = tokens[l].from
    BY <1>3
  <2>2. tokens[k].from \in Nat /\ ~(k < l) /\ ~(l < k)
    <3>1. tokens[k].from \in Nat
      BY <1>1, <2>1, FromSorted
    <3>2. k < l => tokens[k].from < tokens[l].from
      BY <1>1, <2>1, FromSorted
    <3>3. l < k => tokens[l].from < tokens[k].from
      BY <1>1, <2>1, FromSorted
    <3> QED BY <2>1, <3>1, <3>2, <3>3
  <2> QED BY <1>2, <2>1, <2>2
<1> HIDE DEF f
<1>8. f \in Bijection(P, Pipes)
  BY <1>5, <1>6, <1>7 DEF Bijection, Injection, Surjection, IsInjective
<1>9. Cardinality(Pipes) = Cardinality(P)
  <2>1. ExistsBijection(P, Pipes)
    BY <1>8 DEF ExistsBijection
  <2> QED BY <1>4, <2>1, FS_Bijection
<1> QED BY <1>9 DEF P

(* When no word vanishes there is one child for each stretch between two   *)
(* unquoted |, it runs the words typed there that are not operands and the *)
(* pieces behind the first of operands that were split, no others, and     *)
(* every operator has its word but a redirection just before a |, for      *)
(* lines of any length.                                                    *)
THEOREM SplitIsClean == LineSpec => []CleanSplit
<1>1. ASSUME LexInv, TokensInv, RestInv, stage = "run", ~Rest!Emptied
      PROVE  /\ nseg = 1 + Cardinality({k \in DOMAIN raw : raw[k] = "pipe"})
             /\ \A n \in 1..nseg :
                  /\ {toks[k].at : k \in Rest!ToSet(Rest!Args(n))} = Rest!TypedWords(n)
                  /\ Rest!Crashes(n) => raw[toks[Rest!LastOf(n)].at + 1] = "pipe"
                  /\ \A k \in segs[n].start .. Rest!LastOf(n) - 1 :
                       toks[k].kind \in Rest!RedirOps => toks[k + 1].kind \in Rest!Words
  <2> DEFINE N == Len(raw)
  <2>1. /\ N \in Nat /\ N >= 1 /\ Len(toks) = N /\ DOMAIN raw = 1..N
        /\ \A k \in 1..N : IsPipe(toks, k) <=> raw[k] = "pipe"
    BY <1>1, NothingVanished
  <2>2. ~IsPipe(toks, N)
    BY <1>1, CheckedLine DEF IsPipe, IsWord, Rest!Words
  <2> HIDE DEF N
  <2>3. nseg = 1 + PipesBefore(toks, N + 1)
    <3>1. SplitIs(toks, nseg, segs)
      BY <1>1, ListAtRun
    <3> QED BY <2>1, <2>2, <3>1 DEF SplitIs
  <2>4. {m \in 1..(N + 1) - 1 : IsPipe(toks, m)} = {k \in DOMAIN raw : raw[k] = "pipe"}
    BY <2>1
  <2>5. nseg = 1 + Cardinality({k \in DOMAIN raw : raw[k] = "pipe"})
    BY <2>3, <2>4 DEF PipesBefore
  <2>6. \A n \in 1..nseg : Rest!ToSet(Rest!Args(n)) = ToSet(Rest!Args(n))
    BY DEF Rest!ToSet, ToSet
  <2> QED BY <1>1, <2>5, <2>6, CleanArgs
<1>2. ASSUME LexInv, TokensInv, RestInv PROVE CleanSplit
  <2>1. ASSUME stage = "run", ~Rest!Emptied PROVE nseg = 1 + Cardinality(Pipes)
    BY <1>1, <1>2, <2>1, CountedPipes
  <2>2. Rest!CleanSplit
    BY <1>1, <1>2, SameCardinality DEF Rest!CleanSplit
  <2> QED BY <2>1, <2>2 DEF CleanSplit
<1> QED BY <1>2, RestInvariance, PTL

=============================================================================
