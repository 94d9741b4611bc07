-------------------------- MODULE ExpansionProofs ---------------------------
(***************************************************************************)
(* Safety of Expansion for words, values and lines of any length.          *)
(***************************************************************************)
EXTENDS Expansion, SequenceTheorems, FiniteSetTheorems, WellFoundedInduction, TLAPS

-----------------------------------------------------------------------------
(* Every set of natural numbers that is not empty has a least element, and *)
(* what is true of 0 and of the successor of each is true of all up to L.  *)
LEMMA LessThanWellFounded == IsWellFoundedOn({p \in Nat \X Nat : p[1] < p[2]}, Nat)
<1>1. OpToRel(<, Nat) = {p \in Nat \X Nat : p[1] < p[2]}
  BY DEF OpToRel
<1> QED BY <1>1, NatLessThanWellFounded, Zenon

LEMMA LeastExists ==
  ASSUME NEW S \in SUBSET Nat, S # {}
  PROVE  \E m \in S : \A n \in S : m <= n
<1>1. PICK m \in S : \A n \in S : <<n, m>> \notin {p \in Nat \X Nat : p[1] < p[2]}
  BY LessThanWellFounded, WFMin
<1>2. ASSUME NEW n \in S, n < m PROVE FALSE
  <2>1. <<n, m>> \in {p \in Nat \X Nat : p[1] < p[2]}
    BY <1>2
  <2> QED BY <1>1, <2>1
<1>3. \A n \in S : m <= n
  BY <1>2
<1> QED BY <1>3

LEMMA MinIsLeast ==
  ASSUME NEW S \in SUBSET Nat, S # {}
  PROVE  Min(S) \in S /\ \A n \in S : Min(S) <= n
<1>1. \E m \in S : \A n \in S : m <= n
  BY LeastExists
<1> QED BY <1>1 DEF Min

LEMMA Upward ==
  ASSUME NEW L \in Nat, NEW S, 0 \in S, \A m \in 0..L - 1 : m \in S => m + 1 \in S
  PROVE  \A m \in 0..L : m \in S
<1> SUFFICES ASSUME \E m \in 0..L : m \notin S PROVE FALSE
  OBVIOUS
<1> DEFINE bad == 0..L \ S
<1>1. PICK m \in bad : \A k \in bad : m <= k
  <2>1. bad \in SUBSET Nat /\ bad # {}
    OBVIOUS
  <2> HIDE DEF bad
  <2> QED BY <2>1, LeastExists
<1>2. m - 1 \in 0..L - 1 /\ m - 1 \notin bad
  BY <1>1
<1>3. m - 1 \in S /\ (m - 1) + 1 = m
  BY <1>2
<1> QED BY <1>2, <1>3, <1>1

(* Recursion from 0 upwards, a step being a function of the result so far. *)
Recursion(f, n, A, base, step) ==
  f \in [0..n -> A] /\ f[0] = base /\ \A k \in 1..n : f[k] = step[k][f[k - 1]]

LEMMA RecursionExists ==
  ASSUME NEW n \in Nat, NEW A, NEW base \in A, NEW step \in [1..n -> [A -> A]]
  PROVE  \E f : Recursion(f, n, A, base, step)
<1> DEFINE S == {m \in 0..n : \E f \in [0..m -> A] :
                   f[0] = base /\ \A k \in 1..m : f[k] = step[k][f[k - 1]]}
<1>1. 0 \in S
  <2> DEFINE f == [k \in 0..0 |-> base]
  <2>1. f \in [0..0 -> A] /\ f[0] = base
    OBVIOUS
  <2>2. \A k \in 1..0 : f[k] = step[k][f[k - 1]]
    OBVIOUS
  <2> HIDE DEF f
  <2> QED BY <2>1, <2>2
<1>2. ASSUME NEW m \in 0..n - 1, m \in S PROVE m + 1 \in S
  <2>1. PICK f \in [0..m -> A] : f[0] = base /\ \A k \in 1..m : f[k] = step[k][f[k - 1]]
    BY <1>2
  <2> DEFINE g == [k \in 0..m + 1 |-> IF k <= m THEN f[k] ELSE step[m + 1][f[m]]]
  <2>2. step[m + 1] \in [A -> A] /\ f[m] \in A
    OBVIOUS
  <2>3. g \in [0..m + 1 -> A]
    BY <2>2
  <2>4. g[0] = base /\ \A k \in 1..m + 1 : g[k] = step[k][g[k - 1]]
    BY <2>1
  <2>5. m + 1 \in 0..n
    OBVIOUS
  <2> HIDE DEF g
  <2> QED BY <2>3, <2>4, <2>5
<1>3. \A m \in 0..n : m \in S
  <2> HIDE DEF S
  <2>1. \A m \in 0..n - 1 : m \in S => m + 1 \in S
    BY <1>2
  <2> QED BY <1>1, <2>1, Upward, Zenon
<1> QED BY <1>3 DEF Recursion

-----------------------------------------------------------------------------
(* Symbols and strings *)

String == Seq(Symbols)

LEMMA SymbolsApart ==
  /\ Quotes \subseteq Symbols /\ Refs \subseteq Symbols /\ Blank \in Symbols
  /\ None \notin Symbols
  /\ \A c \in Quotes : c # None /\ c # Blank /\ c \notin Refs
  /\ Blank \notin Refs /\ Double \in Quotes
  /\ "a" \notin Quotes /\ Blank # "a"
<1>1. "none" \notin {"a", " ", "'", "\""} /\ " " \notin {"a", "'", "\""} /\ "a" \notin {"'", "\""}
  OBVIOUS
<1>2. /\ None \notin {"a", Blank} \cup Quotes /\ Blank \notin Quotes
      /\ "a" \notin Quotes /\ Blank # "a"
  BY <1>1, Zenon DEF None, Blank, Quotes, Single, Double
<1>3. Refs \cap ({"a", Blank, None} \cup Quotes) = {}
  BY ExpansionAssumption
<1> QED BY <1>2, <1>3 DEF Symbols, Quotes

LEMMA StringIs ==
  ASSUME NEW s \in String
  PROVE  Len(s) \in Nat /\ \A k \in 1..Len(s) : s[k] \in Symbols
  BY DEF String

(* The quote that is open at each position, as one function. *)
Next1(s, k, q) ==
  CASE q = s[k]                     -> None
    [] q = None /\ s[k] \in Quotes -> s[k]
    [] OTHER                        -> q
OpenFn(s, n) ==
  LET open_at[m \in 1..n] == IF m = 1 THEN None ELSE Next1(s, m - 1, open_at[m - 1])
  IN open_at
OpenValues == Quotes \cup {None}

LEMMA Next1Type ==
  ASSUME NEW s, NEW k, NEW q \in OpenValues
  PROVE  Next1(s, k, q) \in OpenValues
  BY DEF Next1, OpenValues

LEMMA OpenFnStep ==
  ASSUME NEW s, NEW n \in Nat \ {0}
  PROVE  /\ OpenFn(s, n) \in [1..n -> OpenValues] /\ OpenFn(s, n)[1] = None
         /\ \A m \in 2..n : OpenFn(s, n)[m] = Next1(s, m - 1, OpenFn(s, n)[m - 1])
<1> DEFINE next(m, a) == Next1(s, m, a)
           A == OpenValues
           step == [m \in 1..n - 1 |-> [a \in A |-> next(m, a)]]
           body(f) == [m \in 1..n |-> IF m = 1 THEN None ELSE next(m - 1, f[m - 1])]
<1>1. None \in A /\ \A m \in 1..n - 1 : \A a \in A : next(m, a) \in A
  BY Next1Type DEF OpenValues
<1> HIDE DEF next, A
<1>2. step \in [1..n - 1 -> [A -> A]]
  BY <1>1
<1>3. PICK f : Recursion(f, n - 1, A, None, step)
  <2>1. n - 1 \in Nat
    OBVIOUS
  <2> HIDE DEF step
  <2> QED BY <1>1, <1>2, <2>1, RecursionExists
<1> DEFINE g == [m \in 1..n |-> f[m - 1]]
<1>4. f \in [0..n - 1 -> A] /\ f[0] = None /\ \A k \in 1..n - 1 : f[k] = next(k, f[k - 1])
  <2>1. f \in [0..n - 1 -> A] /\ f[0] = None /\ \A k \in 1..n - 1 : f[k] = step[k][f[k - 1]]
    BY <1>3 DEF Recursion
  <2>2. \A k \in 1..n - 1 : f[k - 1] \in A
    BY <2>1
  <2> QED BY <2>1, <2>2
<1>5. g = body(g) /\ g \in [1..n -> A]
  <2>1. \A m \in 1..n : m - 1 \in 0..n - 1 /\ g[m] = f[m - 1]
    OBVIOUS
  <2>2. ASSUME NEW m \in 1..n PROVE g[m] = IF m = 1 THEN None ELSE next(m - 1, g[m - 1])
    <3>1. m # 1 => m - 1 \in 1..n - 1 /\ m - 1 \in 1..n
      OBVIOUS
    <3> HIDE DEF g
    <3> QED BY <1>4, <2>1, <3>1
  <2>3. g \in [1..n -> A]
    BY <1>4, <2>1
  <2>4. g = [m \in 1..n |-> g[m]]
    OBVIOUS
  <2> HIDE DEF g
  <2> QED BY <2>2, <2>3, <2>4
<1>6. OpenFn(s, n) = CHOOSE h : h = body(h)
  BY Zenon DEF OpenFn, next
<1>7. OpenFn(s, n) = body(OpenFn(s, n))
  <2> HIDE DEF g
  <2> QED BY <1>5, <1>6, Zenon
<1> DEFINE h == OpenFn(s, n)
<1>8. \A m \in 1..n : h[m] = IF m = 1 THEN None ELSE next(m - 1, h[m - 1])
  <2>1. h = [m \in 1..n |-> IF m = 1 THEN None ELSE next(m - 1, h[m - 1])]
    BY <1>7
  <2> HIDE DEF h
  <2> QED BY ONLY <2>1
<1>9. \A m \in 1..n : h[m] \in A
  <2> DEFINE S == {k \in 0..n - 1 : h[k + 1] \in A}
  <2>1. 0 \in S
    BY <1>1, <1>8
  <2>2. ASSUME NEW k \in 0..(n - 1) - 1, k \in S PROVE k + 1 \in S
    <3> HIDE DEF h
    <3>1. (k + 1) + 1 \in 1..n /\ (k + 1) + 1 # 1 /\ ((k + 1) + 1) - 1 = k + 1 /\ k + 1 \in 1..n - 1
      OBVIOUS
    <3>2. h[(k + 1) + 1] = next(k + 1, h[k + 1])
      BY <1>8, <3>1
    <3> QED BY <1>1, <2>2, <3>1, <3>2
  <2>3. \A k \in 0..n - 1 : k \in S
    <3>1. n - 1 \in Nat
      OBVIOUS
    <3> HIDE DEF S
    <3> QED BY <2>1, <2>2, <3>1, Upward
  <2>4. \A m \in 1..n : m - 1 \in 0..n - 1 /\ (m - 1) + 1 = m
    OBVIOUS
  <2> QED BY <2>3, <2>4
<1>10. h \in [1..n -> A]
  <2>1. h = [m \in 1..n |-> h[m]]
    BY <1>7
  <2> HIDE DEF h
  <2> QED BY <1>9, <2>1
<1> QED BY <1>8, <1>10 DEF next, A

LEMMA OpenFnUnique ==
  ASSUME NEW s, NEW n \in Nat \ {0}, NEW k \in 1..n
  PROVE  OpenFn(s, k)[k] = OpenFn(s, n)[k]
<1> DEFINE f == OpenFn(s, k)
           g == OpenFn(s, n)
           S == {m \in 0..k - 1 : f[m + 1] = g[m + 1]}
<1>1. k \in Nat \ {0}
  OBVIOUS
<1>2. /\ f[1] = None /\ \A m \in 2..k : f[m] = Next1(s, m - 1, f[m - 1])
      /\ g[1] = None /\ \A m \in 2..n : g[m] = Next1(s, m - 1, g[m - 1])
  BY <1>1, OpenFnStep
<1> HIDE DEF f, g
<1>3. 0 \in S
  BY <1>2
<1>4. ASSUME NEW m \in 0..(k - 1) - 1, m \in S PROVE m + 1 \in S
  <2>1. (m + 1) + 1 \in 2..k /\ (m + 1) + 1 \in 2..n /\ ((m + 1) + 1) - 1 = m + 1
    OBVIOUS
  <2>2. f[(m + 1) + 1] = Next1(s, m + 1, f[m + 1]) /\ g[(m + 1) + 1] = Next1(s, m + 1, g[m + 1])
    BY <1>2, <2>1
  <2> QED BY <1>4, <2>2
<1>5. k - 1 \in S
  <2>1. k - 1 \in Nat /\ k - 1 \in 0..k - 1
    OBVIOUS
  <2> HIDE DEF S
  <2> QED BY <1>3, <1>4, <2>1, Upward
<1> QED BY <1>5 DEF f, g

LEMMA OpenAtStep ==
  ASSUME NEW s, Len(s) \in Nat
  PROVE  /\ OpenAt(s, 1) = None
         /\ \A k \in 1..Len(s) + 1 : OpenAt(s, k) \in OpenValues
         /\ \A k \in 1..Len(s) : OpenAt(s, k + 1) = Next1(s, k, OpenAt(s, k))
<1> DEFINE n == Len(s) + 1
<1>1. n \in Nat \ {0} /\ n \in Nat
  OBVIOUS
<1>2. \A k : OpenAt(s, k) = OpenFn(s, k)[k]
  BY Zenon DEF OpenAt, OpenFn, Next1
<1>3. \A k \in 1..n : OpenAt(s, k) = OpenFn(s, n)[k]
  <2> HIDE DEF n
  <2> QED BY <1>1, <1>2, OpenFnUnique
<1>4. /\ OpenFn(s, n) \in [1..n -> OpenValues] /\ OpenFn(s, n)[1] = None
      /\ \A m \in 2..n : OpenFn(s, n)[m] = Next1(s, m - 1, OpenFn(s, n)[m - 1])
  <2> HIDE DEF n
  <2> QED BY <1>1, OpenFnStep
<1>5. ASSUME NEW k \in 1..Len(s) PROVE OpenAt(s, k + 1) = Next1(s, k, OpenAt(s, k))
  <2>1. k \in 1..n /\ k + 1 \in 1..n /\ k + 1 \in 2..n /\ (k + 1) - 1 = k
    OBVIOUS
  <2> HIDE DEF n
  <2> QED BY <1>3, <1>4, <2>1
<1>6. OpenAt(s, 1) = None
  <2>1. 1 \in 1..n
    OBVIOUS
  <2> HIDE DEF n
  <2> QED BY <1>3, <1>4, <2>1
<1>7. \A k \in 1..n : OpenAt(s, k) \in OpenValues
  <2> HIDE DEF n
  <2> QED BY <1>3, <1>4
<1> QED BY <1>5, <1>6, <1>7

-----------------------------------------------------------------------------
(* Cutting and pasting *)

LEMMA ConcatIs ==
  ASSUME NEW A, NEW a \in Seq(A), NEW b \in Seq(A)
  PROVE  /\ a \o b \in Seq(A) /\ Len(a) \in Nat /\ Len(b) \in Nat
         /\ Len(a \o b) = Len(a) + Len(b)
         /\ \A p \in 1..Len(a) : (a \o b)[p] = a[p]
         /\ \A p \in 1..Len(b) : (a \o b)[Len(a) + p] = b[p]
  OBVIOUS

(* What is before and what is behind position k. *)
LEMMA AroundIs ==
  ASSUME NEW A, NEW s \in Seq(A), NEW k \in 1..Len(s)
  PROVE  LET a == SubSeq(s, 1, k - 1)
             c == SubSeq(s, k + 1, Len(s))
         IN /\ a \in Seq(A) /\ Len(a) = k - 1 /\ \A p \in 1..k - 1 : a[p] = s[p]
            /\ c \in Seq(A) /\ Len(c) = Len(s) - k /\ \A p \in 1..Len(s) - k : c[p] = s[k + p]
<1> DEFINE a == SubSeq(s, 1, k - 1)
           c == SubSeq(s, k + 1, Len(s))
<1>1. Len(s) \in Nat
  OBVIOUS
<1>2. a \in Seq(A) /\ Len(a) = k - 1 /\ \A p \in 1..k - 1 : a[p] = s[p]
  <2>1. \A p \in 1..k - 1 : p \in 1..Len(s)
    BY <1>1
  <2>2. a \in Seq(A) /\ Len(a) = k - 1
    BY <1>1, <2>1, SubSeqProperties
  <2>3. \A p \in 1..k - 1 : a[p] = s[1 + p - 1] /\ 1 + p - 1 = p
    BY <1>1, <2>1, <2>2, SubSeqProperties
  <2> QED BY <2>2, <2>3
<1>3. c \in Seq(A) /\ Len(c) = Len(s) - k /\ \A p \in 1..Len(s) - k : c[p] = s[k + p]
  <2>1. c \in Seq(A) /\ Len(c) = Len(s) - k
    OBVIOUS
  <2>2. \A p \in 1..Len(s) - k : c[p] = s[k + 1 + p - 1] /\ k + 1 + p - 1 = k + p
    OBVIOUS
  <2> QED BY <2>1, <2>2
<1> QED BY <1>2, <1>3

(* r is s with its element at k replaced by those of w. *)
Replaced(s, w, k, r) ==
  /\ Len(r) = Len(s) - 1 + Len(w)
  /\ \A p \in 1..k - 1 : r[p] = s[p]
  /\ \A p \in 1..Len(w) : r[k - 1 + p] = w[p]
  /\ \A p \in k + 1..Len(s) : r[p - 1 + Len(w)] = s[p]

LEMMA ReplaceIs ==
  ASSUME NEW A, NEW s \in Seq(A), NEW w \in Seq(A), NEW k \in 1..Len(s), NEW r,
         r = SubSeq(s, 1, k - 1) \o w \o SubSeq(s, k + 1, Len(s))
  PROVE  r \in Seq(A) /\ Replaced(s, w, k, r)
<1> DEFINE a == SubSeq(s, 1, k - 1)
           c == SubSeq(s, k + 1, Len(s))
           b == a \o w
<1>1. Len(s) \in Nat /\ Len(w) \in Nat
  OBVIOUS
<1>2. /\ a \in Seq(A) /\ Len(a) = k - 1 /\ \A p \in 1..k - 1 : a[p] = s[p]
      /\ c \in Seq(A) /\ Len(c) = Len(s) - k /\ \A p \in 1..Len(s) - k : c[p] = s[k + p]
  BY AroundIs
<1>3. b = a \o w /\ r = b \o c
  OBVIOUS
<1> HIDE DEF a, c, b
<1>x. a \in Seq(A) /\ c \in Seq(A) /\ w \in Seq(A)
  BY <1>2
<1>a. /\ a \o w \in Seq(A) /\ Len(a \o w) = Len(a) + Len(w)
      /\ \A p \in 1..Len(a) : (a \o w)[p] = a[p]
      /\ \A p \in 1..Len(w) : (a \o w)[Len(a) + p] = w[p]
  BY <1>x, ConcatIs
<1>4. /\ b \in Seq(A) /\ Len(b) = k - 1 + Len(w)
      /\ \A p \in 1..k - 1 : b[p] = a[p]
      /\ \A p \in 1..Len(w) : b[k - 1 + p] = w[p]
  BY <1>2, <1>3, <1>a, Zenon
<1>b. /\ b \o c \in Seq(A) /\ Len(b \o c) = Len(b) + Len(c)
      /\ \A p \in 1..Len(b) : (b \o c)[p] = b[p]
      /\ \A p \in 1..Len(c) : (b \o c)[Len(b) + p] = c[p]
  <2>1. b \in Seq(A) /\ c \in Seq(A)
    BY <1>x, <1>4
  <2> QED BY <2>1, ConcatIs
<1>5. /\ r \in Seq(A) /\ Len(r) = Len(b) + Len(c)
      /\ \A p \in 1..Len(b) : r[p] = b[p]
      /\ \A p \in 1..Len(c) : r[Len(b) + p] = c[p]
  BY <1>3, <1>b, Zenon
<1>6. Len(r) = Len(s) - 1 + Len(w)
  <2>1. Len(r) = (k - 1 + Len(w)) + (Len(s) - k)
    BY <1>2, <1>4, <1>5, Zenon
  <2> QED BY ONLY <2>1, <1>1, k \in 1..Len(s)
<1>7. \A p \in 1..k - 1 : r[p] = s[p]
  <2>1. \A p \in 1..k - 1 : p \in 1..Len(b)
    BY <1>1, <1>4
  <2> QED BY <1>2, <1>4, <1>5, <2>1
<1>8. \A p \in 1..Len(w) : r[k - 1 + p] = w[p]
  <2>1. \A p \in 1..Len(w) : k - 1 + p \in 1..Len(b)
    BY <1>1, <1>4
  <2> QED BY <1>4, <1>5, <2>1
<1>9. \A p \in k + 1..Len(s) : r[p - 1 + Len(w)] = s[p]
  <2> SUFFICES ASSUME NEW p \in k + 1..Len(s) PROVE r[p - 1 + Len(w)] = s[p]
    OBVIOUS
  <2>1. p - k \in 1..Len(s) - k /\ k + (p - k) = p /\ p - 1 + Len(w) = Len(b) + (p - k)
    BY <1>1, <1>4
  <2>2. r[Len(b) + (p - k)] = c[p - k]
    BY <1>2, <1>5, <2>1
  <2>3. c[p - k] = s[p]
    BY <1>2, <2>1
  <2> QED BY <2>1, <2>2, <2>3
<1> QED BY <1>5, <1>6, <1>7, <1>8, <1>9 DEF Replaced

LEMMA RemoveIs ==
  ASSUME NEW A, NEW s \in Seq(A), NEW k \in 1..Len(s), NEW r, r = RemoveAt(s, k)
  PROVE  /\ r \in Seq(A) /\ Len(r) = Len(s) - 1
         /\ \A p \in 1..k - 1 : r[p] = s[p]
         /\ \A p \in k..Len(s) - 1 : r[p] = s[p + 1]
<1> DEFINE a == SubSeq(s, 1, k - 1)
           c == SubSeq(s, k + 1, Len(s))
<1>1. r = a \o c /\ Len(s) \in Nat
  BY DEF RemoveAt
<1>2. /\ a \in Seq(A) /\ Len(a) = k - 1 /\ \A p \in 1..k - 1 : a[p] = s[p]
      /\ c \in Seq(A) /\ Len(c) = Len(s) - k /\ \A p \in 1..Len(s) - k : c[p] = s[k + p]
  BY AroundIs
<1> HIDE DEF a, c
<1>x. a \in Seq(A) /\ c \in Seq(A)
  BY <1>2
<1>a. /\ a \o c \in Seq(A) /\ Len(a \o c) = Len(a) + Len(c)
      /\ \A p \in 1..Len(a) : (a \o c)[p] = a[p]
      /\ \A p \in 1..Len(c) : (a \o c)[Len(a) + p] = c[p]
  BY <1>x, ConcatIs
<1>3. /\ r \in Seq(A) /\ Len(r) = Len(a) + Len(c)
      /\ \A p \in 1..Len(a) : r[p] = a[p]
      /\ \A p \in 1..Len(c) : r[Len(a) + p] = c[p]
  BY <1>1, <1>a, Zenon
<1>4. Len(r) = Len(s) - 1
  BY <1>1, <1>2, <1>3
<1>5. \A p \in 1..k - 1 : r[p] = s[p]
  BY <1>1, <1>2, <1>3
<1>6. \A p \in k..Len(s) - 1 : r[p] = s[p + 1]
  <2> SUFFICES ASSUME NEW p \in k..Len(s) - 1 PROVE r[p] = s[p + 1]
    OBVIOUS
  <2> DEFINE q == p - k + 1
  <2>1. q \in 1..Len(s) - k /\ Len(a) + q = p /\ k + q = p + 1
    BY <1>1, <1>2
  <2> HIDE DEF q
  <2>2. r[Len(a) + q] = c[q]
    BY <1>2, <1>3, <2>1
  <2>3. c[q] = s[p + 1]
    BY <1>2, <2>1
  <2> QED BY <2>1, <2>2, <2>3
<1> QED BY <1>3, <1>4, <1>5, <1>6

LEMMA CloseIsNext ==
  ASSUME NEW s, Len(s) \in Nat, NEW k \in 1..Len(s)
  PROVE  \/ CloseOf(s, k) = 0 /\ \A m \in k + 1..Len(s) : s[m] # s[k]
         \/ /\ CloseOf(s, k) \in k + 1..Len(s) /\ s[CloseOf(s, k)] = s[k]
            /\ \A m \in k + 1..CloseOf(s, k) - 1 : s[m] # s[k]
<1> DEFINE S == {m \in k + 1..Len(s) : s[m] = s[k]}
<1>1. CloseOf(s, k) = IF S # {} THEN Min(S) ELSE 0
  BY DEF CloseOf, SelectInSubSeq
<1>2. CASE S = {}
  BY <1>1, <1>2
<1>3. CASE S # {}
  <2>1. S \in SUBSET Nat
    OBVIOUS
  <2>2. Min(S) \in S /\ \A m \in S : Min(S) <= m
    <3> HIDE DEF S
    <3> QED BY <1>3, <2>1, MinIsLeast
  <2> DEFINE c == Min(S)
  <2>3. c \in k + 1..Len(s) /\ s[c] = s[k] /\ \A m \in S : c <= m
    BY <2>2
  <2> HIDE DEF c
  <2>4. \A m \in k + 1..c - 1 : m \notin S /\ m \in k + 1..Len(s)
    <3> HIDE DEF S
    <3> QED BY <2>3
  <2>5. \A m \in k + 1..c - 1 : s[m] # s[k]
    BY <2>4
  <2>6. CloseOf(s, k) = c
    BY <1>1, <1>3 DEF c
  <2> QED BY <2>3, <2>5, <2>6
<1> QED BY <1>2, <1>3

(* A piece reaches from its start to the next separator. *)
LEMMA PieceEndIs ==
  ASSUME NEW s, Len(s) \in Nat, NEW k \in PieceStarts(s)
  PROVE  /\ k \in 1..Len(s) /\ PieceEnd(s, k) \in k..Len(s)
         /\ \A n \in k..PieceEnd(s, k) : ~Separator(s, n)
         /\ Separator(s, PieceEnd(s, k) + 1)
<1> DEFINE S == {m \in k..Len(s) : Separator(s, m + 1)}
<1>1. k \in 1..Len(s) /\ ~Separator(s, k)
  BY DEF PieceStarts
<1>2. Len(s) \in S
  BY <1>1 DEF Separator
<1>3. PICK m \in S : \A n \in S : m <= n
  <2>1. S \in SUBSET Nat /\ S # {}
    BY <1>1, <1>2
  <2> HIDE DEF S
  <2> QED BY <2>1, LeastExists
<1>4. m \in k..Len(s) /\ Separator(s, m + 1)
  BY <1>3
<1>5. \A n \in k .. m + 1 : Separator(s, n) <=> n = m + 1
  <2> SUFFICES ASSUME NEW n \in k..m, Separator(s, n) PROVE FALSE
    BY <1>1, <1>4
  <2>1. n # k /\ n - 1 \in k..Len(s) /\ (n - 1) + 1 = n
    BY <1>1, <1>4
  <2>2. n - 1 \in S
    BY <2>1
  <2>3. ~(m <= n - 1)
    BY <1>1, <1>4
  <2> QED BY <1>3, <2>2, <2>3
<1>6. /\ PieceEnd(s, k) \in k..Len(s)
      /\ \A n \in k .. PieceEnd(s, k) + 1 : Separator(s, n) <=> n = PieceEnd(s, k) + 1
  BY <1>4, <1>5 DEF PieceEnd
<1>7. \A n \in k..PieceEnd(s, k) : n \in k .. PieceEnd(s, k) + 1 /\ n # PieceEnd(s, k) + 1
  BY <1>1, <1>6
<1>8. PieceEnd(s, k) + 1 \in k .. PieceEnd(s, k) + 1
  BY <1>1, <1>6
<1> QED BY <1>1, <1>6, <1>7, <1>8

PiecesUpTo(s) ==
  LET pieces[k \in 0..Len(s)] ==
        IF k = 0 THEN <<>>
        ELSE IF k \in PieceStarts(s)
          THEN Append(pieces[k - 1], SubSeq(s, k, PieceEnd(s, k)))
        ELSE pieces[k - 1]
  IN pieces

PieceAt(s, k) == SubSeq(s, k, PieceEnd(s, k))

LEMMA PieceIsString ==
  ASSUME NEW s \in String, NEW k \in PieceStarts(s)
  PROVE  /\ PieceAt(s, k) \in String /\ Len(PieceAt(s, k)) = PieceEnd(s, k) - k + 1
         /\ \A m \in 1..Len(PieceAt(s, k)) : PieceAt(s, k)[m] = s[k + m - 1]
<1>1. /\ k \in 1..Len(s) /\ PieceEnd(s, k) \in k..Len(s) /\ Len(s) \in Nat
  BY StringIs, PieceEndIs
<1>2. s \in Seq(Symbols)
  BY DEF String
<1> QED BY <1>1, <1>2 DEF PieceAt, String

LEMMA PiecesStep ==
  ASSUME NEW s \in String
  PROVE  /\ Pieces(s) = PiecesUpTo(s)[Len(s)]
         /\ PiecesUpTo(s)[0] = <<>>
         /\ \A k \in 1..Len(s) :
              PiecesUpTo(s)[k] = IF k \in PieceStarts(s)
                                   THEN Append(PiecesUpTo(s)[k - 1], PieceAt(s, k))
                                   ELSE PiecesUpTo(s)[k - 1]
<1> DEFINE n == Len(s)
           A == Seq(String)
           next(k, a) == IF k \in PieceStarts(s) THEN Append(a, PieceAt(s, k)) ELSE a
           step == [k \in 1..n |-> [a \in A |-> next(k, a)]]
           body(f) == [k \in 0..n |-> IF k = 0 THEN <<>> ELSE next(k, f[k - 1])]
<1>1. n \in Nat /\ <<>> \in A
  BY StringIs
<1>2. ASSUME NEW k \in 1..n, NEW a \in A PROVE next(k, a) \in A
  <2>1. k \in PieceStarts(s) => PieceAt(s, k) \in String
    BY PieceIsString
  <2> QED BY <2>1
<1>3. step \in [1..n -> [A -> A]]
  <2> HIDE DEF next
  <2> QED BY <1>2
<1> HIDE DEF A
<1>4. PICK f : Recursion(f, n, A, <<>>, step)
  <2> HIDE DEF step, n
  <2> QED BY <1>1, <1>3, RecursionExists
<1>5. f = body(f)
  <2>1. \A k \in 1..n : f[k - 1] \in A
    <3> HIDE DEF step
    <3> QED BY <1>1, <1>4 DEF Recursion
  <2>2. \A k \in 1..n : step[k][f[k - 1]] = next(k, f[k - 1])
    <3> HIDE DEF next
    <3> QED BY <2>1
  <2> HIDE DEF step, next
  <2>3. \A k \in 0..n : f[k] = IF k = 0 THEN <<>> ELSE next(k, f[k - 1])
    BY <1>1, <1>4, <2>2 DEF Recursion
  <2>4. f = [k \in 0..n |-> f[k]]
    BY <1>4 DEF Recursion
  <2> QED BY <2>3, <2>4
<1> DEFINE g == PiecesUpTo(s)
<1>6. g = CHOOSE h : h = [k \in 0..n |-> IF k = 0 THEN <<>>
                          ELSE IF k \in PieceStarts(s) THEN Append(h[k - 1], PieceAt(s, k))
                          ELSE h[k - 1]]
  BY Zenon DEF PiecesUpTo, PieceAt
<1>7. g = body(g)
  <2> HIDE DEF g
  <2> QED BY <1>5, <1>6, Zenon
<1>8. \A k \in 0..n : g[k] = IF k = 0 THEN <<>> ELSE next(k, g[k - 1])
  <2> HIDE DEF g, n, next
  <2> QED BY ONLY <1>7
<1>9. \A k \in 1..n : g[k] = next(k, g[k - 1])
  <2> HIDE DEF g, next
  <2> QED BY <1>1, <1>8
<1>10. g[0] = <<>>
  <2> HIDE DEF g, next
  <2> QED BY <1>1, <1>8
<1>11. Pieces(s) = PiecesUpTo(s)[Len(s)]
  BY Zenon DEF Pieces, PiecesUpTo
<1> QED BY <1>9, <1>10, <1>11

(* The pieces are those of the starts, and there is one if there is a start. *)
LEMMA PiecesAre ==
  ASSUME NEW s \in String
  PROVE  /\ Pieces(s) \in Seq(String)
         /\ \A n \in 1..Len(Pieces(s)) : \E k \in PieceStarts(s) : Pieces(s)[n] = PieceAt(s, k)
         /\ PieceStarts(s) # {} => Len(Pieces(s)) > 0
<1> DEFINE n == Len(s)
           g == PiecesUpTo(s)
           Are(m, p) == /\ p \in Seq(String)
                        /\ \A q \in 1..Len(p) : \E k \in PieceStarts(s) : p[q] = PieceAt(s, k)
                        /\ (\E k \in PieceStarts(s) : k <= m) => Len(p) > 0
           S == {m \in 0..n : Are(m, g[m])}
<1>1. n \in Nat /\ PieceStarts(s) \subseteq 1..n
  BY StringIs DEF PieceStarts
<1>2. /\ g[0] = <<>> /\ Pieces(s) = g[n]
      /\ \A k \in 1..n : g[k] = IF k \in PieceStarts(s) THEN Append(g[k - 1], PieceAt(s, k))
                                ELSE g[k - 1]
  BY PiecesStep
<1> HIDE DEF g, n
<1>3. 0 \in S
  <2>1. ~\E k \in PieceStarts(s) : k <= 0
    BY <1>1
  <2>2. g[0] \in Seq(String) /\ Len(g[0]) = 0
    BY <1>2
  <2> QED BY <1>1, <2>1, <2>2
<1>4. ASSUME NEW m \in 0..n - 1, m \in S PROVE m + 1 \in S
  <2> DEFINE q == m + 1
             p == g[m]
  <2>1. q \in 1..n /\ q \in 0..n /\ q - 1 = m /\ m \in Nat
    BY <1>1
  <2>2. Are(m, p)
    BY <1>4
  <2>3. g[q] = IF q \in PieceStarts(s) THEN Append(p, PieceAt(s, q)) ELSE p
    BY <1>2, <2>1
  <2>4. \A k \in PieceStarts(s) : k <= q => k <= m \/ k = q
    BY <1>1, <2>1
  <2>q. m + 1 = q
    OBVIOUS
  <2> HIDE DEF q, p
  <2>5. CASE q \notin PieceStarts(s)
    <3>1. Are(q, g[q])
      BY <2>2, <2>3, <2>4, <2>5
    <3> QED BY <2>1, <2>q, <3>1
  <2>6. CASE q \in PieceStarts(s)
    <3> DEFINE h == Append(p, PieceAt(s, q))
    <3>1. PieceAt(s, q) \in String
      BY <2>6, PieceIsString
    <3>2. /\ h \in Seq(String) /\ Len(h) = Len(p) + 1 /\ h[Len(p) + 1] = PieceAt(s, q)
          /\ Len(p) \in Nat /\ \A k \in 1..Len(p) : h[k] = p[k]
      BY <2>2, <3>1
    <3> HIDE DEF h
    <3>3. \A k \in 1..Len(h) : k \in 1..Len(p) \/ k = Len(p) + 1
      BY <3>2
    <3>4. Are(q, h)
      BY <2>2, <2>6, <3>2, <3>3
    <3> QED BY <2>1, <2>3, <2>6, <2>q, <3>4 DEF h
  <2> QED BY <2>5, <2>6
<1>5. Are(n, g[n])
  <2>1. n \in 0..n
    BY <1>1
  <2> HIDE DEF S, Are
  <2>2. n \in S
    BY <1>1, <1>3, <1>4, <2>1, Upward
  <2> USE DEF S
  <2> QED BY <2>2
<1> QED BY <1>1, <1>2, <1>5

-----------------------------------------------------------------------------
(* The array of save_index and the quotes it names *)

Odd(n) == n % 2 = 1

(* The entries of the array x that are left after the first b: they are    *)
(* places of quotes between p and q, counted in a string without b quotes. *)
Marks(s, x, b, p, q) ==
  /\ \A m \in b + 1..Len(x) : x[m] - b \in p..q /\ s[x[m] - b] \in Quotes
  /\ \A m \in b + 1..Len(x) - 1 : x[m] < x[m + 1]
  /\ \A m \in b + 1..Len(x) - 1 : Odd(m) => s[x[m] - b] = s[x[m + 1] - b]

(* A quote between p and q belongs to a pair or stands inside one.         *)
Enclosed(s, x, b, p, q) ==
  \A k \in p..q : s[k] \in Quotes =>
    \E m \in b + 1..Len(x) - 1 : Odd(m) /\ x[m] - b <= k /\ k <= x[m + 1] - b

Outside(s, x, p) ==
  ~Odd(Len(x)) /\ Marks(s, x, 0, 1, p - 1) /\ Enclosed(s, x, 0, 1, p - 1)

Inside(s, x, p, o) ==
  /\ Odd(Len(x)) /\ Marks(s, x, 0, 1, p - 1)
  /\ Enclosed(s, x, 0, 1, x[Len(x)] - 1) /\ s[x[Len(x)]] = o

Remaining(s, x, b, p) ==
  /\ ~Odd(Len(x)) /\ ~Odd(b) /\ b <= Len(x)
  /\ Marks(s, x, b, p, Len(s)) /\ Enclosed(s, x, b, p, Len(s))

LEMMA OddStep ==
  /\ ~Odd(0)
  /\ \A n \in Nat : Odd(n + 1) <=> ~Odd(n)
  BY DEF Odd

LEMMA MinusZero == \A n \in Int : n - 0 = n
  OBVIOUS

Places == Nat \ {0}

LEMMA PlacesIs ==
  ASSUME NEW x \in Seq(Places)
  PROVE  Len(x) \in Nat /\ \A m \in 1..Len(x) : x[m] \in Nat /\ x[m] > 0
  BY DEF Places

(* What AddIndex adds. *)
LEMMA AddedIs ==
  ASSUME NEW x \in Seq(Places), NEW p \in Places, NEW y, y = Append(x, p)
  PROVE  /\ y \in Seq(Places) /\ Len(y) = Len(x) + 1 /\ y[Len(x) + 1] = p
         /\ \A m \in 1..Len(x) : y[m] = x[m]
  OBVIOUS

(* The scan passes a symbol that is not a quote. *)
LEMMA OutsideSkip ==
  ASSUME NEW s, NEW x \in Seq(Places), NEW p \in Places, Outside(s, x, p), s[p] \notin Quotes
  PROVE  Outside(s, x, p + 1)
<1>1. p \in Nat /\ p > 0 /\ (p + 1) - 1 = p /\ Len(x) \in Nat
  BY PlacesIs DEF Places
<1>2. \A k \in 1..p : k \in 1..p - 1 \/ k = p
  BY <1>1
<1>3. \A k \in 1..p - 1 : k \in 1..p
  BY <1>1
<1>4. Marks(s, x, 0, 1, p - 1) /\ Enclosed(s, x, 0, 1, p - 1) /\ ~Odd(Len(x))
  BY DEF Outside
<1>5. Marks(s, x, 0, 1, p)
  BY <1>3, <1>4 DEF Marks
<1>6. Enclosed(s, x, 0, 1, p)
  BY <1>2, <1>4 DEF Enclosed
<1> QED BY <1>1, <1>4, <1>5, <1>6 DEF Outside

(* It comes to the opening quote of a pair. *)
LEMMA OutsideOpen ==
  ASSUME NEW s, NEW x \in Seq(Places), NEW p \in Places, Outside(s, x, p), s[p] \in Quotes,
         NEW y, y = Append(x, p)
  PROVE  Inside(s, y, p + 1, s[p])
<1> DEFINE n == Len(x)
<1>1. p \in Nat /\ p > 0 /\ (p + 1) - 1 = p /\ n \in Nat
  BY PlacesIs DEF Places
<1>2. /\ Len(y) = n + 1 /\ y[n + 1] = p /\ \A m \in 1..n : y[m] = x[m]
  BY AddedIs
<1>3. /\ ~Odd(n) /\ Enclosed(s, x, 0, 1, p - 1)
      /\ \A m \in 1..n : x[m] \in 1..p - 1 /\ s[x[m]] \in Quotes
      /\ \A m \in 1..n - 1 : x[m] < x[m + 1]
      /\ \A m \in 1..n - 1 : Odd(m) => s[x[m]] = s[x[m + 1]]
  <2>1. \A m \in 1..n : x[m] - 0 = x[m] /\ m \in 0 + 1..n
    BY <1>1, PlacesIs
  <2>2. \A m \in 1..n - 1 : m \in 1..n /\ m + 1 \in 1..n /\ m \in 0 + 1..n - 1
    BY <1>1
  <2> HIDE DEF n
  <2>3. ~Odd(n) /\ Enclosed(s, x, 0, 1, p - 1) /\ Marks(s, x, 0, 1, p - 1)
    BY DEF Outside, n
  <2> QED BY <2>1, <2>2, <2>3 DEF Marks, n
<1> HIDE DEF n
<1>4. \A m \in 1..n + 1 : m \in 1..n \/ m = n + 1
  BY <1>1
<1>5. \A m \in 1..n : (m \in 1..n - 1 /\ m + 1 \in 1..n) \/ m = n
  BY <1>1
<1>6. Odd(n + 1)
  BY <1>1, <1>3, OddStep
<1>7. \A m \in 1..n + 1 : y[m] \in 1..p /\ s[y[m]] \in Quotes
  <2>1. \A m \in 1..n : y[m] \in 1..p
    BY <1>1, <1>2, <1>3
  <2> QED BY <1>1, <1>2, <1>3, <1>4, <2>1
<1>8. \A m \in 1..n : y[m] < y[m + 1]
  <2>1. \A m \in 1..n - 1 : m \in 1..n /\ m + 1 \in 1..n
    BY <1>1
  <2>2. \A m \in 1..n - 1 : y[m] < y[m + 1]
    BY <1>2, <1>3, <2>1
  <2>3. n \in 1..n => y[n] < y[n + 1]
    BY <1>1, <1>2, <1>3
  <2> QED BY <1>5, <2>2, <2>3
<1>9. \A m \in 1..n : Odd(m) => s[y[m]] = s[y[m + 1]]
  BY <1>2, <1>3, <1>5
<1>10. Marks(s, y, 0, 1, (p + 1) - 1)
  <2>0. \A m \in 0 + 1..n + 1 : m \in 1..n + 1
    BY <1>1
  <2>1. \A m \in 0 + 1..n + 1 : y[m] - 0 = y[m] /\ m \in 1..n + 1
    <3>1. \A m \in 1..n + 1 : y[m] \in Int
      <4>1. \A m \in 1..n + 1 : y[m] \in 1..p
        BY <1>7, Zenon
      <4>2. \A l \in 1..p : l \in Int
        BY <1>1
      <4> QED BY <4>1, <4>2, Zenon
    <3>2. \A m \in 1..n + 1 : y[m] - 0 = y[m]
      BY <3>1, MinusZero, Zenon
    <3> QED BY <2>0, <3>2
  <2>2. (n + 1) - 1 = n
    BY <1>1
  <2>3. \A m \in 0 + 1..n : m \in 1..n /\ m \in 0 + 1..n + 1 /\ m + 1 \in 0 + 1..n + 1
    BY <1>1
  <2> QED BY <1>1, <1>2, <1>7, <1>8, <1>9, <2>1, <2>2, <2>3 DEF Marks
<1>11. Enclosed(s, y, 0, 1, p - 1)
  <2> SUFFICES ASSUME NEW k \in 1..p - 1, s[k] \in Quotes
               PROVE  \E m \in 0 + 1..Len(y) - 1 : Odd(m) /\ y[m] - 0 <= k /\ k <= y[m + 1] - 0
    BY DEF Enclosed
  <2>1. PICK m \in 0 + 1..n - 1 : Odd(m) /\ x[m] - 0 <= k /\ k <= x[m + 1] - 0
    BY <1>3 DEF Enclosed, n
  <2>2. m \in 1..n /\ m + 1 \in 1..n /\ m \in 0 + 1..Len(y) - 1
    BY <1>1, <1>2
  <2> QED BY <1>2, <2>1, <2>2
<1> QED BY <1>2, <1>6, <1>10, <1>11 DEF Inside

(* Between the quotes of a pair the string behind p does not matter, and   *)
(* p may move on.                                                          *)
LEMMA InsideReplace ==
  ASSUME NEW s, NEW x \in Seq(Places), NEW p \in Places, NEW o, Inside(s, x, p, o),
         NEW r, \A k \in 1..p - 1 : r[k] = s[k], NEW q \in Places, p <= q
  PROVE  Inside(r, x, q, o)
<1> DEFINE n == Len(x)
<1>1. p \in Nat /\ p > 0 /\ q \in Nat /\ n \in Nat
  BY PlacesIs DEF Places
<1>2. /\ Odd(n) /\ Marks(s, x, 0, 1, p - 1)
      /\ Enclosed(s, x, 0, 1, x[n] - 1) /\ s[x[n]] = o
  BY DEF Inside
<1>3. n \in 1..n
  BY <1>1, <1>2, OddStep
<1>4. \A m \in 1..n : x[m] - 0 = x[m] /\ x[m] \in Nat /\ m \in 0 + 1..n
  BY <1>1, PlacesIs
<1>5. \A m \in 1..n : x[m] \in 1..p - 1 /\ s[x[m]] \in Quotes
  BY <1>2, <1>4 DEF Marks, n
<1> HIDE DEF n
<1>6. \A k \in 1..p - 1 : k \in 1..q - 1
  BY <1>1
<1>7. \A m \in 1..n : r[x[m]] = s[x[m]] /\ x[m] \in 1..q - 1
  BY <1>5, <1>6
<1>8. Marks(r, x, 0, 1, q - 1)
  <2>1. \A m \in 0 + 1..n : m \in 1..n
    BY <1>1
  <2>2. \A m \in 0 + 1..n - 1 : m \in 1..n /\ m + 1 \in 1..n
    BY <1>1
  <2> QED BY <1>2, <1>4, <1>5, <1>7, <2>1, <2>2 DEF Marks, n
<1>9. Enclosed(r, x, 0, 1, x[n] - 1)
  <2>1. \A k \in 1..x[n] - 1 : k \in 1..p - 1
    BY <1>1, <1>3, <1>4, <1>5
  <2> QED BY <1>2, <2>1 DEF Enclosed, n
<1>10. r[x[n]] = o
  BY <1>2, <1>3, <1>7
<1> QED BY <1>2, <1>8, <1>9, <1>10 DEF Inside, n

(* It comes to the closing quote. *)
LEMMA InsideClose ==
  ASSUME NEW s, NEW x \in Seq(Places), NEW p \in Places, NEW o \in Quotes, Inside(s, x, p, o),
         s[p] = o, NEW y, y = Append(x, p)
  PROVE  Outside(s, y, p + 1)
<1> DEFINE n == Len(x)
<1>1. p \in Nat /\ p > 0 /\ (p + 1) - 1 = p /\ n \in Nat
  BY PlacesIs DEF Places
<1>2. /\ Len(y) = n + 1 /\ y[n + 1] = p /\ \A m \in 1..n : y[m] = x[m]
  BY AddedIs
<1>3. /\ Odd(n) /\ Marks(s, x, 0, 1, p - 1)
      /\ Enclosed(s, x, 0, 1, x[n] - 1) /\ s[x[n]] = o
  BY DEF Inside
<1>4. n \in 1..n
  BY <1>1, <1>3, OddStep
<1>5. \A m \in 1..n : x[m] - 0 = x[m] /\ x[m] \in Nat /\ m \in 0 + 1..n
  BY <1>1, PlacesIs
<1>6. /\ \A m \in 1..n : x[m] \in 1..p - 1 /\ s[x[m]] \in Quotes
      /\ \A m \in 1..n - 1 : x[m] < x[m + 1]
      /\ \A m \in 1..n - 1 : Odd(m) => s[x[m]] = s[x[m + 1]]
  <2>1. \A m \in 1..n - 1 : m \in 1..n /\ m + 1 \in 1..n /\ m \in 0 + 1..n - 1
    BY <1>1
  <2> QED BY <1>3, <1>5, <2>1 DEF Marks, n
<1> HIDE DEF n
<1>7. \A m \in 1..n + 1 : m \in 1..n \/ m = n + 1
  BY <1>1
<1>8. \A m \in 1..n : (m \in 1..n - 1 /\ m + 1 \in 1..n) \/ m = n
  BY <1>1
<1>9. ~Odd(n + 1)
  BY <1>1, <1>3, OddStep
<1>10. \A m \in 1..n + 1 : y[m] \in 1..p /\ s[y[m]] \in Quotes
  <2>1. \A m \in 1..n : y[m] \in 1..p
    BY <1>1, <1>2, <1>6
  <2> QED BY <1>1, <1>2, <1>6, <1>7, <2>1
<1>11. \A m \in 1..n : y[m] < y[m + 1]
  <2>0. \A m \in 1..n - 1 : m \in 1..n /\ m + 1 \in 1..n
    BY <1>1
  <2>1. \A m \in 1..n - 1 : y[m] < y[m + 1]
    BY <1>2, <1>6, <2>0
  <2>2. y[n] < y[n + 1]
    BY <1>1, <1>2, <1>4, <1>6
  <2> QED BY <1>8, <2>1, <2>2
<1>12. \A m \in 1..n : Odd(m) => s[y[m]] = s[y[m + 1]]
  <2>1. s[y[n]] = s[y[n + 1]]
    BY <1>2, <1>3, <1>4
  <2> QED BY <1>2, <1>6, <1>8, <2>1
<1>13. Marks(s, y, 0, 1, (p + 1) - 1)
  <2>0. \A m \in 0 + 1..n + 1 : m \in 1..n + 1
    BY <1>1
  <2>1. \A m \in 0 + 1..n + 1 : y[m] - 0 = y[m] /\ m \in 1..n + 1
    <3>1. \A m \in 1..n + 1 : y[m] \in Int
      <4>1. \A m \in 1..n + 1 : y[m] \in 1..p
        BY <1>10, Zenon
      <4>2. \A l \in 1..p : l \in Int
        BY <1>1
      <4> QED BY <4>1, <4>2, Zenon
    <3>2. \A m \in 1..n + 1 : y[m] - 0 = y[m]
      BY <3>1, MinusZero, Zenon
    <3> QED BY <2>0, <3>2
  <2>2. (n + 1) - 1 = n
    BY <1>1
  <2>3. \A m \in 0 + 1..n : m \in 1..n /\ m \in 0 + 1..n + 1 /\ m + 1 \in 0 + 1..n + 1
    BY <1>1
  <2> QED BY <1>1, <1>2, <1>10, <1>11, <1>12, <2>1, <2>2, <2>3, SMTT(30) DEF Marks
<1>14. Enclosed(s, y, 0, 1, (p + 1) - 1)
  <2> SUFFICES ASSUME NEW k \in 1..p, s[k] \in Quotes
               PROVE  \E m \in 0 + 1..Len(y) - 1 : Odd(m) /\ y[m] - 0 <= k /\ k <= y[m + 1] - 0
    BY <1>1 DEF Enclosed
  <2>1. CASE k < x[n]
    <3>1. k \in 1..x[n] - 1
      BY <1>4, <1>5, <2>1
    <3>2. PICK m \in 0 + 1..n - 1 : Odd(m) /\ x[m] - 0 <= k /\ k <= x[m + 1] - 0
      BY <1>3, <3>1 DEF Enclosed, n
    <3>3. m \in 1..n /\ m + 1 \in 1..n /\ m \in 0 + 1..Len(y) - 1
      BY <1>1, <1>2
    <3> QED BY <1>2, <3>2, <3>3
  <2>2. CASE ~(k < x[n])
    <3>1. x[n] <= k /\ y[n] = x[n] /\ y[n] - 0 = y[n] /\ y[n + 1] - 0 = p
      BY <1>1, <1>2, <1>4, <1>5, <2>2
    <3>2. n \in 0 + 1..Len(y) - 1
      BY <1>1, <1>2, <1>4
    <3> QED BY <1>3, <3>1, <3>2
  <2> QED BY <2>1, <2>2
<1> QED BY <1>2, <1>9, <1>13, <1>14 DEF Outside

(* quote_handling starts with the whole array. *)
LEMMA RemainingStart ==
  ASSUME NEW s, Len(s) \in Nat, NEW x \in Seq(Places), Outside(s, x, Len(s) + 1)
  PROVE  Remaining(s, x, 0, 1)
<1>1. (Len(s) + 1) - 1 = Len(s) /\ 0 <= Len(x)
  BY PlacesIs
<1> QED BY <1>1, OddStep DEF Outside, Remaining

(* What Marks says of the two entries from b + 1 on. *)
LEMMA PairIs ==
  ASSUME NEW s, Len(s) \in Nat, NEW x \in Seq(Places), NEW b \in Nat, NEW p \in Places,
         Remaining(s, x, b, p), b < Len(x)
  PROVE  /\ b + 1 < Len(x) /\ Odd(b + 1) /\ ~Odd(b + 2)
         /\ x[b + 1] - b \in p..Len(s) /\ x[b + 2] - b \in (x[b + 1] - b) + 1..Len(s)
         /\ s[x[b + 1] - b] \in Quotes /\ s[x[b + 2] - b] = s[x[b + 1] - b]
<1> DEFINE n == Len(x)
<1>1. n \in Nat /\ b \in Nat /\ p \in Nat /\ p > 0 /\ (b + 1) + 1 = b + 2
  BY PlacesIs DEF Places
<1>2. ~Odd(n) /\ ~Odd(b) /\ Marks(s, x, b, p, Len(s)) /\ b < n
  BY DEF Remaining
<1> HIDE DEF n
<1>3. Odd(b + 1) /\ ~Odd(b + 2)
  BY <1>1, <1>2, OddStep
<1>4. b + 1 < n
  <2>1. b + 1 # n
    BY <1>2, <1>3
  <2> QED BY <1>1, <1>2, <2>1
<1>5. /\ b + 1 \in b + 1..n /\ b + 2 \in b + 1..n /\ b + 1 \in b + 1..n - 1
      /\ b + 1 \in 1..n /\ b + 2 \in 1..n
  BY <1>1, <1>4
<1>6. x[b + 1] \in Nat /\ x[b + 2] \in Nat
  BY <1>5, PlacesIs DEF n
<1>7. x[b + 1] - b \in p..Len(s) /\ x[b + 2] - b \in p..Len(s) /\ s[x[b + 1] - b] \in Quotes
  BY <1>2, <1>5 DEF Marks, n
<1>8. x[b + 1] < x[b + 2] /\ s[x[b + 1] - b] = s[x[b + 2] - b]
  BY <1>1, <1>2, <1>3, <1>5 DEF Marks, n
<1>9. x[b + 2] - b \in (x[b + 1] - b) + 1..Len(s)
  <2> DEFINE u == x[b + 1]
             v == x[b + 2]
             l == Len(s)
  <2>1. u \in Nat /\ v \in Nat /\ l \in Nat /\ v - b \in p..l /\ u < v
    BY <1>6, <1>7, <1>8
  <2> HIDE DEF u, v, l
  <2>2. v - b \in (u - b) + 1..l
    BY ONLY <1>1, <2>1
  <2> QED BY <2>2 DEF u, v, l
<1> QED BY <1>3, <1>4, <1>7, <1>8, <1>9 DEF n

LEMMA Increasing ==
  ASSUME NEW x \in Seq(Places), NEW b \in Nat, NEW m \in b + 1..Len(x),
         \A k \in b + 1..Len(x) - 1 : x[k] < x[k + 1]
  PROVE  \A k \in m..Len(x) : x[m] <= x[k]
<1> DEFINE n == Len(x)
           S == {d \in 0..n - m : x[m] <= x[m + d]}
<1>1. n \in Nat /\ m \in 1..n
  BY PlacesIs
<1>2. \A k \in 1..n : x[k] \in Nat
  BY PlacesIs
<1>3. 0 \in S
  <2>1. m + 0 = m /\ 0 \in 0..n - m
    BY <1>1
  <2> QED BY <1>1, <1>2, <2>1
<1>4. ASSUME NEW d \in 0..(n - m) - 1, d \in S PROVE d + 1 \in S
  <2>1. m + d \in 1..n /\ m + (d + 1) \in 1..n /\ m + d \in b + 1..n - 1 /\ d + 1 \in 0..n - m
        /\ (m + d) + 1 = m + (d + 1)
    BY <1>1
  <2>2. x[m + d] < x[m + (d + 1)] /\ x[m] <= x[m + d]
    BY <1>4, <2>1
  <2> QED BY <1>1, <1>2, <2>1, <2>2
<1>5. \A d \in 0..n - m : d \in S
  <2>1. n - m \in Nat
    BY <1>1
  <2> HIDE DEF S
  <2> QED BY <1>3, <1>4, <2>1, Upward
<1>6. \A k \in m..n : k - m \in 0..n - m /\ m + (k - m) = k
  BY <1>1
<1> QED BY <1>5, <1>6

(* A quote that quote_handling meets is the next of the array. *)
LEMMA RemainingAt ==
  ASSUME NEW s, Len(s) \in Nat, NEW x \in Seq(Places), NEW b \in Nat, NEW p \in Places,
         Remaining(s, x, b, p), p <= Len(s), s[p] \in Quotes
  PROVE  b < Len(x) /\ x[b + 1] - b = p
<1> DEFINE n == Len(x)
<1>1. n \in Nat /\ p \in Nat /\ p \in p..Len(s)
  BY PlacesIs DEF Places
<1>2. PICK m \in b + 1..n - 1 : x[m] - b <= p
  BY <1>1 DEF Remaining, Enclosed
<1>3. b < n /\ b + 1 \in b + 1..n /\ m \in b + 1..n /\ b + 1 \in 1..n /\ m \in 1..n
  BY <1>1, <1>2
<1>4. x[b + 1] - b \in p..Len(s)
  BY <1>3, PairIs
<1>5. x[b + 1] <= x[m]
  <2>1. \A k \in b + 1..n - 1 : x[k] < x[k + 1]
    BY DEF Remaining, Marks
  <2>2. m \in b + 1..n
    BY <1>3
  <2> QED BY <1>3, <2>1, <2>2, Increasing
<1>6. x[b + 1] \in Nat /\ x[m] \in Nat
  BY <1>3, PlacesIs
<1> QED BY <1>1, <1>2, <1>3, <1>4, <1>5, <1>6

LEMMA RemainingSkip ==
  ASSUME NEW s, Len(s) \in Nat, NEW x \in Seq(Places), NEW b \in Nat, NEW p \in Places,
         Remaining(s, x, b, p), s[p] \notin Quotes
  PROVE  Remaining(s, x, b, p + 1)
<1>1. p \in Nat /\ Len(x) \in Nat
  BY PlacesIs DEF Places
<1>2. Marks(s, x, b, p, Len(s)) /\ Enclosed(s, x, b, p, Len(s))
  BY DEF Remaining
<1>3. \A k \in p..Len(s) : s[k] \in Quotes => k \in p + 1..Len(s)
  BY <1>1
<1>4. \A k \in p + 1..Len(s) : k \in p..Len(s)
  BY <1>1
<1>5. Marks(s, x, b, p + 1, Len(s))
  BY <1>2, <1>3 DEF Marks
<1>6. Enclosed(s, x, b, p + 1, Len(s))
  BY <1>2, <1>4 DEF Enclosed
<1> QED BY <1>5, <1>6 DEF Remaining

(* remove_quote takes the pair at p and e out of the string. *)
LEMMA RemainingRemove ==
  ASSUME NEW s \in String, NEW x \in Seq(Places), NEW b \in Nat, NEW p \in Places,
         Remaining(s, x, b, p), b < Len(x), x[b + 1] - b = p,
         NEW e, e = x[b + 2] - b, NEW r, r = RemoveAt(RemoveAt(s, e), p)
  PROVE  /\ r \in String /\ b + 2 \in Nat /\ e - 1 \in Places
         /\ Remaining(r, x, b + 2, e - 1)
<1> DEFINE n == Len(x)
           l == Len(s)
           t == RemoveAt(s, e)
<1>1. n \in Nat /\ l \in Nat /\ p \in Nat /\ p > 0
  BY PlacesIs, StringIs DEF Places
<1>2. b + 1 < n /\ ~Odd(b + 2) /\ p \in p..l /\ e \in p + 1..l
  BY <1>1, PairIs
<1>3. \A m \in 1..n : x[m] \in Nat
  BY PlacesIs
<1>4. /\ t \in String /\ Len(t) = l - 1
      /\ \A k \in 1..e - 1 : t[k] = s[k]
      /\ \A k \in e..l - 1 : t[k] = s[k + 1]
  <2>1. e \in 1..Len(s)
    BY <1>1, <1>2
  <2>2. s \in Seq(Symbols)
    BY DEF String
  <2>3. /\ t \in Seq(Symbols) /\ Len(t) = Len(s) - 1
        /\ \A k \in 1..e - 1 : t[k] = s[k]
        /\ \A k \in e..Len(s) - 1 : t[k] = s[k + 1]
    <3>1. t = RemoveAt(s, e)
      OBVIOUS
    <3> HIDE DEF t, n, l
    <3> QED BY ONLY <2>1, <2>2, <3>1, RemoveIs
  <2> QED BY <2>3 DEF String
<1>5. /\ r \in String /\ Len(r) = l - 2
      /\ \A k \in p..l - 2 : r[k] = t[k + 1]
  <2>1. p \in 1..Len(t)
    BY <1>1, <1>2, <1>4
  <2>2. /\ r \in String /\ Len(r) = Len(t) - 1
        /\ \A k \in p..Len(t) - 1 : r[k] = t[k + 1]
    <3> HIDE DEF t
    <3>1. r = RemoveAt(t, p)
      BY DEF t
    <3>2. t \in Seq(Symbols)
      BY <1>4 DEF String
    <3> HIDE DEF String
    <3>3. /\ RemoveAt(t, p) \in Seq(Symbols) /\ Len(RemoveAt(t, p)) = Len(t) - 1
          /\ \A k \in p..Len(t) - 1 : RemoveAt(t, p)[k] = t[k + 1]
      BY <2>1, <3>2, RemoveIs
    <3> QED BY <3>1, <3>3 DEF String
  <2>3. Len(t) - 1 = l - 2
    BY <1>1, <1>4
  <2> QED BY <2>2, <2>3
<1> HIDE DEF t, l, n
<1>6. \A k \in e - 1..l - 2 : r[k] = s[k + 2]
  <2> SUFFICES ASSUME NEW k \in e - 1..l - 2 PROVE r[k] = s[k + 2]
    OBVIOUS
  <2>1. k \in p..l - 2 /\ k + 1 \in e..l - 1 /\ (k + 1) + 1 = k + 2
    BY <1>1, <1>2
  <2> QED BY <1>4, <1>5, <2>1
<1>7. Marks(s, x, b, p, l) /\ Enclosed(s, x, b, p, l) /\ ~Odd(n)
  BY DEF Remaining, l, n
<1>8. \A m \in (b + 2) + 1..n : /\ m \in b + 1..n /\ m \in 1..n /\ b + 2 \in 1..n
                                /\ b + 2 \in b + 1..n - 1 /\ (b + 2) + 1 \in (b + 2) + 1..n
                                /\ (b + 2) + 1 \in b + 1..n
  BY <1>1, <1>2
(* The entries behind the pair, in the old string and in the new one. *)
<1>9. ASSUME NEW m \in (b + 2) + 1..n
      PROVE  /\ x[m] - (b + 2) \in e - 1..l - 2 /\ (x[m] - (b + 2)) + 2 = x[m] - b
             /\ s[x[m] - b] \in Quotes /\ r[x[m] - (b + 2)] = s[x[m] - b]
  <2>1. \A k \in b + 1..n - 1 : x[k] < x[k + 1]
    BY <1>7 DEF Marks, n
  <2>2. x[b + 2] < x[(b + 2) + 1]
    BY <1>8, <2>1
  <2>3. x[(b + 2) + 1] <= x[m]
    <3>1. (b + 2) + 1 \in b + 1..n /\ m \in (b + 2) + 1..n
      BY <1>8
    <3> QED BY <2>1, <3>1, Increasing DEF n
  <2>4. x[m] - b \in p..l /\ s[x[m] - b] \in Quotes
    BY <1>7, <1>8 DEF Marks, n
  <2>5. x[m] \in Nat /\ x[b + 2] \in Nat /\ x[(b + 2) + 1] \in Nat
    <3>1. (b + 2) + 1 \in 1..n
      BY <1>1, <1>8
    <3> QED BY <1>3, <1>8, <3>1
  <2> DEFINE u == x[m]
             v == x[b + 2]
  <2>6. /\ u \in Nat /\ v \in Nat /\ u > v /\ u - b \in p..l /\ e = v - b
        /\ b \in Nat /\ l \in Nat /\ e \in Int /\ p \in Nat
    BY <1>1, <1>2, <2>2, <2>3, <2>4, <2>5, SMTT(30)
  <2> HIDE DEF u, v
  <2>7. u - (b + 2) \in e - 1..l - 2 /\ (u - (b + 2)) + 2 = u - b
    BY ONLY <2>6
  <2> USE DEF u
  <2> QED BY <1>6, <2>4, <2>7
<1>10. \A m \in (b + 2) + 1..n - 1 :
         m \in (b + 2) + 1..n /\ m + 1 \in (b + 2) + 1..n /\ m \in b + 1..n - 1
  BY <1>1
<1>11. Marks(r, x, b + 2, e - 1, l - 2)
  <2>1. \A m \in (b + 2) + 1..n :
          x[m] - (b + 2) \in e - 1..l - 2 /\ r[x[m] - (b + 2)] \in Quotes
    BY <1>9
  <2>2. \A m \in (b + 2) + 1..n - 1 : x[m] < x[m + 1]
    BY <1>7, <1>10 DEF Marks, n
  <2>3. \A m \in (b + 2) + 1..n - 1 : Odd(m) => r[x[m] - (b + 2)] = r[x[m + 1] - (b + 2)]
    <3>1. \A m \in (b + 2) + 1..n - 1 : Odd(m) => s[x[m] - b] = s[x[m + 1] - b]
      BY <1>7, <1>10 DEF Marks, n
    <3> QED BY <1>9, <1>10, <3>1
  <2> QED BY <2>1, <2>2, <2>3 DEF Marks, n
<1>12. Enclosed(r, x, b + 2, e - 1, l - 2)
  <2> SUFFICES ASSUME NEW k \in e - 1..l - 2, r[k] \in Quotes
               PROVE  \E m \in (b + 2) + 1..n - 1 :
                        Odd(m) /\ x[m] - (b + 2) <= k /\ k <= x[m + 1] - (b + 2)
    BY DEF Enclosed, n
  <2>1. k + 2 \in p..l /\ s[k + 2] \in Quotes /\ k + 2 > e
    BY <1>1, <1>2, <1>6
  <2>2. PICK m \in b + 1..n - 1 : Odd(m) /\ x[m] - b <= k + 2 /\ k + 2 <= x[m + 1] - b
    BY <1>7, <2>1 DEF Enclosed, n
  <2>3. m # b + 1
    BY <1>1, <1>2, <2>1, <2>2
  <2>4. m # b + 2
    BY <1>2, <2>2
  <2>5. m \in (b + 2) + 1..n - 1 /\ m \in 1..n /\ m + 1 \in 1..n
    BY <1>1, <2>3, <2>4
  <2>6. x[m] \in Nat /\ x[m + 1] \in Nat
    BY <1>3, <2>5
  <2> DEFINE u == x[m]
             v == x[m + 1]
  <2>8. u \in Nat /\ v \in Nat /\ k \in Int /\ b \in Nat /\ u - b <= k + 2 /\ k + 2 <= v - b
    BY <1>1, <1>2, <2>2, <2>6
  <2> HIDE DEF u, v
  <2>9. u - (b + 2) <= k /\ k <= v - (b + 2)
    BY ONLY <2>8
  <2>7. x[m] - (b + 2) <= k /\ k <= x[m + 1] - (b + 2)
    BY <2>9 DEF u, v
  <2> QED BY <2>2, <2>5, <2>7
<1>13. b + 2 <= n /\ b + 2 \in Nat /\ e - 1 \in Places
  BY <1>1, <1>2 DEF Places
<1> QED BY <1>2, <1>5, <1>7, <1>11, <1>12, <1>13 DEF Remaining, n

-----------------------------------------------------------------------------
(* The length of the array *)

(* Where a quote of t opens or closes, before position m. *)
Turns(t, m) == {k \in 1..m - 1 : OpenAt(t, k) # OpenAt(t, k + 1)}

LEMMA TurnsStep ==
  ASSUME NEW t \in String
  PROVE  /\ Cardinality(Turns(t, 1)) = 0
         /\ \A m \in 1..Len(t) + 1 :
              /\ Cardinality(Turns(t, m)) \in Nat
              /\ Cardinality(Turns(t, m)) <= Cardinality(Turns(t, Len(t) + 1))
         /\ \A m \in 1..Len(t) :
              Cardinality(Turns(t, m + 1)) =
                IF OpenAt(t, m) # OpenAt(t, m + 1) THEN Cardinality(Turns(t, m)) + 1
                                                   ELSE Cardinality(Turns(t, m))
<1>1. Len(t) \in Nat
  BY StringIs
<1>2. \A m \in 1..Len(t) + 1 : IsFiniteSet(Turns(t, m))
  <2> SUFFICES ASSUME NEW m \in 1..Len(t) + 1 PROVE IsFiniteSet(Turns(t, m))
    OBVIOUS
  <2>1. IsFiniteSet(1..m - 1)
    <3>1. 1 \in Int /\ m - 1 \in Int
      BY <1>1
    <3> QED BY <3>1, FS_Interval
  <2>2. Turns(t, m) \in SUBSET (1..m - 1)
    BY DEF Turns
  <2> QED BY <2>1, <2>2, FS_Subset
<1>3. Cardinality(Turns(t, 1)) = 0
  <2>1. Turns(t, 1) = {}
    BY DEF Turns
  <2> QED BY <2>1, FS_EmptySet
<1>4. ASSUME NEW m \in 1..Len(t) + 1
      PROVE  /\ Cardinality(Turns(t, m)) \in Nat
             /\ Cardinality(Turns(t, m)) <= Cardinality(Turns(t, Len(t) + 1))
  <2>1. Turns(t, m) \in SUBSET Turns(t, Len(t) + 1)
    <3>1. \A k \in 1..m - 1 : k \in 1..(Len(t) + 1) - 1
      BY <1>1
    <3> QED BY <3>1 DEF Turns
  <2>2. Len(t) + 1 \in 1..Len(t) + 1
    BY <1>1
  <2> QED BY <1>2, <2>1, <2>2, FS_Subset, FS_CardinalityType
<1>5. ASSUME NEW m \in 1..Len(t)
      PROVE  Cardinality(Turns(t, m + 1)) =
               IF OpenAt(t, m) # OpenAt(t, m + 1) THEN Cardinality(Turns(t, m)) + 1
                                                  ELSE Cardinality(Turns(t, m))
  <2>1. \A k : k \in 1..(m + 1) - 1 <=> k \in 1..m - 1 \/ k = m
    BY <1>1
  <2>2. m \notin Turns(t, m) /\ m \in 1..Len(t) + 1
    BY <1>1 DEF Turns
  <2>3. CASE OpenAt(t, m) # OpenAt(t, m + 1)
    <3>1. Turns(t, m + 1) = Turns(t, m) \cup {m}
      BY <2>1, <2>3 DEF Turns
    <3>2. Cardinality(Turns(t, m) \cup {m}) = Cardinality(Turns(t, m)) + 1
      BY <1>2, <2>2, FS_AddElement
    <3> QED BY <2>3, <3>1, <3>2
  <2>4. CASE OpenAt(t, m) = OpenAt(t, m + 1)
    <3>1. Turns(t, m + 1) = Turns(t, m)
      BY <2>1, <2>4 DEF Turns
    <3> QED BY <2>4, <3>1
  <2> QED BY <2>3, <2>4
<1> QED BY <1>3, <1>4, <1>5

(* What is left of s from p is what is left of t from m. *)
SameTail(s, p, t, m) ==
  Len(s) - p = Len(t) - m /\ \A d \in 0..Len(t) - m : s[p + d] = t[m + d]

(* m is the place in t that save_index has come to: n is counted in all,   *)
(* l quotes are indexed so far, the quote o is open. *)
Counts(t, m, n, l, o) ==
  /\ Balanced(t) /\ OpenAt(t, m) = o
  /\ n = Cardinality(Turns(t, Len(t) + 1)) /\ l = Cardinality(Turns(t, m))

(* t is the string that the quotes were counted in, s what became of it.   *)
Counted(s, p, n, l, o) ==
  \E t \in String : \E m \in 1..Len(t) + 1 : Counts(t, m, n, l, o) /\ SameTail(s, p, t, m)

LEMMA CountedStart ==
  ASSUME NEW s \in String, Balanced(s)
  PROVE  Counted(s, 1, Cardinality({k \in 1..Len(s) : OpenAt(s, k) # OpenAt(s, k + 1)}), 0, None)
<1>1. Len(s) \in Nat /\ 1 \in 1..Len(s) + 1 /\ (Len(s) + 1) - 1 = Len(s)
  BY StringIs
<1>2. Turns(s, Len(s) + 1) = {k \in 1..Len(s) : OpenAt(s, k) # OpenAt(s, k + 1)}
  BY <1>1 DEF Turns
<1>3. OpenAt(s, 1) = None /\ Cardinality(Turns(s, 1)) = 0
  BY <1>1, OpenAtStep, TurnsStep
<1>4. Counts(s, 1, Cardinality(Turns(s, Len(s) + 1)), 0, None)
  BY <1>3 DEF Counts
<1>5. SameTail(s, 1, s, 1)
  BY DEF SameTail
<1> QED BY <1>1, <1>2, <1>4, <1>5 DEF Counted

(* Neither array nor string is overrun, and at the end all is indexed. *)
LEMMA CountedBounds ==
  ASSUME NEW s, Len(s) \in Nat, NEW p \in Places, NEW n, NEW l, NEW o, Counted(s, p, n, l, o)
  PROVE  /\ n \in Nat /\ l \in Nat /\ l <= n /\ p <= Len(s) + 1
         /\ p = Len(s) + 1 => o = None /\ l = n
<1>t. PICK t \in String : \E m \in 1..Len(t) + 1 : Counts(t, m, n, l, o) /\ SameTail(s, p, t, m)
  BY DEF Counted
<1>1. PICK m \in 1..Len(t) + 1 : Counts(t, m, n, l, o) /\ SameTail(s, p, t, m)
  BY <1>t
<1>2. Len(t) \in Nat /\ m \in Nat /\ p \in Nat
  BY StringIs DEF Places
<1>3. Len(s) - p = Len(t) - m
  BY <1>1 DEF SameTail
<1>4. p <= Len(s) + 1 /\ (p = Len(s) + 1 => m = Len(t) + 1)
  BY <1>2, <1>3
<1>5. /\ Cardinality(Turns(t, m)) \in Nat
      /\ Cardinality(Turns(t, m)) <= Cardinality(Turns(t, Len(t) + 1))
      /\ Cardinality(Turns(t, Len(t) + 1)) \in Nat
  <2>1. Len(t) + 1 \in 1..Len(t) + 1
    BY <1>2
  <2> QED BY <2>1, TurnsStep
<1>6. m = Len(t) + 1 => o = None /\ l = n
  BY <1>1 DEF Counts, Balanced
<1> QED BY <1>1, <1>4, <1>5, <1>6 DEF Counts

(* One symbol on. *)
LEMMA CountedStep ==
  ASSUME NEW s \in String, NEW p \in 1..Len(s), NEW n, NEW l, NEW o, Counted(s, p, n, l, o)
  PROVE  Counted(s, p + 1, n, IF Next1(s, p, o) # o THEN l + 1 ELSE l, Next1(s, p, o))
<1>t. PICK t \in String : \E m \in 1..Len(t) + 1 : Counts(t, m, n, l, o) /\ SameTail(s, p, t, m)
  BY DEF Counted
<1>1. PICK m \in 1..Len(t) + 1 : Counts(t, m, n, l, o) /\ SameTail(s, p, t, m)
  BY <1>t
<1>2. Len(t) \in Nat /\ Len(s) \in Nat /\ m \in Nat /\ p \in Nat
  BY StringIs
<1>3. Len(s) - p = Len(t) - m /\ \A d \in 0..Len(t) - m : s[p + d] = t[m + d]
  BY <1>1 DEF SameTail
<1>4. m \in 1..Len(t) /\ m + 1 \in 1..Len(t) + 1
  BY <1>2, <1>3
<1>5. s[p] = t[m]
  <2>1. 0 \in 0..Len(t) - m /\ p + 0 = p /\ m + 0 = m
    BY <1>2, <1>4
  <2> QED BY <1>3, <2>1
<1>6. OpenAt(t, m + 1) = Next1(s, p, o) /\ OpenAt(t, m) = o
  <2>1. OpenAt(t, m) = o
    BY <1>1 DEF Counts
  <2>2. OpenAt(t, m + 1) = Next1(t, m, o)
    BY <1>2, <1>4, <2>1, OpenAtStep
  <2>3. Next1(t, m, o) = Next1(s, p, o)
    BY <1>5 DEF Next1
  <2> QED BY <2>1, <2>2, <2>3
<1>7. Cardinality(Turns(t, m + 1)) = IF Next1(s, p, o) # o THEN l + 1 ELSE l
  <2>1. l = Cardinality(Turns(t, m))
    BY <1>1 DEF Counts
  <2> QED BY <1>4, <1>6, <2>1, TurnsStep
<1>8. Counts(t, m + 1, n, IF Next1(s, p, o) # o THEN l + 1 ELSE l, Next1(s, p, o))
  BY <1>1, <1>6, <1>7 DEF Counts
<1>9. SameTail(s, p + 1, t, m + 1)
  <2>1. Len(s) - (p + 1) = Len(t) - (m + 1)
    BY <1>2, <1>3
  <2>2. \A d \in 0..Len(t) - (m + 1) : /\ d + 1 \in 0..Len(t) - m
                                       /\ p + (d + 1) = (p + 1) + d /\ m + (d + 1) = (m + 1) + d
    BY <1>2
  <2>3. ASSUME NEW d \in 0..Len(t) - (m + 1) PROVE s[(p + 1) + d] = t[(m + 1) + d]
    <3>1. s[p + (d + 1)] = t[m + (d + 1)]
      BY <1>3, <2>2, Zenon
    <3> QED BY <2>2, <3>1, Zenon
  <2> QED BY <2>1, <2>3 DEF SameTail
<1> QED BY <1>4, <1>8, <1>9 DEF Counted

(* A reference is replaced, and the scan goes on behind its value. *)
LEMMA CountedReplace ==
  ASSUME NEW s \in String, NEW p \in 1..Len(s), NEW n, NEW l, NEW o, Counted(s, p, n, l, o),
         Next1(s, p, o) = o, NEW w \in String, NEW r, Len(r) = Len(s) - 1 + Len(w),
         \A k \in p + 1..Len(s) : r[k - 1 + Len(w)] = s[k]
  PROVE  Counted(r, p + Len(w), n, l, o)
<1>1. Counted(s, p + 1, n, l, o)
  BY CountedStep
<1>t. PICK t \in String : \E m \in 1..Len(t) + 1 : Counts(t, m, n, l, o) /\ SameTail(s, p + 1, t, m)
  BY <1>1 DEF Counted
<1>2. PICK m \in 1..Len(t) + 1 : Counts(t, m, n, l, o) /\ SameTail(s, p + 1, t, m)
  BY <1>t
<1>3. Len(t) \in Nat /\ Len(s) \in Nat /\ Len(w) \in Nat /\ m \in Nat /\ p \in Nat
  BY StringIs
<1>4. Len(s) - (p + 1) = Len(t) - m /\ \A d \in 0..Len(t) - m : s[(p + 1) + d] = t[m + d]
  BY <1>2 DEF SameTail
<1>5. Len(r) - (p + Len(w)) = Len(t) - m
  BY <1>3, <1>4
<1>6. ASSUME NEW d \in 0..Len(t) - m PROVE r[(p + Len(w)) + d] = t[m + d]
  <2> DEFINE k == (p + 1) + d
  <2>0. d \in Nat /\ d <= Len(t) - m /\ Len(s) - (p + 1) = Len(t) - m
    BY <1>3, <1>4
  <2>1. k \in p + 1..Len(s) /\ k - 1 + Len(w) = (p + Len(w)) + d
    BY ONLY <1>3, <2>0
  <2>2. r[k - 1 + Len(w)] = s[k]
    <3> HIDE DEF k
    <3> QED BY <2>1
  <2>3. s[k] = t[m + d]
    BY <1>4
  <2> QED BY <2>1, <2>2, <2>3
<1>7. SameTail(r, p + Len(w), t, m)
  BY <1>5, <1>6 DEF SameTail
<1> QED BY <1>2, <1>7 DEF Counted

-----------------------------------------------------------------------------
(* The invariant of save_index and quote_handling *)

Token == [op : BOOLEAN, str : String, index : Seq(Places)]

TypeInv ==
  /\ val \in [Refs -> String] /\ tokens \in Seq(Token)
  /\ at \in Places /\ i \in Places /\ j \in Nat /\ room \in Nat
  /\ open \in OpenValues
  /\ pc \in {"plain", "split", "outer", "inner", "strip"} => at <= Len(tokens)

IndexInv ==
  /\ \A k \in at + 1..Len(tokens) : tokens[k].index = <<>>
  /\ pc \in {"visit", "plain", "split", "count"} /\ at <= Len(tokens) => Index = <<>>
  /\ pc # "inner" => open = None
  /\ pc = "outer" => Outside(Str, Index, i) /\ Counted(Str, i, room, Len(Index), None)
  /\ pc = "inner" =>
       open \in Quotes /\ Inside(Str, Index, i, open) /\ Counted(Str, i, room, Len(Index), open)
  /\ pc = "handle" /\ at <= Len(tokens) /\ Index # <<>> =>
       Len(Index) = room /\ Outside(Str, Index, Len(Str) + 1)
  /\ pc = "strip" /\ Index # <<>> => Remaining(Str, Index, j, i)

LEMMA TokenIs ==
  ASSUME TypeInv, at <= Len(tokens)
  PROVE  /\ at \in 1..Len(tokens) /\ Len(tokens) \in Nat
         /\ tokens[at] \in Token /\ Str \in String /\ Index \in Seq(Places)
         /\ Len(Str) \in Nat /\ Len(Index) \in Nat
<1>1. at \in 1..Len(tokens) /\ Len(tokens) \in Nat
  BY DEF TypeInv, Places
<1>2. tokens[at] \in Token
  BY <1>1 DEF TypeInv
<1>3. Str \in String /\ Index \in Seq(Places)
  BY <1>2 DEF Token, Str, Index
<1> QED BY <1>1, <1>2, <1>3, StringIs, PlacesIs

(* The string of the word is replaced. *)
LEMMA SetStrIs ==
  ASSUME TypeInv, at <= Len(tokens), NEW s \in String, SetStr(s), at' = at
  PROVE  /\ tokens' \in Seq(Token) /\ Len(tokens') = Len(tokens)
         /\ Str' = s /\ Index' = Index /\ tokens'[at].op = tokens[at].op
         /\ \A k \in 1..Len(tokens) : k # at => tokens'[k] = tokens[k]
<1> DEFINE u == [tokens[at] EXCEPT !.str = s]
<1>1. at \in 1..Len(tokens) /\ tokens[at] \in Token /\ tokens \in Seq(Token)
  BY TokenIs DEF TypeInv
<1>2. u \in Token /\ u.str = s /\ u.index = tokens[at].index /\ u.op = tokens[at].op
  BY <1>1 DEF Token
<1>3. tokens' = [tokens EXCEPT ![at] = u]
  BY DEF SetStr
<1> HIDE DEF u
<1>4. /\ tokens' \in Seq(Token) /\ Len(tokens') = Len(tokens) /\ tokens'[at] = u
      /\ \A k \in 1..Len(tokens) : k # at => tokens'[k] = tokens[k]
  BY <1>1, <1>2, <1>3
<1> QED BY <1>2, <1>4 DEF Str, Index

(* A place is added to the array of the word. *)
LEMMA AddIndexIs ==
  ASSUME TypeInv, at <= Len(tokens), AddIndex, at' = at
  PROVE  /\ tokens' \in Seq(Token) /\ Len(tokens') = Len(tokens)
         /\ Str' = Str /\ Index' = Append(Index, i) /\ tokens'[at].op = tokens[at].op
         /\ \A k \in 1..Len(tokens) : k # at => tokens'[k] = tokens[k]
<1> DEFINE x == Append(tokens[at].index, i)
           u == [tokens[at] EXCEPT !.index = x]
<1>1. at \in 1..Len(tokens) /\ tokens[at] \in Token /\ tokens \in Seq(Token)
  BY TokenIs DEF TypeInv
<1>2. x \in Seq(Places)
  BY <1>1 DEF Token, TypeInv
<1>3. tokens' = [tokens EXCEPT ![at] = u]
  BY DEF AddIndex
<1> HIDE DEF x
<1>4. u \in Token /\ u.index = x /\ u.str = tokens[at].str /\ u.op = tokens[at].op
  BY <1>1, <1>2 DEF Token
<1> HIDE DEF u
<1>5. /\ tokens' \in Seq(Token) /\ Len(tokens') = Len(tokens) /\ tokens'[at] = u
      /\ \A k \in 1..Len(tokens) : k # at => tokens'[k] = tokens[k]
  BY <1>1, <1>3, <1>4
<1> QED BY <1>4, <1>5 DEF Str, Index, x

(* The reference at i is replaced by its value. *)
LEMMA SubstituteIs ==
  ASSUME TypeInv, at <= Len(tokens), i <= Len(Str), Str[i] \in Refs
  PROVE  /\ val[Str[i]] \in String /\ Len(val[Str[i]]) \in Nat /\ i \in 1..Len(Str)
         /\ Substitute(Str, i) \in String /\ Replaced(Str, val[Str[i]], i, Substitute(Str, i))
<1> DEFINE w == val[Str[i]]
           s == Str
           r == Substitute(Str, i)
<1>1. w \in String /\ s \in String /\ Len(s) \in Nat /\ Len(w) \in Nat
  BY TokenIs, StringIs DEF TypeInv
<1>2. i \in 1..Len(s)
  BY <1>1 DEF TypeInv, Places
<1>3. r = SubSeq(s, 1, i - 1) \o w \o SubSeq(s, i + 1, Len(s))
  BY DEF Substitute
<1> HIDE DEF s, w, r
<1>4. s \in Seq(Symbols) /\ w \in Seq(Symbols)
  BY <1>1 DEF String
<1>5. r \in Seq(Symbols) /\ Replaced(s, w, i, r)
  BY <1>2, <1>3, <1>4, ReplaceIs
<1> QED BY <1>1, <1>2, <1>5 DEF s, w, r, String

LEMMA InvInit == Init => TypeInv /\ IndexInv
<1> SUFFICES ASSUME Init PROVE TypeInv /\ IndexInv
  OBVIOUS
<1>1. val \in [Refs -> String]
  BY ExpansionAssumption DEF Init, String
<1>2. typed \in Seq([op : BOOLEAN, str : String])
  BY LinesAssumption DEF Init, String
<1>3. ASSUME NEW k \in 1..Len(typed)
      PROVE  typed[k].op \in BOOLEAN /\ typed[k].str \in String
  <2> DEFINE A == [op : BOOLEAN, str : String]
  <2>1. typed \in Seq(A)
    BY <1>2
  <2> HIDE DEF A
  <2>2. typed[k] \in A
    BY <2>1
  <2> QED BY <2>2 DEF A
<1>4. <<>> \in Seq(Places)
  OBVIOUS
<1>5. ASSUME NEW k \in 1..Len(typed)
      PROVE  [op |-> typed[k].op, str |-> typed[k].str, index |-> <<>>] \in Token
  BY <1>3, <1>4 DEF Token
<1>6. Len(typed) \in Nat
  BY <1>2
<1>7. /\ tokens \in Seq(Token) /\ Len(tokens) = Len(typed)
      /\ \A k \in 1..Len(tokens) : tokens[k].index = <<>>
  BY <1>5, <1>6 DEF Init
<1>8. at = 1 /\ i = 1 /\ j = 0 /\ room = 0 /\ pc = "visit" /\ open = None
  BY DEF Init
<1>9. TypeInv
  BY <1>1, <1>7, <1>8 DEF TypeInv, Places, OpenValues
<1>10. IndexInv
  <2>1. \A k \in at + 1..Len(tokens) : k \in 1..Len(tokens)
    BY <1>6, <1>7, <1>8
  <2>2. at <= Len(tokens) => at \in 1..Len(tokens)
    BY <1>6, <1>7, <1>8
  <2> QED BY <1>7, <1>8, <2>1, <2>2 DEF IndexInv, Index
<1> QED BY <1>9, <1>10

IndexedInv == TypeInv /\ IndexInv

LEMMA Unmoved ==
  ASSUME UNCHANGED <<tokens, at>>
  PROVE  Str' = Str /\ Index' = Index
  BY DEF Str, Index

(* The steps that look at the word and leave it as it is. *)
LEMMA LookingSteps ==
  ASSUME IndexedInv, \/ Visit \/ Done \/ PlainQuoted \/ PlainSymbol \/ PlainEnd
                     \/ NoSplit \/ SplitOverrun \/ HandleNull
  PROVE  IndexedInv'
<1> USE DEF IndexedInv
<1>1. UNCHANGED <<tokens, at, val, j, room, open>>
  BY DEF Visit, Done, PlainQuoted, PlainSymbol, PlainEnd, NoSplit, SplitOverrun, HandleNull
<1>2. Str' = Str /\ Index' = Index
  BY <1>1, Unmoved
<1>3. i' \in Places
  <2>1. CASE PlainQuoted
    <3>1. i <= Len(Str) /\ Len(Str) \in Nat /\ pc = "plain"
      BY <2>1, TokenIs DEF PlainQuoted, TypeInv
    <3>2. i \in 1..Len(Str)
      BY <3>1 DEF TypeInv, Places
    <3>3. CloseOf(Str, i) = 0 \/ CloseOf(Str, i) \in i + 1..Len(Str)
      BY <3>1, <3>2, CloseIsNext
    <3> QED BY <2>1, <3>1, <3>2, <3>3 DEF PlainQuoted, TypeInv, Places
  <2>2. CASE ~PlainQuoted
    BY <2>2 DEF Visit, Done, PlainSymbol, PlainEnd, NoSplit, SplitOverrun, HandleNull, Go,
                TypeInv, Places
  <2> QED BY <2>1, <2>2
<1>4. /\ pc' \in {"plain", "done", "split", "handle", "count", "overrun", "crash"}
      /\ pc' \in {"plain", "split"} => at <= Len(tokens)
      /\ pc' \in {"plain", "split", "count", "handle"} /\ at <= Len(tokens) => Index = <<>>
      /\ pc # "inner"
  BY DEF Visit, Done, PlainQuoted, PlainSymbol, PlainEnd, NoSplit, SplitOverrun, HandleNull,
         Go, AfterSplit, TypeInv, IndexInv
<1>5. TypeInv'
  BY <1>1, <1>3, <1>4 DEF TypeInv
<1>6. IndexInv'
  BY <1>1, <1>2, <1>4 DEF IndexInv
<1> QED BY <1>5, <1>6

(* The steps to the next word of the list. *)
LEMMA OperatorSteps ==
  ASSUME IndexedInv, VisitOperator \/ HandleOperator
  PROVE  IndexedInv'
<1> USE DEF IndexedInv
<1>1. /\ at <= Len(tokens) /\ at' = at + 1 /\ pc' = "visit" /\ pc # "inner"
      /\ i' \in Places /\ UNCHANGED <<tokens, val, j, room, open>>
  BY DEF VisitOperator, HandleOperator, Go, TypeInv, Places
<1>2. at \in Nat /\ at > 0 /\ Len(tokens) \in Nat
  BY DEF TypeInv, Places
<1>3. TypeInv'
  BY <1>1, <1>2 DEF TypeInv, Places
<1>4. \A k \in at' .. Len(tokens') : tokens'[k].index = <<>>
  BY <1>1, <1>2 DEF IndexInv
<1>5. \A k \in at' + 1..Len(tokens') : k \in at' .. Len(tokens')
  BY <1>1, <1>2
<1>6. at' <= Len(tokens') => at' \in at' .. Len(tokens')
  BY <1>1, <1>2
<1>7. at' <= Len(tokens') => Index' = <<>>
  BY <1>4, <1>6 DEF Index
<1> QED BY <1>1, <1>3, <1>4, <1>5, <1>7 DEF IndexInv

LEMMA PlainReferenceStep ==
  ASSUME IndexedInv, PlainReference
  PROVE  IndexedInv'
<1> USE DEF IndexedInv
<1>1. /\ pc = "plain" /\ pc' = "plain" /\ at <= Len(tokens) /\ i <= Len(Str) /\ Str[i] \in Refs
      /\ SetStr(Substitute(Str, i)) /\ i' = i + Len(val[Str[i]])
      /\ UNCHANGED <<at, val, j, room, open>>
  BY DEF PlainReference, BehindValue, TypeInv
<1>2. Len(val[Str[i]]) \in Nat /\ Substitute(Str, i) \in String
  BY <1>1, SubstituteIs
<1>3. /\ tokens' \in Seq(Token) /\ Len(tokens') = Len(tokens) /\ Index' = Index
      /\ \A k \in 1..Len(tokens) : k # at => tokens'[k] = tokens[k]
  BY <1>1, <1>2, SetStrIs
<1>4. i' \in Places
  BY <1>1, <1>2 DEF TypeInv, Places
<1>5. \A k \in at + 1..Len(tokens) : k \in 1..Len(tokens) /\ k # at
  BY <1>1, TokenIs
<1>6. TypeInv'
  BY <1>1, <1>3, <1>4 DEF TypeInv
<1>7. IndexInv'
  BY <1>1, <1>3, <1>5 DEF IndexInv
<1> QED BY <1>6, <1>7

(* The pieces of a word in its place. *)
PiecesIn(ts, us, n, s) ==
  /\ Len(us) = Len(ts) - 1 + Len(Pieces(s))
  /\ \A k \in 1..n - 1 : us[k] = ts[k]
  /\ \A k \in 1..Len(Pieces(s)) : us[n - 1 + k].op = FALSE /\ us[n - 1 + k].str = Pieces(s)[k]
  /\ \A k \in n + 1..Len(ts) : us[k - 1 + Len(Pieces(s))] = ts[k]

(* What Split makes of the list: from at on, words not indexed and what    *)
(* followed. *)
LEMMA SplitIs ==
  ASSUME TypeInv, Split, pc' # "cut"
  PROVE  /\ tokens' \in Seq(Token) /\ Len(tokens') \in Nat
         /\ Pieces(Str) # <<>> => at <= Len(tokens')
         /\ \A k \in at..Len(tokens') :
              \/ \E n \in 1..Len(Pieces(Str)) :
                   tokens'[k] = [op |-> FALSE, str |-> Pieces(Str)[n], index |-> <<>>]
              \/ \E m \in at + 1..Len(tokens) : tokens'[k] = tokens[m]
         /\ PiecesIn(tokens, tokens', at, Str)
<1> DEFINE p == Pieces(Str)
           words == [n \in 1..Len(p) |-> [op |-> FALSE, str |-> p[n], index |-> <<>>]]
           list == SubSeq(tokens, 1, at - 1) \o words \o SubSeq(tokens, at + 1, Len(tokens))
<1>1. at <= Len(tokens) /\ tokens' = list
  BY DEF Split, TypeInv
<1>2. at \in 1..Len(tokens) /\ Len(tokens) \in Nat /\ tokens \in Seq(Token) /\ at \in Nat
  BY <1>1, TokenIs DEF TypeInv
<1>3. p \in Seq(String)
  BY <1>1, TokenIs, PiecesAre
<1> HIDE DEF p
<1>4. Len(p) \in Nat /\ \A n \in 1..Len(p) : p[n] \in String
  BY <1>3
<1>5. \A n \in 1..Len(p) : [op |-> FALSE, str |-> p[n], index |-> <<>>] \in Token
  <2>1. <<>> \in Seq(Places)
    OBVIOUS
  <2> QED BY <1>4, <2>1 DEF Token
<1>6. /\ words \in Seq(Token) /\ Len(words) = Len(p)
      /\ \A n \in 1..Len(p) : words[n] = [op |-> FALSE, str |-> p[n], index |-> <<>>]
  BY <1>4, <1>5
<1>7. list = SubSeq(tokens, 1, at - 1) \o words \o SubSeq(tokens, at + 1, Len(tokens))
  OBVIOUS
<1> HIDE DEF words, list
<1>8. list \in Seq(Token) /\ Replaced(tokens, words, at, list)
  <2> DEFINE k == at
             u == tokens
  <2>1. /\ u \in Seq(Token) /\ k \in 1..Len(u)
        /\ list = SubSeq(u, 1, k - 1) \o words \o SubSeq(u, k + 1, Len(u))
    BY <1>2, <1>7
  <2> HIDE DEF k, u
  <2>2. list \in Seq(Token) /\ Replaced(u, words, k, list)
    BY <1>6, <2>1, ReplaceIs
  <2> QED BY <2>2 DEF k, u
<1>9. /\ Len(list) = Len(tokens) - 1 + Len(p)
      /\ \A n \in 1..Len(p) : list[at - 1 + n] = words[n]
      /\ \A m \in at + 1..Len(tokens) : list[m - 1 + Len(p)] = tokens[m]
  BY <1>6, <1>8 DEF Replaced
<1>10. ASSUME NEW k \in at..Len(list)
       PROVE  \/ \E n \in 1..Len(p) :
                   list[k] = [op |-> FALSE, str |-> p[n], index |-> <<>>]
              \/ \E m \in at + 1..Len(tokens) : list[k] = tokens[m]
  <2>1. k \in Int /\ at <= k /\ k <= Len(tokens) - 1 + Len(p)
    BY <1>2, <1>9
  <2>2. CASE k <= at - 1 + Len(p)
    <3> DEFINE n == k - at + 1
    <3>1. n \in 1..Len(p) /\ at - 1 + n = k
      BY <1>2, <1>4, <2>1, <2>2
    <3> HIDE DEF n
    <3> QED BY <1>6, <1>9, <3>1
  <2>3. CASE k > at - 1 + Len(p)
    <3> DEFINE m == k + 1 - Len(p)
    <3>1. m \in at + 1..Len(tokens) /\ m - 1 + Len(p) = k
      BY <1>2, <1>4, <2>1, <2>3
    <3> HIDE DEF m
    <3> QED BY <1>9, <3>1
  <2> QED BY <1>2, <1>4, <2>1, <2>2, <2>3
<1>11. p # <<>> => at <= Len(list)
  <2>1. p # <<>> => Len(p) # 0
    BY <1>3
  <2> QED BY <1>2, <1>4, <1>9, <2>1
<1>12. Len(list) \in Nat
  BY <1>8
<1>13. ASSUME NEW n \in 1..Len(p) PROVE list[at - 1 + n].op = FALSE /\ list[at - 1 + n].str = p[n]
  <2> DEFINE u == list[at - 1 + n]
             w == p[n]
  <2>1. u = [op |-> FALSE, str |-> w, index |-> <<>>]
    BY <1>6, <1>9
  <2> HIDE DEF u, w
  <2>2. u.op = FALSE /\ u.str = w
    BY <2>1
  <2> QED BY <2>2 DEF u, w
<1>14. PiecesIn(tokens, list, at, Str)
  BY <1>6, <1>8, <1>13 DEF PiecesIn, Replaced, p
<1> QED BY <1>1, <1>8, <1>10, <1>11, <1>12, <1>14 DEF p

LEMMA SplitCut ==
  ASSUME Split, pc' = "cut"
  PROVE  UNCHANGED <<tokens, i>>
<1>1. pc' # "cut" \/ UNCHANGED <<tokens, i>>
  BY DEF Split, Go, AfterSplit
<1> QED BY <1>1

LEMMA SplitStep ==
  ASSUME IndexedInv, Split
  PROVE  IndexedInv'
<1> USE DEF IndexedInv
<1>1. pc = "split" /\ UNCHANGED <<at, val, j, room, open>>
  BY DEF Split
<1>2. CASE pc' = "cut"
  <2>1. UNCHANGED <<tokens, i>>
    BY <1>2, SplitCut
  <2>2. Index' = Index
    BY <1>1, <2>1, Unmoved
  <2> QED BY <1>1, <1>2, <2>1, <2>2 DEF TypeInv, IndexInv
<1>3. CASE pc' # "cut"
  <2>1. pc' \in {"handle", "count"} /\ i' = 1
    BY <1>3 DEF Split, Go, AfterSplit
  <2>2. tokens' \in Seq(Token) /\ Len(tokens') \in Nat
    BY <1>3, SplitIs
  <2>3. ASSUME NEW k \in at..Len(tokens') PROVE tokens'[k].index = <<>>
    <3>1. \/ \E n \in 1..Len(Pieces(Str)) :
               tokens'[k] = [op |-> FALSE, str |-> Pieces(Str)[n], index |-> <<>>]
          \/ \E m \in at + 1..Len(tokens) : tokens'[k] = tokens[m]
      BY <1>3, SplitIs
    <3>2. ASSUME NEW w, tokens'[k] = [op |-> FALSE, str |-> w, index |-> <<>>]
          PROVE  tokens'[k].index = <<>>
      BY <3>2
    <3>3. ASSUME NEW m \in at + 1..Len(tokens), tokens'[k] = tokens[m]
          PROVE  tokens'[k].index = <<>>
      BY <3>3 DEF IndexInv
    <3> QED BY <3>1, <3>2, <3>3
  <2>4. at \in Nat /\ at > 0
    BY DEF TypeInv, Places
  <2>5. \A k \in at + 1..Len(tokens') : k \in at..Len(tokens')
    BY <2>2, <2>4
  <2>6. at <= Len(tokens') => Index' = <<>>
    <3>1. at <= Len(tokens') => at \in at..Len(tokens')
      BY <2>2, <2>4
    <3> QED BY <1>1, <2>3, <3>1 DEF Index
  <2>7. TypeInv'
    BY <1>1, <2>1, <2>2 DEF TypeInv, Places
  <2>8. IndexInv'
    BY <1>1, <2>1, <2>3, <2>5, <2>6 DEF IndexInv
  <2> QED BY <2>7, <2>8
<1> QED BY <1>2, <1>3

LEMMA CountQuotesStep ==
  ASSUME IndexedInv, CountQuotes
  PROVE  IndexedInv'
<1> USE DEF IndexedInv
<1>1. pc = "count" /\ at <= Len(tokens) /\ UNCHANGED <<tokens, at, val, j, open>>
  BY DEF CountQuotes
<1>2. Str' = Str /\ Index' = Index /\ Str \in String /\ Index = <<>> /\ open = None
  BY <1>1, Unmoved, TokenIs DEF IndexInv
<1>3. CASE ~Balanced(Str)
  <2>1. pc' = "overrun" /\ UNCHANGED <<room, i>>
    BY <1>3 DEF CountQuotes
  <2> QED BY <1>1, <1>2, <2>1 DEF TypeInv, IndexInv
<1>4. CASE Balanced(Str)
  <2> DEFINE turns == Cardinality({k \in 1..Len(Str) : OpenAt(Str, k) # OpenAt(Str, k + 1)})
  <2>1. room' = turns /\ i' = 1 /\ pc' = IF turns = 0 THEN "handle" ELSE "outer"
    BY <1>4 DEF CountQuotes, Go
  <2>2. Counted(Str, 1, turns, 0, None)
    BY <1>2, <1>4, CountedStart
  <2> HIDE DEF turns
  <2>3. turns \in Nat
    <3>1. 1 \in Places /\ Len(Str) \in Nat
      BY <1>2, StringIs DEF Places
    <3> QED BY <2>2, <3>1, CountedBounds
  <2>4. Outside(Str, <<>>, 1)
    <3>1. Len(<<>>) = 0
      OBVIOUS
    <3>2. ~Odd(Len(<<>>))
      BY <3>1, OddStep
    <3>3. Marks(Str, <<>>, 0, 1, 1 - 1) /\ Enclosed(Str, <<>>, 0, 1, 1 - 1)
      BY <3>1 DEF Marks, Enclosed
    <3> QED BY <3>2, <3>3 DEF Outside
  <2>5. Len(<<>>) = 0
    OBVIOUS
  <2>6. TypeInv'
    BY <1>1, <2>1, <2>3 DEF TypeInv, Places
  <2>7. IndexInv'
    <3>1. CASE turns = 0
      BY <1>1, <1>2, <2>1, <3>1 DEF IndexInv
    <3>2. CASE turns # 0
      BY <1>1, <1>2, <2>1, <2>2, <2>4, <2>5, <3>2 DEF IndexInv
    <3> QED BY <3>1, <3>2
  <2> QED BY <2>6, <2>7
<1> QED BY <1>3, <1>4

(* What holds wherever save_index looks at a symbol. *)
LEMMA ScanIs ==
  ASSUME IndexedInv, pc \in {"outer", "inner"}
  PROVE  /\ at <= Len(tokens) /\ Len(tokens) \in Nat /\ i + 1 \in Places
         /\ Str \in String /\ Len(Str) \in Nat /\ Index \in Seq(Places) /\ Len(Index) \in Nat
         /\ i <= Len(Str) => i \in 1..Len(Str) /\ Str[i] \in Symbols
         /\ \A k \in at + 1..Len(tokens) : k \in 1..Len(tokens) /\ k # at
<1>1. at <= Len(tokens)
  BY DEF IndexedInv, TypeInv
<1>2. /\ at \in 1..Len(tokens) /\ Len(tokens) \in Nat
      /\ Str \in String /\ Index \in Seq(Places) /\ Len(Str) \in Nat /\ Len(Index) \in Nat
  BY <1>1, TokenIs DEF IndexedInv
<1>3. i + 1 \in Places /\ (i <= Len(Str) => i \in 1..Len(Str))
  BY <1>2 DEF IndexedInv, TypeInv, Places
<1>4. \A k \in at + 1..Len(tokens) : k \in 1..Len(tokens) /\ k # at
  BY <1>2
<1> QED BY <1>1, <1>2, <1>3, <1>4, StringIs

LEMMA OpenQuoteStep ==
  ASSUME IndexedInv, OpenQuote
  PROVE  IndexedInv'
<1> USE DEF IndexedInv
<1>1. /\ pc = "outer" /\ i <= Len(Str) /\ Str[i] \in Quotes /\ AddIndex /\ open' = Str[i]
      /\ pc' = "inner" /\ i' = i + 1 /\ UNCHANGED <<val, at, j, room>>
  BY DEF OpenQuote
<1>2. /\ at <= Len(tokens) /\ i + 1 \in Places /\ Str \in String /\ Index \in Seq(Places)
      /\ i \in 1..Len(Str) /\ \A k \in at + 1..Len(tokens) : k \in 1..Len(tokens) /\ k # at
  BY <1>1, ScanIs
<1>3. /\ tokens' \in Seq(Token) /\ Len(tokens') = Len(tokens)
      /\ Str' = Str /\ Index' = Append(Index, i)
      /\ \A k \in 1..Len(tokens) : k # at => tokens'[k] = tokens[k]
  BY <1>1, <1>2, AddIndexIs
<1>4. Outside(Str, Index, i) /\ Counted(Str, i, room, Len(Index), None) /\ i \in Places
  BY <1>1 DEF IndexInv, TypeInv
<1>5. Inside(Str, Index', i + 1, Str[i])
  BY <1>1, <1>2, <1>3, <1>4, OutsideOpen
<1>6. Next1(Str, i, None) = Str[i] /\ Str[i] # None
  BY <1>1, SymbolsApart DEF Next1
<1>7. Counted(Str, i + 1, room, Len(Index) + 1, Str[i])
  BY <1>2, <1>4, <1>6, CountedStep
<1>8. Len(Index') = Len(Index) + 1
  BY <1>2, <1>3, <1>4, AddedIs
<1>9. TypeInv'
  BY <1>1, <1>2, <1>3 DEF TypeInv, OpenValues
<1>10. IndexInv'
  BY <1>1, <1>2, <1>3, <1>5, <1>7, <1>8 DEF IndexInv
<1> QED BY <1>9, <1>10

LEMMA OuterSymbolStep ==
  ASSUME IndexedInv, OuterSymbol
  PROVE  IndexedInv'
<1> USE DEF IndexedInv
<1>1. /\ pc = "outer" /\ i <= Len(Str) /\ Str[i] \notin Quotes
      /\ pc' = "outer" /\ i' = i + 1 /\ UNCHANGED <<val, tokens, at, j, open, room>>
  BY DEF OuterSymbol
<1>2. /\ at <= Len(tokens) /\ i + 1 \in Places /\ Str \in String /\ Index \in Seq(Places)
      /\ i \in 1..Len(Str) /\ Str[i] \in Symbols
  BY <1>1, ScanIs
<1>3. Str' = Str /\ Index' = Index
  BY <1>1, Unmoved
<1>4. Outside(Str, Index, i) /\ Counted(Str, i, room, Len(Index), None) /\ i \in Places
  BY <1>1 DEF IndexInv, TypeInv
<1>5. Outside(Str, Index, i + 1)
  BY <1>1, <1>2, <1>4, OutsideSkip
<1>6. Next1(Str, i, None) = None
  BY <1>1, <1>2, SymbolsApart DEF Next1
<1>7. Counted(Str, i + 1, room, Len(Index), None)
  BY <1>2, <1>4, <1>6, CountedStep
<1>8. TypeInv'
  BY <1>1, <1>2 DEF TypeInv
<1>9. IndexInv'
  BY <1>1, <1>3, <1>5, <1>7 DEF IndexInv
<1> QED BY <1>8, <1>9

LEMMA IndexEndStep ==
  ASSUME IndexedInv, IndexEnd
  PROVE  IndexedInv'
<1> USE DEF IndexedInv
<1>1. /\ pc = "outer" /\ i > Len(Str) /\ pc' = "handle" /\ i' = 1
      /\ UNCHANGED <<val, tokens, at, j, open, room>>
  BY DEF IndexEnd, Go
<1>2. Len(Str) \in Nat /\ i \in Places
  BY <1>1, ScanIs DEF TypeInv
<1>3. Str' = Str /\ Index' = Index
  BY <1>1, Unmoved
<1>4. Outside(Str, Index, i) /\ Counted(Str, i, room, Len(Index), None)
  BY <1>1 DEF IndexInv
<1>5. i = Len(Str) + 1 /\ Len(Index) = room
  <2>1. i <= Len(Str) + 1 /\ (i = Len(Str) + 1 => Len(Index) = room)
    BY <1>2, <1>4, CountedBounds
  <2>2. i \in Nat
    BY <1>2 DEF Places
  <2> QED BY <1>1, <1>2, <2>1, <2>2
<1>6. TypeInv'
  BY <1>1 DEF TypeInv, Places
<1>7. IndexInv'
  BY <1>1, <1>3, <1>4, <1>5 DEF IndexInv
<1> QED BY <1>6, <1>7

LEMMA CloseQuoteStep ==
  ASSUME IndexedInv, CloseQuote
  PROVE  IndexedInv'
<1> USE DEF IndexedInv
<1>1. /\ pc = "inner" /\ i <= Len(Str) /\ Str[i] = open /\ AddIndex /\ open' = None
      /\ pc' = "outer" /\ i' = i + 1 /\ UNCHANGED <<val, at, j, room>>
  BY DEF CloseQuote
<1>2. /\ at <= Len(tokens) /\ i + 1 \in Places /\ Str \in String /\ Index \in Seq(Places)
      /\ i \in 1..Len(Str) /\ \A k \in at + 1..Len(tokens) : k \in 1..Len(tokens) /\ k # at
  BY <1>1, ScanIs
<1>3. /\ tokens' \in Seq(Token) /\ Len(tokens') = Len(tokens)
      /\ Str' = Str /\ Index' = Append(Index, i)
      /\ \A k \in 1..Len(tokens) : k # at => tokens'[k] = tokens[k]
  BY <1>1, <1>2, AddIndexIs
<1>4. /\ open \in Quotes /\ Inside(Str, Index, i, open) /\ i \in Places
      /\ Counted(Str, i, room, Len(Index), open)
  BY <1>1 DEF IndexInv, TypeInv
<1>5. Outside(Str, Index', i + 1)
  BY <1>1, <1>2, <1>3, <1>4, InsideClose
<1>6. Next1(Str, i, open) = None /\ None # open
  BY <1>1, <1>4, SymbolsApart DEF Next1
<1>7. Counted(Str, i + 1, room, Len(Index) + 1, None)
  BY <1>2, <1>4, <1>6, CountedStep
<1>8. Len(Index') = Len(Index) + 1
  BY <1>2, <1>3, <1>4, AddedIs
<1>9. TypeInv'
  BY <1>1, <1>2, <1>3 DEF TypeInv, OpenValues
<1>10. IndexInv'
  BY <1>1, <1>2, <1>3, <1>5, <1>7, <1>8 DEF IndexInv
<1> QED BY <1>9, <1>10

LEMMA InnerSymbolStep ==
  ASSUME IndexedInv, InnerSymbol
  PROVE  IndexedInv'
<1> USE DEF IndexedInv
<1>1. /\ pc = "inner" /\ i <= Len(Str) /\ Str[i] # open
      /\ pc' = "inner" /\ i' = i + 1 /\ UNCHANGED <<val, tokens, at, j, open, room>>
  BY DEF InnerSymbol
<1>2. /\ at <= Len(tokens) /\ i + 1 \in Places /\ Str \in String /\ Index \in Seq(Places)
      /\ i \in 1..Len(Str)
  BY <1>1, ScanIs
<1>3. Str' = Str /\ Index' = Index
  BY <1>1, Unmoved
<1>4. /\ open \in Quotes /\ Inside(Str, Index, i, open) /\ i \in Places
      /\ Counted(Str, i, room, Len(Index), open)
  BY <1>1 DEF IndexInv, TypeInv
<1>5. Inside(Str, Index, i + 1, open)
  <2>1. i <= i + 1
    BY <1>4 DEF Places
  <2> QED BY <1>2, <1>4, <2>1, InsideReplace
<1>6. Next1(Str, i, open) = open
  BY <1>1, <1>4, SymbolsApart DEF Next1
<1>7. Counted(Str, i + 1, room, Len(Index), open)
  BY <1>2, <1>4, <1>6, CountedStep
<1>8. TypeInv'
  BY <1>1, <1>2 DEF TypeInv
<1>9. IndexInv'
  BY <1>1, <1>3, <1>4, <1>5, <1>7 DEF IndexInv
<1> QED BY <1>8, <1>9

LEMMA InnerReferenceStep ==
  ASSUME IndexedInv, InnerReference
  PROVE  IndexedInv'
<1> USE DEF IndexedInv
<1> DEFINE w == val[Str[i]]
           r == Substitute(Str, i)
<1>1. /\ pc = "inner" /\ i <= Len(Str) /\ Str[i] \in Refs /\ SetStr(r)
      /\ pc' = "inner" /\ i' = i + Len(w) /\ UNCHANGED <<val, at, j, open, room>>
  BY DEF InnerReference, BehindValue
<1>2. /\ at <= Len(tokens) /\ Str \in String /\ Index \in Seq(Places)
      /\ \A k \in at + 1..Len(tokens) : k \in 1..Len(tokens) /\ k # at
  BY <1>1, ScanIs
<1>3. w \in String /\ Len(w) \in Nat /\ i \in 1..Len(Str) /\ r \in String /\ Replaced(Str, w, i, r)
  BY <1>1, <1>2, SubstituteIs
<1> HIDE DEF w, r
<1>4. /\ tokens' \in Seq(Token) /\ Len(tokens') = Len(tokens) /\ Str' = r /\ Index' = Index
      /\ \A k \in 1..Len(tokens) : k # at => tokens'[k] = tokens[k]
  BY <1>1, <1>2, <1>3, SetStrIs
<1>5. /\ open \in Quotes /\ Inside(Str, Index, i, open) /\ i \in Places
      /\ Counted(Str, i, room, Len(Index), open)
  BY <1>1 DEF IndexInv, TypeInv
<1>6. i + Len(w) \in Places /\ i <= i + Len(w)
  BY <1>3, <1>5 DEF Places
<1>7. Inside(r, Index, i + Len(w), open)
  <2>1. \A p \in 1..i - 1 : r[p] = Str[p]
    BY <1>3 DEF Replaced
  <2> QED BY <1>2, <1>5, <1>6, <2>1, InsideReplace
<1>8. Counted(r, i + Len(w), room, Len(Index), open)
  <2>1. Next1(Str, i, open) = open
    BY <1>1, <1>5, SymbolsApart DEF Next1
  <2>2. Len(r) = Len(Str) - 1 + Len(w) /\ \A p \in i + 1..Len(Str) : r[p - 1 + Len(w)] = Str[p]
    BY <1>3 DEF Replaced
  <2> QED BY <1>2, <1>3, <1>5, <2>1, <2>2, CountedReplace
<1>9. TypeInv'
  BY <1>1, <1>2, <1>4, <1>6 DEF TypeInv
<1>10. IndexInv'
  BY <1>1, <1>2, <1>4, <1>5, <1>7, <1>8 DEF IndexInv
<1> QED BY <1>9, <1>10

LEMMA HandleWordStep ==
  ASSUME IndexedInv, HandleWord
  PROVE  IndexedInv'
<1> USE DEF IndexedInv
<1>1. /\ pc = "handle" /\ at <= Len(tokens) /\ pc' = "strip" /\ i' = 1 /\ j' = 0
      /\ UNCHANGED <<val, tokens, at, open, room>>
  BY DEF HandleWord, Go
<1>2. Str' = Str /\ Index' = Index /\ Len(Str) \in Nat /\ Index \in Seq(Places)
  BY <1>1, Unmoved, TokenIs
<1>3. Index # <<>> => Remaining(Str, Index, 0, 1)
  <2>1. Index # <<>> => Outside(Str, Index, Len(Str) + 1)
    BY <1>1 DEF IndexInv
  <2> QED BY <1>2, <2>1, RemainingStart
<1>4. TypeInv'
  BY <1>1 DEF TypeInv, Places
<1>5. IndexInv'
  BY <1>1, <1>2, <1>3 DEF IndexInv
<1> QED BY <1>4, <1>5

(* A quote that quote_handling meets, of an indexed word, is the opening   *)
(* quote of a pair that is still there. *)
LEMMA AtQuoteIs ==
  ASSUME IndexedInv, AtQuote
  PROVE  /\ AtIndexed /\ EndOfPair \in i + 1..Len(Str) /\ Str[EndOfPair] = Str[i]
         /\ Remaining(Str, Index, j, i) /\ j < Len(Index) /\ Index[j + 1] - j = i
<1>1. pc = "strip" /\ i <= Len(Str) /\ Str[i] \in Quotes /\ Index # <<>>
  BY DEF AtQuote
<1>2. /\ at <= Len(tokens) /\ Index \in Seq(Places) /\ Len(Str) \in Nat /\ Len(Index) \in Nat
      /\ i \in Places /\ j \in Nat
  BY <1>1, TokenIs DEF IndexedInv, TypeInv
<1>3. Remaining(Str, Index, j, i)
  BY <1>1 DEF IndexedInv, IndexInv
<1>4. j < Len(Index) /\ Index[j + 1] - j = i
  BY <1>1, <1>2, <1>3, RemainingAt
<1>5. /\ j + 1 < Len(Index) /\ Index[j + 2] - j \in (Index[j + 1] - j) + 1..Len(Str)
      /\ Str[Index[j + 2] - j] = Str[Index[j + 1] - j]
  BY <1>2, <1>3, <1>4, PairIs
<1> QED BY <1>3, <1>4, <1>5 DEF AtIndexed, AtQuote, EndOfPair

LEMMA RemovePairIs ==
  ASSUME IndexedInv, RemovePair
  PROVE  /\ at <= Len(tokens) /\ i' \in Places /\ j' \in Nat
         /\ tokens' \in Seq(Token) /\ Len(tokens') = Len(tokens)
         /\ Index' = Index /\ Remaining(Str', Index, j', i')
         /\ Str' = RemoveAt(RemoveAt(Str, EndOfPair), i) /\ tokens'[at].op = tokens[at].op
         /\ \A k \in 1..Len(tokens) : k # at => tokens'[k] = tokens[k]
<1> USE DEF IndexedInv
<1> DEFINE e == EndOfPair
           r == RemoveAt(RemoveAt(Str, e), i)
<1>1. /\ AtIndexed /\ pc = "strip" /\ SetStr(r) /\ j' = j + 2 /\ i' = e - 1 /\ at' = at
  BY DEF RemovePair, AtIndexed, AtQuote, BehindPair
<1>2. /\ at <= Len(tokens) /\ Index \in Seq(Places) /\ Str \in String /\ i \in Places /\ j \in Nat
      /\ at \in 1..Len(tokens) /\ Len(tokens) \in Nat
  BY <1>1, TokenIs DEF TypeInv
<1>3. Remaining(Str, Index, j, i) /\ j < Len(Index) /\ Index[j + 1] - j = i
  BY <1>1, AtQuoteIs DEF AtIndexed
<1>4. e = Index[j + 2] - j
  BY DEF EndOfPair
<1>5. r \in String /\ j + 2 \in Nat /\ e - 1 \in Places /\ Remaining(r, Index, j + 2, e - 1)
  <2> DEFINE s == Str
             x == Index
  <2>1. /\ s \in String /\ x \in Seq(Places) /\ Remaining(s, x, j, i) /\ j < Len(x)
        /\ x[j + 1] - j = i /\ e = x[j + 2] - j /\ r = RemoveAt(RemoveAt(s, e), i)
    BY <1>2, <1>3, <1>4
  <2> HIDE DEF s, x, e, r
  <2>2. r \in String /\ j + 2 \in Nat /\ e - 1 \in Places /\ Remaining(r, x, j + 2, e - 1)
    BY <1>2, <2>1, RemainingRemove
  <2> QED BY <2>2 DEF x
<1> HIDE DEF e, r
<1>6. /\ tokens' \in Seq(Token) /\ Len(tokens') = Len(tokens) /\ Str' = r /\ Index' = Index
      /\ tokens'[at].op = tokens[at].op
      /\ \A k \in 1..Len(tokens) : k # at => tokens'[k] = tokens[k]
  BY <1>1, <1>2, <1>5, SetStrIs
<1>7. r = RemoveAt(RemoveAt(Str, EndOfPair), i)
  BY DEF r, e
<1> QED BY <1>1, <1>2, <1>5, <1>6, <1>7

LEMMA RemovePairStep ==
  ASSUME IndexedInv, RemovePair
  PROVE  IndexedInv'
<1> USE DEF IndexedInv
<1>1. pc = "strip" /\ UNCHANGED <<val, at, pc, open, room>>
  BY DEF RemovePair, AtIndexed, AtQuote
<1>2. /\ at <= Len(tokens) /\ i' \in Places /\ j' \in Nat
      /\ tokens' \in Seq(Token) /\ Len(tokens') = Len(tokens)
      /\ Index' = Index /\ Remaining(Str', Index, j', i')
      /\ \A k \in 1..Len(tokens) : k # at => tokens'[k] = tokens[k]
  BY RemovePairIs
<1>3. \A k \in at + 1..Len(tokens) : k \in 1..Len(tokens) /\ k # at
  BY <1>2, TokenIs
<1>4. TypeInv'
  BY <1>1, <1>2 DEF TypeInv
<1>5. IndexInv'
  BY <1>1, <1>2, <1>3 DEF IndexInv
<1> QED BY <1>4, <1>5

LEMMA KeepSymbolStep ==
  ASSUME IndexedInv, KeepSymbol
  PROVE  IndexedInv'
<1> USE DEF IndexedInv
<1>1. /\ pc = "strip" /\ i <= Len(Str) /\ ~AtIndexed /\ i' = i + 1
      /\ UNCHANGED <<val, tokens, at, pc, j, open, room>>
  BY DEF KeepSymbol
<1>2. /\ at <= Len(tokens) /\ Index \in Seq(Places) /\ Len(Str) \in Nat /\ i \in Places /\ j \in Nat
  BY <1>1, TokenIs DEF TypeInv
<1>3. Str' = Str /\ Index' = Index
  BY <1>1, Unmoved
<1>4. Index # <<>> => Str[i] \notin Quotes /\ Remaining(Str, Index, j, i)
  <2>1. ~AtQuote
    BY <1>1, AtQuoteIs
  <2> QED BY <1>1, <2>1 DEF AtQuote, IndexInv
<1>5. Index # <<>> => Remaining(Str, Index, j, i + 1)
  BY <1>2, <1>4, RemainingSkip
<1>6. i + 1 \in Places
  BY <1>2 DEF Places
<1>7. TypeInv'
  BY <1>1, <1>6 DEF TypeInv
<1>8. IndexInv'
  BY <1>1, <1>3, <1>5 DEF IndexInv
<1> QED BY <1>7, <1>8

(* The list behind the finished word is as it was; an empty word is gone.  *)
LEMMA WordDoneIs ==
  ASSUME TypeInv, WordDone
  PROVE  /\ at' \in Places /\ tokens' \in Seq(Token) /\ Len(tokens') \in Nat
         /\ \A k \in at' .. Len(tokens') :
              \E m \in at + 1..Len(tokens) : tokens'[k] = tokens[m]
<1>1. /\ pc = "strip" /\ at <= Len(tokens)
      /\ IF Str = <<>> THEN tokens' = RemoveAt(tokens, at) /\ UNCHANGED at
                       ELSE at' = at + 1 /\ UNCHANGED tokens
  BY DEF WordDone, TypeInv
<1>2. /\ at \in 1..Len(tokens) /\ Len(tokens) \in Nat /\ tokens \in Seq(Token)
      /\ at \in Places /\ at \in Nat
  BY <1>1, TokenIs DEF TypeInv, Places
<1>3. CASE Str = <<>>
  <2> DEFINE u == tokens
             k == at
  <2>1. u \in Seq(Token) /\ k \in 1..Len(u)
    BY <1>2
  <2> HIDE DEF u, k
  <2>2. /\ RemoveAt(u, k) \in Seq(Token) /\ Len(RemoveAt(u, k)) = Len(u) - 1
        /\ \A p \in k..Len(u) - 1 : RemoveAt(u, k)[p] = u[p + 1]
    BY <2>1, RemoveIs
  <2>3. /\ tokens' \in Seq(Token) /\ Len(tokens') = Len(tokens) - 1 /\ at' = at
        /\ \A p \in at..Len(tokens) - 1 : tokens'[p] = tokens[p + 1]
    BY <1>1, <1>3, <2>2 DEF u, k
  <2>4. Len(tokens') \in Nat
    BY <2>3
  <2>5. \A p \in at..Len(tokens) - 1 : p + 1 \in at + 1..Len(tokens)
    BY <1>2
  <2> QED BY <1>2, <2>3, <2>4, <2>5
<1>4. CASE Str # <<>>
  BY <1>1, <1>2, <1>4 DEF Places
<1> QED BY <1>3, <1>4

LEMMA WordDoneStep ==
  ASSUME IndexedInv, WordDone
  PROVE  IndexedInv'
<1> USE DEF IndexedInv
<1>1. /\ pc = "strip" /\ pc' = "visit" /\ i' = 1 /\ UNCHANGED <<val, j, open, room>>
  BY DEF WordDone, Go
<1>2. /\ at' \in Places /\ tokens' \in Seq(Token) /\ Len(tokens') \in Nat
      /\ \A k \in at' .. Len(tokens') :
           \E m \in at + 1..Len(tokens) : tokens'[k] = tokens[m]
  BY WordDoneIs
<1>3. \A k \in at' .. Len(tokens') : tokens'[k].index = <<>>
  BY <1>2 DEF IndexInv
<1>a. at' \in Nat
  BY <1>2 DEF Places
<1>4. at' \in Nat /\ \A k \in at' + 1..Len(tokens') : k \in at' .. Len(tokens')
  <2> DEFINE a == at'
             n == Len(tokens')
  <2>1. a \in Nat /\ n \in Nat
    BY <1>2, <1>a
  <2> HIDE DEF a, n
  <2>2. \A k \in a + 1..n : k \in a..n
    BY <2>1
  <2> QED BY <1>a, <2>2 DEF a, n
<1>5. at' <= Len(tokens') => Index' = <<>>
  <2>1. at' <= Len(tokens') => at' \in at' .. Len(tokens')
    BY <1>2, <1>4
  <2> QED BY <1>3, <2>1 DEF Index
<1>6. TypeInv'
  BY <1>1, <1>2 DEF TypeInv, Places
<1>7. IndexInv'
  BY <1>1, <1>3, <1>4, <1>5 DEF IndexInv
<1> QED BY <1>6, <1>7

LEMMA IndexedStep == IndexedInv /\ [Next]_vars => IndexedInv'
<1> SUFFICES ASSUME IndexedInv, [Next]_vars PROVE IndexedInv'
  OBVIOUS
<1>1. CASE UNCHANGED vars
  BY <1>1 DEF IndexedInv, TypeInv, IndexInv, Str, Index, vars
<1>2. CASE Next
  BY <1>1, <1>2, LookingSteps, OperatorSteps, PlainReferenceStep, SplitStep, CountQuotesStep,
     OpenQuoteStep, OuterSymbolStep, IndexEndStep, CloseQuoteStep, InnerSymbolStep,
     InnerReferenceStep, HandleWordStep, RemovePairStep, KeepSymbolStep, WordDoneStep
     DEF Next, Step, Stopped
<1> QED BY <1>1, <1>2

(* What is asserted of the array follows. *)
LEMMA IndexedIsPaired == IndexedInv => IndexPaired
<1> SUFFICES ASSUME IndexedInv PROVE IndexPaired
  OBVIOUS
<1>1. ASSUME pc \in {"outer", "inner"}
      PROVE  Len(Index) <= room /\ (pc = "inner" => i <= Len(Str))
  <2>1. Len(Str) \in Nat /\ i \in Places
    BY <1>1, ScanIs DEF IndexedInv, TypeInv
  <2>2. PICK o \in OpenValues : /\ Counted(Str, i, room, Len(Index), o)
                                /\ pc = "inner" => o # None
    BY <1>1, SymbolsApart DEF IndexedInv, IndexInv, OpenValues
  <2>3. /\ Len(Index) <= room /\ i <= Len(Str) + 1
        /\ i = Len(Str) + 1 => o = None
    BY <2>1, <2>2, CountedBounds
  <2>4. pc = "inner" => i <= Len(Str)
    BY <2>1, <2>2, <2>3 DEF Places
  <2> QED BY <2>3, <2>4
<1>2. ASSUME pc = "handle", at <= Len(tokens), Index # <<>>
      PROVE  /\ Len(Index) = room
             /\ \A m \in 1..room : Str[Index[m]] \in Quotes
             /\ \A m \in 1 .. room - 1 : Index[m] < Index[m + 1]
             /\ \A m \in 1..room : m % 2 = 1 => Str[Index[m]] = Str[Index[m + 1]]
  <2>1. /\ Len(Index) = room /\ Outside(Str, Index, Len(Str) + 1)
        /\ Index \in Seq(Places) /\ room \in Nat
    BY <1>2, TokenIs DEF IndexedInv, IndexInv, TypeInv
  <2>2. ~Odd(room) /\ Marks(Str, Index, 0, 1, (Len(Str) + 1) - 1)
    BY <2>1 DEF Outside
  <2>3. \A m \in 1..room : Index[m] - 0 = Index[m] /\ m \in 0 + 1..room
    <3>1. \A m \in 1..room : Index[m] \in Int
      BY <2>1, PlacesIs
    <3> QED BY <2>1, <3>1, MinusZero
  <2>4. \A m \in 1..room - 1 : m \in 0 + 1..room - 1 /\ m \in 1..room /\ m + 1 \in 1..room
    BY <2>1
  <2>5. \A m \in 1..room : Odd(m) => m \in 1..room - 1
    BY <2>1, <2>2
  <2>6. \A m \in 1..room : Str[Index[m]] \in Quotes
    BY <2>1, <2>2, <2>3 DEF Marks
  <2>7. \A m \in 1 .. room - 1 : Index[m] < Index[m + 1]
    BY <2>1, <2>2, <2>4 DEF Marks
  <2>8. \A m \in 1..room : Odd(m) => Str[Index[m]] = Str[Index[m + 1]]
    BY <2>1, <2>2, <2>3, <2>4, <2>5 DEF Marks
  <2> QED BY <2>1, <2>6, <2>7, <2>8 DEF Odd
<1>3. ASSUME AtQuote PROVE j + 1 < Len(Index)
  BY <1>3, AtQuoteIs DEF AtIndexed
<1>4. ASSUME AtIndexed PROVE EndOfPair \in i + 1 .. Len(Str) /\ Str[EndOfPair] = Str[i]
  BY <1>4, AtQuoteIs DEF AtIndexed
<1> QED BY <1>1, <1>2, <1>3, <1>4 DEF IndexPaired

(* For words, values and lines of any length: save_index neither overruns  *)
(* its array nor leaves it unfinished, its entries pair equal quotes, and  *)
(* remove_q finds both quotes of a pair where it computes them to be.      *)
THEOREM QuotesPaired == Spec => []IndexPaired
<1>1. Init => IndexedInv
  BY InvInit DEF IndexedInv
<1> QED BY <1>1, IndexedStep, IndexedIsPaired, PTL DEF Spec

-----------------------------------------------------------------------------
(* The open quote along a string *)

LEMMA HoldsIs ==
  ASSUME NEW s \in String, NEW S
  PROVE  Holds(s, S) <=> \E k \in 1..Len(s) : s[k] \in S
<1>1. DOMAIN s = 1..Len(s)
  BY DEF String
<1> QED BY <1>1 DEF Holds, ToSet

(* What is open along equal stretches of two strings is equal. *)
LEMMA OpenAlike ==
  ASSUME NEW s \in String, NEW t \in String, NEW a \in 1..Len(s) + 1, NEW b \in 1..Len(t) + 1,
         NEW n \in Nat, a + n <= Len(s) + 1, b + n <= Len(t) + 1,
         OpenAt(s, a) = OpenAt(t, b), \A d \in 0..n - 1 : s[a + d] = t[b + d]
  PROVE  \A d \in 0..n : OpenAt(s, a + d) = OpenAt(t, b + d)
<1> DEFINE S == {d \in 0..n : OpenAt(s, a + d) = OpenAt(t, b + d)}
<1>1. Len(s) \in Nat /\ Len(t) \in Nat /\ a \in Nat /\ b \in Nat
  BY StringIs
<1>2. 0 \in S
  <2>1. a + 0 = a /\ b + 0 = b /\ 0 \in 0..n
    BY <1>1
  <2> QED BY <2>1
<1>3. ASSUME NEW d \in 0..n - 1, d \in S PROVE d + 1 \in S
  <2>1. /\ a + d \in 1..Len(s) /\ b + d \in 1..Len(t) /\ d + 1 \in 0..n
        /\ (a + d) + 1 = a + (d + 1) /\ (b + d) + 1 = b + (d + 1)
    BY <1>1
  <2>2. /\ OpenAt(s, a + (d + 1)) = Next1(s, a + d, OpenAt(s, a + d))
        /\ OpenAt(t, b + (d + 1)) = Next1(t, b + d, OpenAt(t, b + d))
    BY <1>1, <2>1, OpenAtStep
  <2>3. Next1(s, a + d, OpenAt(s, a + d)) = Next1(t, b + d, OpenAt(t, b + d))
    <3>1. s[a + d] = t[b + d] /\ OpenAt(s, a + d) = OpenAt(t, b + d)
      BY <1>3
    <3> QED BY <3>1 DEF Next1
  <2> QED BY <2>1, <2>2, <2>3
<1> HIDE DEF S
<1>4. \A d \in 0..n : d \in S
  BY <1>2, <1>3, Upward
<1> QED BY <1>4 DEF S

(* It does not change where there is no quote. *)
LEMMA OpenStays ==
  ASSUME NEW s \in String, NEW a \in 1..Len(s) + 1, NEW b \in a..Len(s) + 1,
         \A k \in a..b - 1 : s[k] \notin Quotes
  PROVE  OpenAt(s, b) = OpenAt(s, a)
<1> DEFINE n == b - a
           S == {d \in 0..n : OpenAt(s, a + d) = OpenAt(s, a)}
<1>1. Len(s) \in Nat /\ a \in Nat /\ b \in Nat /\ n \in Nat /\ a + n = b
  BY StringIs
<1>2. 0 \in S
  <2>1. a + 0 = a /\ 0 \in 0..n
    BY <1>1
  <2> QED BY <2>1
<1>3. ASSUME NEW d \in 0..n - 1, d \in S PROVE d + 1 \in S
  <2>1. /\ a + d \in 1..Len(s) /\ a + d \in a..b - 1 /\ d + 1 \in 0..n
        /\ (a + d) + 1 = a + (d + 1) /\ a + d \in 1..Len(s) + 1
    BY <1>1
  <2>2. OpenAt(s, a + (d + 1)) = Next1(s, a + d, OpenAt(s, a + d))
    BY <1>1, <2>1, OpenAtStep
  <2>3. OpenAt(s, a + d) \in OpenValues /\ s[a + d] \notin Quotes /\ s[a + d] \in Symbols
    BY <1>1, <2>1, OpenAtStep, StringIs
  <2>4. Next1(s, a + d, OpenAt(s, a + d)) = OpenAt(s, a + d)
    BY <2>3, SymbolsApart DEF Next1, OpenValues
  <2> QED BY <1>3, <2>1, <2>2, <2>4
<1> HIDE DEF S, n
<1>4. n \in S
  <2>1. n \in 0..n
    BY <1>1
  <2> QED BY <1>1, <1>2, <1>3, <2>1, Upward
<1> QED BY <1>1, <1>4 DEF S

(* The quote that opens at k stays open up to the next of its kind. *)
LEMMA QuoteStaysOpen ==
  ASSUME NEW s \in String, NEW k \in 1..Len(s), s[k] \in Quotes, OpenAt(s, k) = None,
         NEW b \in k + 1..Len(s) + 1, \A m \in k + 1..b - 1 : s[m] # s[k]
  PROVE  OpenAt(s, b) = s[k]
<1> DEFINE a == k + 1
           n == b - a
           S == {d \in 0..n : OpenAt(s, a + d) = s[k]}
<1>1. Len(s) \in Nat /\ k \in Nat /\ a \in Nat /\ b \in Nat /\ n \in Nat /\ a + n = b
  BY StringIs
<1>2. 0 \in S
  <2>1. a + 0 = k + 1 /\ 0 \in 0..n
    BY <1>1
  <2>2. OpenAt(s, k + 1) = Next1(s, k, None)
    BY <1>1, OpenAtStep
  <2>3. Next1(s, k, None) = s[k]
    BY SymbolsApart DEF Next1
  <2> QED BY <2>1, <2>2, <2>3
<1>3. ASSUME NEW d \in 0..n - 1, d \in S PROVE d + 1 \in S
  <2>1. /\ a + d \in 1..Len(s) /\ a + d \in k + 1..b - 1 /\ d + 1 \in 0..n
        /\ (a + d) + 1 = a + (d + 1)
    BY <1>1
  <2>2. OpenAt(s, a + (d + 1)) = Next1(s, a + d, OpenAt(s, a + d))
    BY <1>1, <2>1, OpenAtStep
  <2>3. OpenAt(s, a + d) = s[k] /\ s[a + d] # s[k] /\ s[k] # None
    BY <1>3, <2>1, SymbolsApart
  <2>4. Next1(s, a + d, OpenAt(s, a + d)) = s[k]
    BY <2>3 DEF Next1
  <2> QED BY <2>1, <2>2, <2>4
<1> HIDE DEF S, n, a
<1>4. n \in S
  <2>1. n \in 0..n
    BY <1>1
  <2> QED BY <1>1, <1>2, <1>3, <2>1, Upward
<1> QED BY <1>1, <1>4 DEF S

(* In a balanced string a quote that opens is closed. *)
LEMMA QuoteCloses ==
  ASSUME NEW s \in String, Balanced(s), NEW k \in 1..Len(s), s[k] \in Quotes, OpenAt(s, k) = None
  PROVE  CloseOf(s, k) \in k + 1..Len(s) /\ OpenAt(s, CloseOf(s, k) + 1) = None
<1> DEFINE c == CloseOf(s, k)
<1>1. Len(s) \in Nat /\ k \in Nat
  BY StringIs
<1>2. \/ c = 0 /\ \A m \in k + 1..Len(s) : s[m] # s[k]
      \/ /\ c \in k + 1..Len(s) /\ s[c] = s[k]
         /\ \A m \in k + 1..c - 1 : s[m] # s[k]
  BY <1>1, CloseIsNext
<1> HIDE DEF c
<1>3. CASE c = 0
  <2>1. Len(s) + 1 \in k + 1..Len(s) + 1 /\ (Len(s) + 1) - 1 = Len(s)
    BY <1>1
  <2>2. \A m \in k + 1..Len(s) : s[m] # s[k]
    BY <1>1, <1>2, <1>3
  <2>3. OpenAt(s, Len(s) + 1) = s[k]
    BY <2>1, <2>2, QuoteStaysOpen
  <2> QED BY <2>3, SymbolsApart DEF Balanced
<1>4. CASE c # 0
  <2>1. c \in k + 1..Len(s) /\ s[c] = s[k] /\ \A m \in k + 1..c - 1 : s[m] # s[k]
    BY <1>2, <1>4
  <2>2. c \in k + 1..Len(s) + 1 /\ c \in 1..Len(s)
    BY <1>1, <2>1
  <2>3. OpenAt(s, c) = s[k]
    BY <2>1, <2>2, QuoteStaysOpen
  <2>4. OpenAt(s, c + 1) = Next1(s, c, OpenAt(s, c))
    BY <1>1, <2>2, OpenAtStep
  <2>5. OpenAt(s, c + 1) = None
    BY <2>1, <2>3, <2>4 DEF Next1
  <2> QED BY <2>1, <2>5 DEF c
<1> QED BY <1>3, <1>4

(* A value without quotes, put where no quote is open, opens none.         *)
LEMMA OpenReplaced ==
  ASSUME NEW s \in String, NEW w \in String, NEW r \in String, NEW p \in 1..Len(s),
         Replaced(s, w, p, r), s[p] \notin Quotes,
         \A d \in 1..Len(w) : w[d] \notin Quotes
  PROVE  /\ \A q \in 1..p : OpenAt(r, q) = OpenAt(s, q)
         /\ \A q \in p..p + Len(w) : OpenAt(r, q) = OpenAt(s, p)
         /\ \A q \in p + 1..Len(s) + 1 : OpenAt(r, q - 1 + Len(w)) = OpenAt(s, q)
<1> DEFINE n == Len(s)
           l == Len(w)
           m == Len(r)
<1>1. n \in Nat /\ l \in Nat /\ p \in Nat /\ p > 0 /\ p <= n /\ m \in Nat
  BY StringIs
<1>2. /\ m = n - 1 + l
      /\ \A q \in 1..p - 1 : r[q] = s[q]
      /\ \A d \in 1..l : r[p - 1 + d] = w[d]
      /\ \A q \in p + 1..n : r[q - 1 + l] = s[q]
  BY DEF Replaced
<1> HIDE DEF n, l, m
<1>3. ASSUME NEW q \in 1..p PROVE OpenAt(r, q) = OpenAt(s, q)
  <2>1. 1 \in 1..n + 1 /\ 1 \in 1..m + 1 /\ q - 1 \in Nat /\ 1 + (q - 1) <= n + 1 /\ 1 + (q - 1) <= m + 1
    BY <1>1, <1>2
  <2>2. \A d \in 0..(q - 1) - 1 : r[1 + d] = s[1 + d]
    <3>1. \A d \in 0..(q - 1) - 1 : 1 + d \in 1..p - 1
      BY <1>1
    <3> QED BY <1>2, <3>1
  <2>3. OpenAt(r, 1) = OpenAt(s, 1)
    BY <1>1, OpenAtStep DEF n, m
  <2>4. \A d \in 0..q - 1 : OpenAt(r, 1 + d) = OpenAt(s, 1 + d)
    <3> DEFINE k == q - 1
    <3>1. k \in Nat /\ 1 + k <= n + 1 /\ 1 + k <= m + 1 /\ \A d \in 0..k - 1 : r[1 + d] = s[1 + d]
      BY <2>1, <2>2
    <3> HIDE DEF k
    <3>2. \A d \in 0..k : OpenAt(r, 1 + d) = OpenAt(s, 1 + d)
      BY <2>1, <2>3, <3>1, OpenAlike DEF n, m
    <3> QED BY <3>2 DEF k
  <2>5. q - 1 \in 0..q - 1 /\ 1 + (q - 1) = q
    BY <1>1
  <2> QED BY <2>4, <2>5
<1>4. ASSUME NEW q \in p..p + l PROVE OpenAt(r, q) = OpenAt(s, p)
  <2>1. p \in 1..m + 1 /\ q \in p..m + 1 /\ p \in 1..p
    BY <1>1, <1>2
  <2>2. \A k \in p..q - 1 : r[k] \notin Quotes
    <3>1. \A k \in p..q - 1 : k - p + 1 \in 1..l /\ p - 1 + (k - p + 1) = k
      BY <1>1
    <3> QED BY <1>2, <3>1 DEF l
  <2>3. OpenAt(r, q) = OpenAt(r, p)
    BY <2>1, <2>2, OpenStays DEF m
  <2> QED BY <1>3, <2>1, <2>3
<1>5. ASSUME NEW q \in p + 1..n + 1 PROVE OpenAt(r, q - 1 + l) = OpenAt(s, q)
  <2> DEFINE a == p + l
             b == p + 1
             k == q - b
  <2>1. /\ a \in 1..m + 1 /\ b \in 1..n + 1 /\ k \in Nat /\ a + k <= m + 1 /\ b + k <= n + 1
        /\ a + k = q - 1 + l /\ b + k = q /\ k \in 0..k
    BY <1>1, <1>2
  <2>2. \A d \in 0..k - 1 : r[a + d] = s[b + d]
    <3>1. \A d \in 0..k - 1 : b + d \in p + 1..n /\ (b + d) - 1 + l = a + d
      BY <1>1
    <3> HIDE DEF a, b, k
    <3> QED BY <1>2, <3>1
  <2>3. OpenAt(r, a) = OpenAt(s, b)
    <3> DEFINE o == OpenAt(s, p)
    <3>1. OpenAt(r, a) = o
      <4>1. a \in p..p + l
        BY <1>1
      <4> QED BY <1>4, <4>1
    <3>2. OpenAt(s, p + 1) = Next1(s, p, o) /\ o \in OpenValues
      <4>1. p \in 1..Len(s) + 1
        BY <1>1 DEF n
      <4> QED BY <1>1, <4>1, OpenAtStep DEF n
    <3>3. Next1(s, p, o) = o
      <4> HIDE DEF o
      <4> QED BY <3>2, StringIs, SymbolsApart DEF Next1, OpenValues
    <3> QED BY <3>1, <3>2, <3>3
  <2> HIDE DEF a, b, k
  <2>4. \A d \in 0..k : OpenAt(r, a + d) = OpenAt(s, b + d)
    BY <2>1, <2>2, <2>3, OpenAlike DEF n, m
  <2> QED BY <2>1, <2>4
<1> QED BY <1>3, <1>4, <1>5 DEF n, l

(* Where a symbol of the new string comes from. *)
LEMMA ReplacedFrom ==
  ASSUME NEW s \in String, NEW w \in String, NEW r \in String, NEW p \in 1..Len(s),
         Replaced(s, w, p, r), NEW q \in 1..Len(r)
  PROVE  \/ q \in 1..p - 1 /\ r[q] = s[q]
         \/ \E d \in 1..Len(w) : q = p - 1 + d /\ r[q] = w[d]
         \/ \E k \in p + 1..Len(s) : q = k - 1 + Len(w) /\ r[q] = s[k]
<1> DEFINE n == Len(s)
           l == Len(w)
<1>1. n \in Nat /\ l \in Nat /\ p \in Nat /\ p > 0 /\ p <= n
  BY StringIs
<1>2. /\ q \in 1..n - 1 + l
      /\ \A k \in 1..p - 1 : r[k] = s[k]
      /\ \A d \in 1..l : r[p - 1 + d] = w[d]
      /\ \A k \in p + 1..n : r[k - 1 + l] = s[k]
  BY DEF Replaced
<1> HIDE DEF n, l
<1>3. CASE q < p
  BY <1>1, <1>2, <1>3
<1>4. CASE q >= p /\ q <= p - 1 + l
  <2> DEFINE d == q - p + 1
  <2>1. d \in 1..l /\ q = p - 1 + d
    BY <1>1, <1>2, <1>4
  <2> HIDE DEF d
  <2>2. r[q] = w[d]
    BY <1>2, <2>1
  <2> QED BY <2>1, <2>2 DEF l
<1>5. CASE q > p - 1 + l
  <2> DEFINE k == q + 1 - l
  <2>1. k \in p + 1..n /\ q = k - 1 + l
    BY <1>1, <1>2, <1>5
  <2> HIDE DEF k
  <2>2. r[q] = s[k]
    BY <1>2, <2>1
  <2> QED BY <2>1, <2>2 DEF l, n
<1>6. q < p \/ (q >= p /\ q <= p - 1 + l) \/ q > p - 1 + l
  BY <1>1, <1>2
<1> QED BY <1>3, <1>4, <1>5, <1>6

(* It leaves quotes closed, nests none, and frees no blank but its own.    *)
LEMMA ReplacedIsAlike ==
  ASSUME NEW s \in String, NEW w \in String, NEW r \in String, NEW p \in 1..Len(s),
         Replaced(s, w, p, r), OpenAt(s, p) = None, s[p] \notin Quotes,
         \A d \in 1..Len(w) : w[d] \notin Quotes
  PROVE  /\ OpenAt(r, p + Len(w)) = None
         /\ Balanced(s) => Balanced(r)
         /\ Nested(r) => Nested(s)
         /\ HasFreeBlank(r) => HasFreeBlank(s) \/ \E d \in 1..Len(w) : w[d] = Blank
<1> DEFINE n == Len(s)
           l == Len(w)
<1>1. n \in Nat /\ l \in Nat /\ p \in Nat /\ p > 0 /\ p <= n /\ Len(r) = n - 1 + l
  BY StringIs DEF Replaced
<1>2. /\ \A q \in 1..p : OpenAt(r, q) = OpenAt(s, q)
      /\ \A q \in p..p + l : OpenAt(r, q) = None
      /\ \A q \in p + 1..n + 1 : OpenAt(r, q - 1 + l) = OpenAt(s, q)
  BY OpenReplaced
(* A symbol of the value, or one of s with the same quote open. *)
<1>3. ASSUME NEW q \in 1..Len(r)
      PROVE  \/ \E d \in 1..l : r[q] = w[d]
             \/ \E k \in 1..n : r[q] = s[k] /\ OpenAt(r, q) = OpenAt(s, k)
  <2>1. \/ q \in 1..p - 1 /\ r[q] = s[q]
        \/ \E d \in 1..l : q = p - 1 + d /\ r[q] = w[d]
        \/ \E k \in p + 1..n : q = k - 1 + l /\ r[q] = s[k]
    BY ReplacedFrom
  <2> HIDE DEF n, l
  <2>2. CASE q \in 1..p - 1 /\ r[q] = s[q]
    <3>1. q \in 1..p /\ q \in 1..n
      BY <1>1, <2>2
    <3> QED BY <1>2, <2>2, <3>1
  <2>3. CASE \E k \in p + 1..n : q = k - 1 + l /\ r[q] = s[k]
    <3>1. PICK k \in p + 1..n : q = k - 1 + l /\ r[q] = s[k]
      BY <2>3
    <3>2. k \in p + 1..n + 1 /\ k \in 1..n
      BY <1>1
    <3> QED BY <1>2, <3>1, <3>2
  <2> QED BY <2>1, <2>2, <2>3
<1>4. OpenAt(r, p + l) = None
  <2>1. p + l \in p..p + l
    BY <1>1
  <2> QED BY <1>2, <2>1
<1>5. Balanced(s) => Balanced(r)
  <2> HIDE DEF l
  <2>1. n + 1 \in p + 1..n + 1 /\ (n + 1) - 1 + l = Len(r) + 1
    BY <1>1
  <2>2. OpenAt(r, (n + 1) - 1 + l) = OpenAt(s, n + 1)
    BY <1>2, <2>1
  <2> QED BY <2>1, <2>2 DEF Balanced
<1> HIDE DEF l
<1>6. Nested(r) => Nested(s)
  <2> SUFFICES ASSUME NEW q \in 1..Len(r), r[q] \in Quotes, OpenAt(r, q) \in Quotes \ {r[q]}
               PROVE  Nested(s)
    BY DEF Nested
  <2>1. ~\E d \in 1..l : r[q] = w[d]
    BY DEF l
  <2>2. PICK k \in 1..n : r[q] = s[k] /\ OpenAt(r, q) = OpenAt(s, k)
    BY <1>3, <2>1
  <2> QED BY <2>2 DEF Nested
<1>7. ASSUME HasFreeBlank(r) PROVE HasFreeBlank(s) \/ \E d \in 1..l : w[d] = Blank
  <2>1. PICK q \in 1..Len(r) : r[q] = Blank /\ OpenAt(r, q) = None
    BY <1>7 DEF HasFreeBlank
  <2>2. \/ \E d \in 1..l : r[q] = w[d]
        \/ \E k \in 1..n : r[q] = s[k] /\ OpenAt(r, q) = OpenAt(s, k)
    BY <1>3
  <2> QED BY <2>1, <2>2 DEF HasFreeBlank
<1> QED BY <1>4, <1>5, <1>6, <1>7 DEF l

-----------------------------------------------------------------------------
(* Pairs whatever their kind, and the pieces of a string *)

QuotesBefore(s, k) == {m \in 1 .. k - 1 : s[m] \in Quotes}

LEMMA PairedStep ==
  ASSUME NEW s \in String
  PROVE  /\ PairedBefore(s, 1)
         /\ \A k \in 1..Len(s) :
              PairedBefore(s, k + 1) <=> (PairedBefore(s, k) <=> s[k] \notin Quotes)
<1>1. Len(s) \in Nat
  BY StringIs
<1>2. ASSUME NEW k \in 1..Len(s) + 1
      PROVE  IsFiniteSet(QuotesBefore(s, k)) /\ Cardinality(QuotesBefore(s, k)) \in Nat
  <2>1. IsFiniteSet(1..k - 1)
    <3>1. 1 \in Int /\ k - 1 \in Int
      BY <1>1
    <3> QED BY <3>1, FS_Interval
  <2>2. QuotesBefore(s, k) \in SUBSET (1..k - 1)
    BY DEF QuotesBefore
  <2> QED BY <2>1, <2>2, FS_Subset, FS_CardinalityType
<1>3. ASSUME NEW k \in 1..Len(s) + 1
      PROVE  PairedBefore(s, k) <=> ~Odd(Cardinality(QuotesBefore(s, k)))
  <2> DEFINE c == Cardinality(QuotesBefore(s, k))
  <2>1. c \in Nat
    BY <1>2
  <2>2. PairedBefore(s, k) <=> c % 2 = 0
    BY DEF PairedBefore, QuotesBefore
  <2> HIDE DEF c
  <2>3. PairedBefore(s, k) <=> ~Odd(c)
    BY <2>1, <2>2 DEF Odd
  <2> QED BY <2>3 DEF c
<1>4. PairedBefore(s, 1)
  <2>1. QuotesBefore(s, 1) = {}
    BY DEF QuotesBefore
  <2>2. Cardinality(QuotesBefore(s, 1)) = 0
    BY <2>1, FS_EmptySet
  <2>3. 1 \in 1..Len(s) + 1
    BY <1>1
  <2> QED BY <1>3, <2>2, <2>3, OddStep
<1>5. ASSUME NEW k \in 1..Len(s)
      PROVE  PairedBefore(s, k + 1) <=> (PairedBefore(s, k) <=> s[k] \notin Quotes)
  <2>1. k \in 1..Len(s) + 1 /\ k + 1 \in 1..Len(s) + 1
    BY <1>1
  <2>2. \A m : m \in 1..(k + 1) - 1 <=> m \in 1..k - 1 \/ m = k
    BY <1>1
  <2>3. CASE s[k] \notin Quotes
    <3>1. QuotesBefore(s, k + 1) = QuotesBefore(s, k)
      BY <2>2, <2>3 DEF QuotesBefore
    <3> QED BY <1>3, <2>1, <2>3, <3>1
  <2>4. CASE s[k] \in Quotes
    <3>1. QuotesBefore(s, k + 1) = QuotesBefore(s, k) \cup {k}
      BY <2>2, <2>4 DEF QuotesBefore
    <3>2. k \notin QuotesBefore(s, k)
      BY <1>1 DEF QuotesBefore
    <3>3. IsFiniteSet(QuotesBefore(s, k)) /\ Cardinality(QuotesBefore(s, k)) \in Nat
      BY <1>2, <2>1
    <3>4. Cardinality(QuotesBefore(s, k + 1)) = Cardinality(QuotesBefore(s, k)) + 1
      BY <3>1, <3>2, <3>3, FS_AddElement
    <3>5. Odd(Cardinality(QuotesBefore(s, k + 1))) <=> ~Odd(Cardinality(QuotesBefore(s, k)))
      BY <3>3, <3>4, OddStep
    <3> QED BY <1>3, <2>1, <2>4, <3>5
  <2> QED BY <2>3, <2>4
<1> QED BY <1>4, <1>5

LEMMA PairedStays ==
  ASSUME NEW s \in String, NEW a \in 1..Len(s) + 1, NEW b \in a..Len(s) + 1,
         \A k \in a..b - 1 : s[k] \notin Quotes
  PROVE  PairedBefore(s, b) <=> PairedBefore(s, a)
<1>1. Len(s) \in Nat
  BY StringIs
<1>2. \A m : m \in 1..b - 1 <=> m \in 1..a - 1 \/ m \in a..b - 1
  BY <1>1
<1>3. {m \in 1..b - 1 : s[m] \in Quotes} = {m \in 1..a - 1 : s[m] \in Quotes}
  BY <1>2
<1> QED BY <1>3 DEF PairedBefore

(* Without nested quotes it makes no difference. *)
LEMMA PairedIsOpen ==
  ASSUME NEW s \in String, ~Nested(s)
  PROVE  \A k \in 1..Len(s) + 1 : PairedBefore(s, k) <=> OpenAt(s, k) = None
<1> DEFINE n == Len(s)
           S == {d \in 0..n : PairedBefore(s, d + 1) <=> OpenAt(s, d + 1) = None}
<1>1. n \in Nat
  BY StringIs
<1>2. 0 \in S
  <2>1. PairedBefore(s, 1) /\ OpenAt(s, 1) = None /\ 0 + 1 = 1 /\ 0 \in 0..n
    BY <1>1, PairedStep, OpenAtStep
  <2> QED BY <2>1
<1>3. ASSUME NEW d \in 0..n - 1, d \in S PROVE d + 1 \in S
  <2> DEFINE k == d + 1
  <2>1. k \in 1..n /\ k \in 1..n + 1 /\ k \in 0..n
    BY <1>1
  <2>2. PairedBefore(s, k) <=> OpenAt(s, k) = None
    BY <1>3
  <2> HIDE DEF k
  <2>3. /\ PairedBefore(s, k + 1) <=> (PairedBefore(s, k) <=> s[k] \notin Quotes)
        /\ OpenAt(s, k + 1) = Next1(s, k, OpenAt(s, k))
        /\ OpenAt(s, k) \in OpenValues /\ s[k] \in Symbols
    BY <1>1, <2>1, PairedStep, OpenAtStep, StringIs
  <2>4. PairedBefore(s, k + 1) <=> OpenAt(s, k + 1) = None
    <3>1. CASE s[k] \notin Quotes
      <4>1. OpenAt(s, k + 1) = OpenAt(s, k)
        BY <2>3, <3>1, SymbolsApart DEF Next1, OpenValues
      <4> QED BY <2>2, <2>3, <3>1, <4>1
    <3>2. CASE s[k] \in Quotes /\ OpenAt(s, k) = None
      <4>1. OpenAt(s, k + 1) = s[k] /\ s[k] # None
        BY <2>3, <3>2, SymbolsApart DEF Next1
      <4> QED BY <2>2, <2>3, <3>2, <4>1
    <3>3. CASE s[k] \in Quotes /\ OpenAt(s, k) # None
      <4>1. OpenAt(s, k) = s[k]
        BY <2>1, <2>3, <3>3 DEF Nested, OpenValues
      <4>2. OpenAt(s, k + 1) = None
        BY <2>3, <4>1 DEF Next1
      <4> QED BY <2>2, <2>3, <3>3, <4>2
    <3> QED BY <3>1, <3>2, <3>3
  <2> QED BY <2>1, <2>4 DEF k
<1>4. \A d \in 0..n : d \in S
  <2> HIDE DEF S, n
  <2> QED BY <1>1, <1>2, <1>3, Upward
<1>5. \A k \in 1..n + 1 : k - 1 \in 0..n /\ (k - 1) + 1 = k
  BY <1>1
<1> QED BY <1>4, <1>5

LEMMA PieceStartsPaired ==
  ASSUME NEW s \in String, NEW k \in PieceStarts(s)
  PROVE  PairedBefore(s, k)
<1>1. Len(s) \in Nat /\ k \in 1..Len(s) /\ Separator(s, k - 1)
  BY StringIs DEF PieceStarts
<1>2. CASE k = 1
  BY <1>2, PairedStep
<1>3. CASE k # 1
  <2>1. k - 1 \in 1..Len(s) /\ k - 1 \in 1..Len(s) + 1 /\ k \in k - 1..Len(s) + 1
    BY <1>1, <1>3
  <2>2. s[k - 1] = Blank /\ PairedBefore(s, k - 1)
    BY <1>1, <2>1 DEF Separator
  <2>3. \A m \in k - 1..k - 1 : s[m] \notin Quotes
    <3>1. \A m \in k - 1..k - 1 : m = k - 1
      BY <1>1
    <3> QED BY <2>2, <3>1, SymbolsApart
  <2>4. PairedBefore(s, k) <=> PairedBefore(s, k - 1)
    BY <2>1, <2>3, PairedStays
  <2> QED BY <2>2, <2>4
<1> QED BY <1>2, <1>3

(* A string without a start of a piece is blank. *)
LEMMA NoPieceIsBlank ==
  ASSUME NEW s \in String, PieceStarts(s) = {}
  PROVE  \A p \in 1..Len(s) : s[p] = Blank
<1> SUFFICES ASSUME NEW p \in 1..Len(s), s[p] # Blank PROVE FALSE
  OBVIOUS
<1> DEFINE S == {k \in 1..Len(s) : ~Separator(s, k)}
<1>1. p \in S /\ Len(s) \in Nat
  BY StringIs DEF Separator
<1>2. PICK k \in S : \A m \in S : k <= m
  <2>1. S \in SUBSET Nat /\ S # {}
    BY <1>1
  <2> HIDE DEF S
  <2> QED BY <2>1, LeastExists
<1>3. k \in 1..Len(s) /\ ~Separator(s, k) /\ k - 1 \notin S
  BY <1>2
<1>4. Separator(s, k - 1)
  BY <1>3 DEF Separator
<1> QED BY <1>3, <1>4 DEF PieceStarts

(* An expansion of a string without a free blank: one quote at least       *)
(* precedes every blank.                                                   *)
Solid(s) == \A p \in 1..Len(s) : s[p] = Blank => \E q \in 1..p - 1 : s[q] \in Quotes

LEMMA PieceIsSolid ==
  ASSUME NEW s \in String, NEW k \in PieceStarts(s)
  PROVE  Solid(PieceAt(s, k))
<1> DEFINE e == PieceEnd(s, k)
           w == PieceAt(s, k)
<1>1. /\ Len(s) \in Nat /\ k \in 1..Len(s) /\ e \in k..Len(s)
      /\ \A n \in k..e : ~Separator(s, n)
  BY StringIs, PieceEndIs
<1>2. Len(w) = e - k + 1 /\ \A m \in 1..Len(w) : w[m] = s[k + m - 1]
  BY PieceIsString
<1> HIDE DEF e, w
<1> SUFFICES ASSUME NEW p \in 1..Len(w), w[p] = Blank, \A q \in 1..p - 1 : w[q] \notin Quotes
             PROVE  FALSE
  BY DEF Solid, w
<1> DEFINE b == k + p - 1
<1>3. /\ b \in k..e /\ b \in 1..Len(s) /\ b \in k..Len(s) + 1 /\ k \in 1..Len(s) + 1
  BY <1>1, <1>2
<1>4. s[b] = Blank
  BY <1>2
<1>5. \A m \in k..b - 1 : s[m] \notin Quotes
  <2>1. \A m \in k..b - 1 : /\ m - k + 1 \in 1..p - 1 /\ m - k + 1 \in 1..Len(w)
                            /\ k + (m - k + 1) - 1 = m
    BY <1>1, <1>2
  <2> HIDE DEF b
  <2> QED BY <1>2, <2>1
<1> HIDE DEF b
<1>6. PairedBefore(s, b)
  BY <1>3, <1>5, PairedStays, PieceStartsPaired
<1> QED BY <1>1, <1>3, <1>4, <1>6 DEF Separator

(* A piece of a string whose quotes are closed and not nested. *)
LEMMA PieceIsProper ==
  ASSUME NEW s \in String, ~Nested(s), Balanced(s), NEW k \in PieceStarts(s)
  PROVE  /\ Balanced(PieceAt(s, k)) /\ ~Nested(PieceAt(s, k)) /\ ~HasFreeBlank(PieceAt(s, k))
         /\ \A m \in 1..Len(PieceAt(s, k)) :
              /\ k + m - 1 \in 1..Len(s) /\ PieceAt(s, k)[m] = s[k + m - 1]
              /\ OpenAt(PieceAt(s, k), m) = OpenAt(s, k + m - 1)
<1> DEFINE e == PieceEnd(s, k)
           w == PieceAt(s, k)
           n == Len(w)
<1>1. /\ Len(s) \in Nat /\ k \in 1..Len(s) /\ e \in k..Len(s)
      /\ \A m \in k..e : ~Separator(s, m)
      /\ Separator(s, e + 1)
  BY StringIs, PieceEndIs
<1>2. w \in String /\ n = e - k + 1 /\ \A m \in 1..n : w[m] = s[k + m - 1]
  BY PieceIsString
<1>3. \A p \in 1..Len(s) + 1 : PairedBefore(s, p) <=> OpenAt(s, p) = None
  BY PairedIsOpen
<1> HIDE DEF e, w
<1>4. n \in Nat /\ 1 \in 1..n + 1 /\ k \in 1..Len(s) + 1 /\ 1 + n <= n + 1 /\ k + n <= Len(s) + 1
  BY <1>1, <1>2, StringIs
<1>5. OpenAt(w, 1) = OpenAt(s, k)
  <2>1. OpenAt(s, k) = None
    BY <1>3, <1>4, PieceStartsPaired
  <2>2. OpenAt(w, 1) = None
    BY <1>4, OpenAtStep
  <2> QED BY <2>1, <2>2
<1>6. \A d \in 0..n - 1 : w[1 + d] = s[k + d]
  <2>1. \A d \in 0..n - 1 : 1 + d \in 1..n /\ k + (1 + d) - 1 = k + d
    BY <1>1, <1>4
  <2> QED BY <1>2, <2>1
<1>7. \A d \in 0..n : OpenAt(w, 1 + d) = OpenAt(s, k + d)
  BY <1>2, <1>4, <1>5, <1>6, OpenAlike
<1>8. \A m \in 1..n : /\ w[m] = s[k + m - 1] /\ OpenAt(w, m) = OpenAt(s, k + m - 1)
                      /\ k + m - 1 \in k..e /\ k + m - 1 \in 1..Len(s)
                      /\ k + m - 1 \in 1..Len(s) + 1
  <2>1. \A m \in 1..n : /\ m - 1 \in 0..n /\ 1 + (m - 1) = m /\ k + (m - 1) = k + m - 1
                        /\ k + m - 1 \in k..e /\ k + m - 1 \in 1..Len(s)
                        /\ k + m - 1 \in 1..Len(s) + 1
    BY <1>1, <1>2
  <2>2. ASSUME NEW m \in 1..n PROVE OpenAt(w, m) = OpenAt(s, k + m - 1)
    <3>1. OpenAt(w, 1 + (m - 1)) = OpenAt(s, k + (m - 1))
      BY <1>7, <2>1
    <3> QED BY <2>1, <3>1
  <2> QED BY <1>2, <2>1, <2>2
<1>9. Balanced(w)
  <2>1. n \in 0..n /\ 1 + n = n + 1 /\ k + n = e + 1 /\ e + 1 \in 1..Len(s) + 1
    BY <1>1, <1>2, <1>4
  <2>2. OpenAt(w, n + 1) = OpenAt(s, e + 1)
    <3>1. OpenAt(w, 1 + n) = OpenAt(s, k + n)
      BY <1>7, <2>1
    <3> QED BY <2>1, <3>1
  <2>3. OpenAt(s, e + 1) = None
    <3>1. CASE e + 1 \in 1..Len(s)
      <4>1. PairedBefore(s, e + 1)
        BY <1>1, <3>1 DEF Separator
      <4> QED BY <1>3, <2>1, <4>1
    <3>2. CASE e + 1 \notin 1..Len(s)
      <4>1. e + 1 = Len(s) + 1
        BY <1>1, <3>2
      <4> QED BY <4>1 DEF Balanced
    <3> QED BY <3>1, <3>2
  <2> QED BY <2>2, <2>3 DEF Balanced
<1>10. ~Nested(w)
  BY <1>8 DEF Nested
<1>11. ~HasFreeBlank(w)
  <2> SUFFICES ASSUME NEW m \in 1..n, w[m] = Blank, OpenAt(w, m) = None PROVE FALSE
    BY DEF HasFreeBlank
  <2> DEFINE p == k + m - 1
  <2>1. p \in k..e /\ p \in 1..Len(s) + 1 /\ s[p] = Blank /\ OpenAt(s, p) = None
    BY <1>8
  <2> HIDE DEF p
  <2> QED BY <1>1, <1>3, <2>1 DEF Separator
<1> QED BY <1>8, <1>9, <1>10, <1>11 DEF w

(* Blanks in quotes have a quote before them. *)
LEMMA QuotedIsSolid ==
  ASSUME NEW s \in String, ~HasFreeBlank(s)
  PROVE  Solid(s)
<1> SUFFICES ASSUME NEW p \in 1..Len(s), s[p] = Blank, \A q \in 1..p - 1 : s[q] \notin Quotes
             PROVE  FALSE
  BY DEF Solid
<1>1. Len(s) \in Nat /\ 1 \in 1..Len(s) + 1 /\ p \in 1..Len(s) + 1
  BY StringIs
<1>2. OpenAt(s, p) = OpenAt(s, 1)
  BY <1>1, OpenStays
<1>3. OpenAt(s, 1) = None
  BY <1>1, OpenAtStep
<1> QED BY <1>2, <1>3 DEF HasFreeBlank

-----------------------------------------------------------------------------
(* The invariants of env_var and of the walk along the list *)

(* The environment v has a value of nothing but blanks, or none with a     *)
(* blank. *)
SomeBlank(v) == \E r \in Refs : ToSet(v[r]) = {Blank}
NoBlank(v) == \A r \in Refs : ~Holds(v[r], {Blank})

(* What env_var has read of s before p was not all blank, or nothing but   *)
(* blank values, and the rest is solid.                                    *)
Visible(s, p, v) ==
  \/ \E k \in 1..p - 1 : k <= Len(s) /\ s[k] # Blank
  \/ /\ p = 1 \/ SomeBlank(v)
     /\ \A k \in p..Len(s) : s[k] = Blank => \E q \in p..k - 1 : s[q] \in Quotes

(* No value holds a quote, and none a blank if a word has nested quotes.   *)
Tidy ==
  /\ \A r \in Refs : ~Holds(val[r], Quotes)
  /\ NoBlank(val) \/ ~\E w \in TypedWords : Nested(w)

(* The quotes of a word are closed; none are nested if a split may come.   *)
Proper(s, v) ==
  /\ Balanced(s)
  /\ IF NoBlank(v) THEN ~HasFreeBlank(s) ELSE ~Nested(s)

BlankInv ==
  /\ \A k \in at + 1..Len(tokens) : ~tokens[k].op => Solid(tokens[k].str)
  /\ pc = "visit" /\ at <= Len(tokens) => (~tokens[at].op => Solid(Str))
  /\ pc = "plain" => i <= Len(Str) + 1 /\ Visible(Str, i, val)
  /\ pc = "split" => Visible(Str, Len(Str) + 1, val)
  /\ pc \in {"count", "handle"} => at <= Len(tokens) \/ SomeBlank(val)
  /\ pc = "crash" => SomeBlank(val)

ProperInv ==
  Tidy =>
    /\ \A k \in at + 1..Len(tokens) : Proper(tokens[k].str, val)
    /\ pc \in {"visit", "plain", "split", "count"} /\ at <= Len(tokens) => Proper(Str, val)
    /\ pc = "plain" => OpenAt(Str, i) = None
    /\ pc # "overrun"

WalkInv == IndexedInv /\ BlankInv /\ ProperInv

LEMMA TidyStays ==
  ASSUME UNCHANGED <<val, typed>>
  PROVE  Tidy' <=> Tidy
  BY DEF Tidy, TypedWords

LEMMA WalkInit == Init => BlankInv /\ ProperInv
<1> SUFFICES ASSUME Init PROVE BlankInv /\ ProperInv
  OBVIOUS
<1>1. typed \in Seq([op : BOOLEAN, str : String]) /\ typed \in Lines
  BY LinesAssumption DEF Init, String
<1>2. ASSUME NEW k \in 1..Len(typed)
      PROVE  typed[k].op \in BOOLEAN /\ typed[k].str \in String
  <2> DEFINE A == [op : BOOLEAN, str : String]
  <2>1. typed \in Seq(A)
    BY <1>1
  <2> HIDE DEF A
  <2>2. typed[k] \in A
    BY <2>1
  <2> QED BY <2>2 DEF A
<1>3. /\ Len(tokens) = Len(typed) /\ Len(typed) \in Nat
      /\ \A k \in 1..Len(typed) : tokens[k].op = typed[k].op /\ tokens[k].str = typed[k].str
      /\ at = 1 /\ pc = "visit"
  BY <1>1 DEF Init
<1>4. ASSUME NEW k \in 1..Len(typed), ~typed[k].op
      PROVE  /\ Solid(typed[k].str) /\ Balanced(typed[k].str) /\ ~HasFreeBlank(typed[k].str)
             /\ typed[k].str \in TypedWords
  <2>1. Balanced(typed[k].str) /\ ~HasFreeBlank(typed[k].str)
    BY <1>1, <1>4, LinesAssumption, Zenon
  <2>2. typed[k].str \in TypedWords
    BY <1>4 DEF TypedWords
  <2> QED BY <1>2, <2>1, <2>2, QuotedIsSolid
<1>5. ASSUME NEW k \in 1..Len(typed), typed[k].op
      PROVE  /\ Balanced(typed[k].str) /\ ~HasFreeBlank(typed[k].str)
             /\ ~Nested(typed[k].str)
  <2> DEFINE s == typed[k].str
  <2>1. s \in String
    BY <1>2
  <2>2. ~Holds(s, Symbols \ {"a"})
    BY <1>1, <1>5, LinesAssumption, Zenon
  <2> HIDE DEF s
  <2>3. \A m \in 1..Len(s) : s[m] \notin Quotes /\ s[m] # Blank
    <3>1. \A m \in 1..Len(s) : s[m] \notin Symbols \ {"a"}
      BY <2>1, <2>2, HoldsIs
    <3>2. Blank \in Symbols \ {"a"} /\ Quotes \subseteq Symbols \ {"a"}
      BY SymbolsApart, Zenon
    <3> QED BY <3>1, <3>2, Zenon
  <2>4. Balanced(s)
    <3>1. /\ Len(s) \in Nat /\ 1 \in 1..Len(s) + 1 /\ Len(s) + 1 \in 1..Len(s) + 1
          /\ (Len(s) + 1) - 1 = Len(s)
      BY <2>1, StringIs
    <3>2. OpenAt(s, Len(s) + 1) = OpenAt(s, 1)
      BY <2>1, <2>3, <3>1, OpenStays
    <3>3. OpenAt(s, 1) = None
      BY <3>1, OpenAtStep
    <3> QED BY <3>2, <3>3 DEF Balanced
  <2> QED BY <2>3, <2>4 DEF s, HasFreeBlank, Nested
<1>6. BlankInv
  <2>1. \A k \in at + 1..Len(tokens) : k \in 1..Len(typed)
    BY <1>3
  <2>2. at <= Len(tokens) => at \in 1..Len(typed)
    BY <1>3
  <2> QED BY <1>3, <1>4, <2>1, <2>2 DEF BlankInv, Str
<1>7. ProperInv
  <2> SUFFICES ASSUME Tidy
               PROVE  /\ \A k \in at + 1..Len(tokens) : Proper(tokens[k].str, val)
                      /\ pc \in {"visit", "plain", "split", "count"} /\ at <= Len(tokens) => Proper(Str, val)
                      /\ pc = "plain" => OpenAt(Str, i) = None
                      /\ pc # "overrun"
    BY DEF ProperInv
  <2>1. \A k \in 1..Len(typed) : Proper(typed[k].str, val)
    BY <1>2, <1>4, <1>5 DEF Proper, Tidy
  <2>2. \A k \in at + 1..Len(tokens) : k \in 1..Len(typed)
    BY <1>3
  <2>3. at <= Len(tokens) => at \in 1..Len(typed)
    BY <1>3
  <2> QED BY <1>3, <2>1, <2>2, <2>3 DEF Str
<1> QED BY <1>6, <1>7

(* Another value leaves what is visible visible. *)
LEMMA VisibleReplaced ==
  ASSUME NEW s \in String, NEW v \in [Refs -> String], NEW p \in 1..Len(s), s[p] \in Refs,
         Visible(s, p, v), NEW r \in String, Replaced(s, v[s[p]], p, r)
  PROVE  /\ p + Len(v[s[p]]) <= Len(r) + 1
         /\ Visible(r, p + Len(v[s[p]]), v)
<1> DEFINE w == v[s[p]]
           n == Len(s)
           l == Len(w)
           m == Len(r)
<1>1. /\ w \in String /\ n \in Nat /\ l \in Nat /\ m \in Nat /\ p \in Nat /\ p > 0 /\ p <= n
  BY StringIs
<1>2. /\ m = n - 1 + l
      /\ \A q \in 1..p - 1 : r[q] = s[q]
      /\ \A d \in 1..l : r[p - 1 + d] = w[d]
      /\ \A q \in p + 1..n : r[q - 1 + l] = s[q]
  BY DEF Replaced
<1>3. \A d \in 1..l : w[d] = Blank \/ w[d] # Blank
  OBVIOUS
<1>w. ToSet(w) = {w[d] : d \in 1..l} /\ s[p] \in Refs
  BY <1>1 DEF ToSet, String
<1>4. l > 0 /\ (\A d \in 1..l : w[d] = Blank) => SomeBlank(v)
  <2>1. l > 0 /\ (\A d \in 1..l : w[d] = Blank) => ToSet(w) = {Blank}
    <3> HIDE DEF w, l
    <3>1. l > 0 => 1 \in 1..l
      BY <1>1
    <3> QED BY <1>w, <3>1
  <2> QED BY <2>1 DEF SomeBlank
<1> HIDE DEF w, n, l, m
<1>5. p + l <= m + 1
  BY <1>1, <1>2
<1>6. CASE \E k \in 1..p - 1 : k <= n /\ s[k] # Blank
  <2>1. PICK k \in 1..p - 1 : s[k] # Blank
    BY <1>6
  <2>2. k \in 1..(p + l) - 1 /\ k <= m /\ r[k] # Blank
    BY <1>1, <1>2, <2>1
  <2>3. Visible(r, p + l, v)
    BY <2>2 DEF Visible, m
  <2> QED BY <1>5, <2>3 DEF w, l, m
<1>7. CASE \E d \in 1..l : w[d] # Blank
  <2>1. PICK d \in 1..l : w[d] # Blank
    BY <1>7
  <2>2. p - 1 + d \in 1..(p + l) - 1 /\ p - 1 + d <= m /\ r[p - 1 + d] # Blank
    BY <1>1, <1>2, <2>1
  <2>3. Visible(r, p + l, v)
    BY <2>2 DEF Visible, m
  <2> QED BY <1>5, <2>3 DEF w, l, m
<1>8. CASE /\ ~\E k \in 1..p - 1 : k <= n /\ s[k] # Blank
           /\ \A d \in 1..l : w[d] = Blank
  <2>1. /\ p = 1 \/ SomeBlank(v)
        /\ \A k \in p..n : s[k] = Blank => \E q \in p..k - 1 : s[q] \in Quotes
    BY <1>8 DEF Visible, n
  <2>2. p + l = 1 \/ SomeBlank(v)
    BY <1>1, <1>4, <1>8, <2>1
  <2>3. ASSUME NEW k \in p + l..m, r[k] = Blank
        PROVE  \E q \in p + l..k - 1 : r[q] \in Quotes
    <3> DEFINE a == k + 1 - l
    <3>1. a \in p + 1..n /\ a \in p..n /\ a - 1 + l = k
      BY <1>1, <1>2
    <3> HIDE DEF a
    <3>2. s[a] = Blank
      BY <1>2, <2>3, <3>1
    <3>3. PICK q \in p..a - 1 : s[q] \in Quotes
      BY <2>1, <3>1, <3>2
    <3>4. q # p
      BY <3>3, SymbolsApart
    <3>5. q \in p + 1..n /\ q - 1 + l \in p + l..k - 1
      BY <1>1, <3>1, <3>4
    <3>6. r[q - 1 + l] \in Quotes
      BY <1>2, <3>3, <3>5
    <3> QED BY <3>5, <3>6
  <2>4. Visible(r, p + l, v)
    BY <2>2, <2>3 DEF Visible, m
  <2> QED BY <1>5, <2>4 DEF w, l, m
<1> QED BY <1>6, <1>7, <1>8

LEMMA VisitWalk ==
  ASSUME WalkInv, Visit
  PROVE  BlankInv' /\ ProperInv'
<1> USE DEF WalkInv
<1>1. /\ pc = "visit" /\ at <= Len(tokens) /\ ~tokens[at].op /\ pc' = "plain" /\ i' = 1
      /\ UNCHANGED <<val, typed, tokens, at>>
  BY DEF Visit, Go
<1>2. Str' = Str /\ Len(Str) \in Nat
  BY <1>1, Unmoved, TokenIs DEF IndexedInv
<1>3. Solid(Str)
  BY <1>1 DEF BlankInv
<1>4. Visible(Str, 1, val)
  BY <1>3 DEF Visible, Solid
<1>5. 1 <= Len(Str) + 1
  BY <1>2
<1>6. BlankInv'
  BY <1>1, <1>2, <1>4, <1>5 DEF BlankInv
<1>7. OpenAt(Str, 1) = None
  BY <1>2, OpenAtStep
<1>8. ProperInv'
  BY <1>1, <1>2, <1>7, TidyStays DEF ProperInv
<1> QED BY <1>6, <1>8

(* To the next word: all there is was behind the last one. *)
LEMMA NextWordWalk ==
  ASSUME WalkInv, VisitOperator \/ HandleOperator \/ WordDone
  PROVE  BlankInv' /\ ProperInv'
<1> USE DEF WalkInv
<1>1. /\ pc' = "visit" /\ UNCHANGED <<val, typed>>
      /\ VisitOperator \/ HandleOperator =>
           at <= Len(tokens) /\ at' = at + 1 /\ UNCHANGED tokens
  BY DEF VisitOperator, HandleOperator, WordDone, Go
<1>2. /\ at' \in Nat /\ Len(tokens') \in Nat
      /\ \A k \in at' .. Len(tokens') :
           \E m \in at + 1..Len(tokens) : tokens'[k] = tokens[m]
  <2>1. CASE WordDone
    BY <2>1, WordDoneIs DEF IndexedInv, Places
  <2>2. CASE VisitOperator \/ HandleOperator
    BY <1>1, <2>2, TokenIs DEF IndexedInv, TypeInv, Places
  <2> QED BY <2>1, <2>2
<1> DEFINE a == at'
           n == Len(tokens')
           t == tokens'
<1>3. a \in Nat /\ n \in Nat
  BY <1>2
<1>4. \A k \in a..n : ~t[k].op => Solid(t[k].str)
  BY <1>2 DEF BlankInv
<1>5. Tidy => \A k \in a..n : Proper(t[k].str, val)
  BY <1>2 DEF ProperInv
<1> HIDE DEF a, n, t
<1>6. (\A k \in a + 1..n : k \in a..n) /\ (a <= n => a \in a..n)
  BY <1>3
<1>7. /\ \A k \in a + 1..n : ~t[k].op => Solid(t[k].str)
      /\ a <= n => (~t[a].op => Solid(t[a].str))
  BY <1>4, <1>6
<1>8. Tidy => /\ \A k \in a + 1..n : Proper(t[k].str, val)
              /\ a <= n => Proper(t[a].str, val)
  BY <1>5, <1>6
<1>9. BlankInv'
  BY <1>1, <1>7 DEF BlankInv, Str, a, n, t
<1>10. ProperInv'
  BY <1>1, <1>8, TidyStays DEF ProperInv, Str, a, n, t
<1> QED BY <1>9, <1>10

(* What holds where env_var looks at a symbol. *)
LEMMA PlainIs ==
  ASSUME WalkInv, pc = "plain"
  PROVE  /\ at <= Len(tokens) /\ Str \in String /\ Len(Str) \in Nat /\ i \in Nat /\ i > 0
         /\ i <= Len(Str) + 1 /\ Visible(Str, i, val) /\ val \in [Refs -> String]
         /\ Tidy => OpenAt(Str, i) = None /\ Proper(Str, val)
<1>1. at <= Len(tokens) /\ Str \in String /\ Len(Str) \in Nat
  BY TokenIs DEF WalkInv, IndexedInv, TypeInv
<1> QED BY <1>1 DEF WalkInv, IndexedInv, TypeInv, Places, BlankInv, ProperInv

LEMMA PlainQuotedWalk ==
  ASSUME WalkInv, PlainQuoted
  PROVE  BlankInv' /\ ProperInv'
<1> USE DEF WalkInv
<1> DEFINE c == CloseOf(Str, i)
<1>1. /\ pc = "plain" /\ i <= Len(Str) /\ Str[i] \in Quotes
      /\ UNCHANGED <<val, typed, tokens, at>>
      /\ \/ c = 0 /\ pc' = "overrun"
         \/ c # 0 /\ pc' = "plain" /\ i' = c + 1
  BY DEF PlainQuoted
<1>2. Str' = Str /\ (Tidy' <=> Tidy)
  BY <1>1, Unmoved, TidyStays
<1>3. /\ Str \in String /\ Len(Str) \in Nat /\ i \in Nat /\ i \in 1..Len(Str)
      /\ Tidy => OpenAt(Str, i) = None /\ Proper(Str, val)
  BY <1>1, PlainIs
<1>4. c = 0 \/ c \in i + 1..Len(Str)
  BY <1>3, CloseIsNext
<1>5. Tidy => c \in i + 1..Len(Str) /\ OpenAt(Str, c + 1) = None
  BY <1>1, <1>3, QuoteCloses DEF Proper
<1> HIDE DEF c
<1>6. c # 0 => c + 1 <= Len(Str) + 1 /\ Visible(Str, c + 1, val)
  <2> SUFFICES ASSUME c # 0 PROVE c + 1 <= Len(Str) + 1 /\ Visible(Str, c + 1, val)
    OBVIOUS
  <2>1. i \in 1..(c + 1) - 1 /\ i <= Len(Str) /\ c + 1 <= Len(Str) + 1
    BY <1>3, <1>4
  <2>2. Str[i] # Blank
    BY <1>1, SymbolsApart
  <2> QED BY <2>1, <2>2 DEF Visible
<1>7. Tidy => c # 0
  BY <1>3, <1>5
<1>8. BlankInv'
  BY <1>1, <1>2, <1>6 DEF BlankInv
<1>9. ProperInv'
  BY <1>1, <1>2, <1>5, <1>7 DEF ProperInv
<1> QED BY <1>8, <1>9

LEMMA PlainSymbolWalk ==
  ASSUME WalkInv, PlainSymbol
  PROVE  BlankInv' /\ ProperInv'
<1> USE DEF WalkInv
<1>1. /\ pc = "plain" /\ pc' = "plain" /\ i <= Len(Str) /\ Str[i] \notin Quotes /\ i' = i + 1
      /\ UNCHANGED <<val, typed, tokens, at>>
  BY DEF PlainSymbol
<1>2. Str' = Str /\ (Tidy' <=> Tidy)
  BY <1>1, Unmoved, TidyStays
<1>3. /\ Str \in String /\ Len(Str) \in Nat /\ i \in Nat /\ i \in 1..Len(Str)
      /\ Visible(Str, i, val) /\ (Tidy => OpenAt(Str, i) = None)
  BY <1>1, PlainIs
<1>4. i + 1 <= Len(Str) + 1
  BY <1>3
<1>5. Visible(Str, i + 1, val)
  <2>1. CASE Str[i] # Blank
    <3>1. i \in 1..(i + 1) - 1 /\ i <= Len(Str)
      BY <1>3
    <3> QED BY <2>1, <3>1 DEF Visible
  <2>2. CASE Str[i] = Blank
    <3>1. i \in i..Len(Str) /\ ~\E q \in i..i - 1 : Str[q] \in Quotes
      BY <1>3
    <3>2. PICK k \in 1..i - 1 : k <= Len(Str) /\ Str[k] # Blank
      BY <1>3, <2>2, <3>1 DEF Visible
    <3>3. k \in 1..(i + 1) - 1
      BY <1>3
    <3> QED BY <3>2, <3>3 DEF Visible
  <2> QED BY <2>1, <2>2
<1>6. Tidy => OpenAt(Str, i + 1) = None
  <2>1. OpenAt(Str, i + 1) = Next1(Str, i, OpenAt(Str, i))
    BY <1>3, OpenAtStep
  <2>2. Str[i] \in Symbols
    BY <1>3, StringIs
  <2> QED BY <1>1, <1>3, <2>1, <2>2, SymbolsApart DEF Next1
<1>7. BlankInv'
  BY <1>1, <1>2, <1>4, <1>5 DEF BlankInv
<1>8. ProperInv'
  BY <1>1, <1>2, <1>6 DEF ProperInv
<1> QED BY <1>7, <1>8

LEMMA PlainReferenceWalk ==
  ASSUME WalkInv, PlainReference
  PROVE  BlankInv' /\ ProperInv'
<1> USE DEF WalkInv
<1> DEFINE w == val[Str[i]]
           r == Substitute(Str, i)
<1>1. /\ pc = "plain" /\ pc' = "plain" /\ i <= Len(Str) /\ Str[i] \in Refs /\ SetStr(r)
      /\ i' = i + Len(w) /\ UNCHANGED <<val, typed, at>>
  BY DEF PlainReference, BehindValue
<1>2. /\ at <= Len(tokens) /\ Str \in String /\ Len(Str) \in Nat
      /\ Visible(Str, i, val) /\ val \in [Refs -> String]
      /\ Tidy => OpenAt(Str, i) = None /\ Proper(Str, val)
  BY <1>1, PlainIs
<1>3. /\ w \in String /\ i \in 1..Len(Str) /\ r \in String /\ Replaced(Str, w, i, r)
      /\ Str[i] \notin Quotes
  BY <1>1, <1>2, SubstituteIs, SymbolsApart DEF IndexedInv
<1>4. /\ Len(tokens') = Len(tokens) /\ Str' = r
      /\ \A k \in 1..Len(tokens) : k # at => tokens'[k] = tokens[k]
  <2> HIDE DEF r
  <2> QED BY <1>1, <1>2, <1>3, SetStrIs DEF IndexedInv
<1>5. \A k \in at + 1..Len(tokens) : tokens'[k] = tokens[k]
  <2>1. \A k \in at + 1..Len(tokens) : k \in 1..Len(tokens) /\ k # at
    BY <1>2, TokenIs DEF IndexedInv
  <2> QED BY <1>4, <2>1
<1>6. i + Len(w) <= Len(r) + 1 /\ Visible(r, i + Len(w), val)
  <2> HIDE DEF r
  <2> QED BY <1>1, <1>2, <1>3, VisibleReplaced
<1>7. Tidy => OpenAt(r, i + Len(w)) = None /\ Proper(r, val)
  <2> HIDE DEF r, w
  <2> SUFFICES ASSUME Tidy PROVE OpenAt(r, i + Len(w)) = None /\ Proper(r, val)
    OBVIOUS
  <2>1. \A d \in 1..Len(w) : w[d] \notin Quotes
    <3>1. ~Holds(w, Quotes)
      BY <1>1 DEF Tidy, w
    <3> QED BY <1>3, <3>1, HoldsIs
  <2>2. NoBlank(val) => \A d \in 1..Len(w) : w[d] # Blank
    <3>1. NoBlank(val) => ~Holds(w, {Blank})
      BY <1>1 DEF NoBlank, w
    <3> QED BY <1>3, <3>1, HoldsIs
  <2>3. /\ OpenAt(r, i + Len(w)) = None
        /\ Balanced(Str) => Balanced(r)
        /\ Nested(r) => Nested(Str)
        /\ HasFreeBlank(r) => HasFreeBlank(Str) \/ \E d \in 1..Len(w) : w[d] = Blank
    BY <1>2, <1>3, <2>1, ReplacedIsAlike
  <2> QED BY <1>2, <2>2, <2>3 DEF Proper
<1> HIDE DEF r, w
<1>8. Tidy' <=> Tidy
  BY <1>1, TidyStays
<1>9. BlankInv'
  BY <1>1, <1>4, <1>5, <1>6 DEF BlankInv
<1>10. ProperInv'
  BY <1>1, <1>4, <1>5, <1>7, <1>8 DEF ProperInv
<1> QED BY <1>9, <1>10

LEMMA PlainEndWalk ==
  ASSUME WalkInv, PlainEnd
  PROVE  BlankInv' /\ ProperInv'
<1> USE DEF WalkInv
<1>1. /\ pc = "plain" /\ pc' = "split" /\ i > Len(Str) /\ UNCHANGED <<val, typed, tokens, at>>
  BY DEF PlainEnd, Go
<1>2. Str' = Str /\ (Tidy' <=> Tidy)
  BY <1>1, Unmoved, TidyStays
<1>3. i = Len(Str) + 1 /\ Visible(Str, i, val)
  BY <1>1, PlainIs
<1>4. Visible(Str, Len(Str) + 1, val)
  BY <1>3
<1>5. BlankInv'
  BY <1>1, <1>2, <1>4 DEF BlankInv
<1>6. ProperInv'
  BY <1>1, <1>2 DEF ProperInv
<1> QED BY <1>5, <1>6

(* What the word looks like when it may be split. *)
LEMMA SplitFrom ==
  ASSUME WalkInv, pc = "split"
  PROVE  /\ at <= Len(tokens) /\ Str \in String /\ Len(Str) \in Nat
         /\ HasFreeBlank(Str) => PieceStarts(Str) # {} \/ SomeBlank(val)
         /\ Tidy => Balanced(Str) /\ (HasFreeBlank(Str) => ~Nested(Str))
<1>1. at <= Len(tokens) /\ Str \in String /\ Len(Str) \in Nat
  BY TokenIs DEF WalkInv, IndexedInv, TypeInv
<1>2. Visible(Str, Len(Str) + 1, val)
  BY DEF WalkInv, BlankInv
<1>3. HasFreeBlank(Str) => PieceStarts(Str) # {} \/ SomeBlank(val)
  <2> SUFFICES ASSUME HasFreeBlank(Str), PieceStarts(Str) = {} PROVE SomeBlank(val)
    OBVIOUS
  <2>1. \A p \in 1..Len(Str) : Str[p] = Blank
    BY <1>1, NoPieceIsBlank
  <2>2. Len(Str) + 1 # 1
    BY <1>1 DEF HasFreeBlank
  <2>3. \A k \in 1..(Len(Str) + 1) - 1 : k \in 1..Len(Str)
    BY <1>1
  <2> QED BY <1>2, <2>1, <2>2, <2>3 DEF Visible
<1>4. Tidy => Proper(Str, val)
  BY <1>1 DEF WalkInv, ProperInv
<1> QED BY <1>1, <1>3, <1>4 DEF Proper

LEMMA UnsplitWalk ==
  ASSUME WalkInv, NoSplit \/ SplitOverrun
  PROVE  BlankInv' /\ ProperInv'
<1> USE DEF WalkInv
<1>1. /\ pc = "split" /\ UNCHANGED <<val, typed, tokens, at>>
      /\ \/ pc' \in {"count", "handle"}
         \/ /\ pc' = "overrun"
            /\ IF HasFreeBlank(Str) THEN ~PairedBefore(Str, Len(Str) + 1) ELSE ~Balanced(Str)
  BY DEF NoSplit, SplitOverrun, Go, AfterSplit
<1>2. Str' = Str /\ (Tidy' <=> Tidy)
  BY <1>1, Unmoved, TidyStays
<1>3. /\ at <= Len(tokens) /\ Str \in String /\ Len(Str) \in Nat
      /\ Tidy => Balanced(Str) /\ (HasFreeBlank(Str) => ~Nested(Str))
  BY <1>1, SplitFrom
<1>4. Tidy => pc' # "overrun"
  <2> SUFFICES ASSUME Tidy, HasFreeBlank(Str) PROVE PairedBefore(Str, Len(Str) + 1)
    BY <1>1, <1>3
  <2>1. Len(Str) + 1 \in 1..Len(Str) + 1
    BY <1>3
  <2>2. PairedBefore(Str, Len(Str) + 1) <=> OpenAt(Str, Len(Str) + 1) = None
    BY <1>3, <2>1, PairedIsOpen
  <2> QED BY <1>3, <2>2 DEF Balanced
<1>5. BlankInv'
  BY <1>1, <1>2, <1>3 DEF BlankInv
<1>6. ProperInv'
  BY <1>1, <1>2, <1>4 DEF ProperInv
<1> QED BY <1>5, <1>6

LEMMA SplitWalk ==
  ASSUME WalkInv, Split
  PROVE  BlankInv' /\ ProperInv'
<1> USE DEF WalkInv
<1>1. pc = "split" /\ HasFreeBlank(Str) /\ UNCHANGED <<val, typed, at>>
  BY DEF Split
<1>2. Tidy' <=> Tidy
  BY <1>1, TidyStays
<1>3. /\ at <= Len(tokens) /\ Str \in String
      /\ PieceStarts(Str) # {} \/ SomeBlank(val)
      /\ Tidy => Balanced(Str) /\ ~Nested(Str)
  BY <1>1, SplitFrom
<1>4. CASE pc' = "cut"
  <2>1. UNCHANGED tokens
    BY <1>4, SplitCut
  <2> QED BY <1>1, <1>2, <1>4, <2>1 DEF BlankInv, ProperInv
<1>5. CASE pc' # "cut"
  <2> DEFINE n == Len(tokens')
             t == tokens'
             p == Pieces(Str)
  <2>1. /\ n \in Nat
        /\ p # <<>> => at <= n
        /\ \A k \in at..n :
             \/ \E q \in 1..Len(p) : t[k] = [op |-> FALSE, str |-> p[q], index |-> <<>>]
             \/ \E m \in at + 1..Len(tokens) : t[k] = tokens[m]
    BY <1>5, SplitIs DEF IndexedInv
  <2>2. /\ \A q \in 1..Len(p) : \E k \in PieceStarts(Str) : p[q] = PieceAt(Str, k)
        /\ PieceStarts(Str) # {} => Len(p) > 0
    BY <1>3, PiecesAre
  <2>3. pc' \in {"count", "handle"}
    BY <1>5 DEF Split, Go, AfterSplit
  <2> HIDE DEF n, t, p
  <2>4. \A q \in 1..Len(p) : Solid(p[q]) /\ (Tidy => Proper(p[q], val))
    BY <1>3, <2>2, PieceIsSolid, PieceIsProper DEF Proper
  <2>5. ASSUME NEW k \in at..n
        PROVE  (~t[k].op => Solid(t[k].str)) /\ (Tidy => Proper(t[k].str, val))
    <3>1. CASE \E q \in 1..Len(p) : t[k] = [op |-> FALSE, str |-> p[q], index |-> <<>>]
      <4>1. PICK q \in 1..Len(p) : t[k] = [op |-> FALSE, str |-> p[q], index |-> <<>>]
        BY <3>1
      <4>2. t[k].str = p[q]
        BY <4>1
      <4> QED BY <2>4, <4>2
    <3>2. CASE \E m \in at + 1..Len(tokens) : t[k] = tokens[m]
      BY <3>2 DEF BlankInv, ProperInv
    <3> QED BY <2>1, <3>1, <3>2
  <2>6. at \in Nat
    BY DEF IndexedInv, TypeInv, Places
  <2>7. (\A k \in at + 1..n : k \in at..n) /\ (at <= n => at \in at..n)
    BY <2>1, <2>6
  <2>8. /\ \A k \in at + 1..n : ~t[k].op => Solid(t[k].str)
        /\ Tidy => /\ \A k \in at + 1..n : Proper(t[k].str, val)
                   /\ at <= n => Proper(t[at].str, val)
    BY <2>5, <2>7
  <2>9. at <= n \/ SomeBlank(val)
    <3>1. Len(p) > 0 => p # <<>>
      OBVIOUS
    <3> QED BY <1>3, <2>1, <2>2, <3>1
  <2>10. BlankInv'
    BY <1>1, <2>3, <2>8, <2>9 DEF BlankInv, n, t
  <2>11. ProperInv'
    BY <1>1, <1>2, <2>3, <2>8 DEF ProperInv, Str, n, t
  <2> QED BY <2>10, <2>11
<1> QED BY <1>4, <1>5

LEMMA EndWalk ==
  ASSUME WalkInv, Done \/ HandleNull
  PROVE  BlankInv' /\ ProperInv'
<1> USE DEF WalkInv
<1>1. /\ UNCHANGED <<val, typed, tokens, at>>
      /\ \/ pc' = "done"
         \/ pc \in {"count", "handle"} /\ at > Len(tokens) /\ pc' = "crash"
  BY DEF Done, HandleNull
<1>2. Str' = Str /\ (Tidy' <=> Tidy)
  BY <1>1, Unmoved, TidyStays
<1>3. pc' = "crash" => SomeBlank(val)
  <2>1. at \in Nat /\ Len(tokens) \in Nat
    BY DEF IndexedInv, TypeInv, Places
  <2> QED BY <1>1, <2>1 DEF BlankInv
<1>4. BlankInv'
  BY <1>1, <1>2, <1>3 DEF BlankInv
<1>5. ProperInv'
  BY <1>1, <1>2 DEF ProperInv
<1> QED BY <1>4, <1>5

(* The steps of save_index and quote_handling: they change no other word   *)
(* than the one they are at. *)
WordStep ==
  \/ CountQuotes \/ OpenQuote \/ OuterSymbol \/ IndexEnd \/ CloseQuote \/ InnerSymbol
  \/ InnerReference \/ HandleWord \/ RemovePair \/ KeepSymbol

LEMMA WordStepIs ==
  ASSUME WalkInv, WordStep
  PROVE  /\ UNCHANGED <<val, typed, at>> /\ at <= Len(tokens) /\ Len(tokens') = Len(tokens)
         /\ tokens'[at].op = tokens[at].op
         /\ \A k \in 1..Len(tokens) : k # at => tokens'[k] = tokens[k]
<1> USE DEF WalkInv
<1>1. UNCHANGED <<val, typed, at>> /\ at <= Len(tokens)
  BY DEF WordStep, CountQuotes, OpenQuote, OuterSymbol, IndexEnd, CloseQuote, InnerSymbol,
         InnerReference, HandleWord, RemovePair, KeepSymbol, AtIndexed, AtQuote,
         IndexedInv, TypeInv
<1>2. CASE AddIndex
  BY <1>1, <1>2, AddIndexIs DEF IndexedInv
<1>3. CASE InnerReference
  <2>1. SetStr(Substitute(Str, i)) /\ i <= Len(Str) /\ Str[i] \in Refs
    BY <1>3 DEF InnerReference
  <2>2. Substitute(Str, i) \in String
    BY <1>1, <2>1, SubstituteIs DEF IndexedInv
  <2> QED BY <1>1, <2>1, <2>2, SetStrIs DEF IndexedInv
<1>4. CASE RemovePair
  BY <1>1, <1>4, RemovePairIs
<1>5. CASE UNCHANGED tokens
  BY <1>1, <1>5
<1>6. AddIndex \/ InnerReference \/ RemovePair \/ UNCHANGED tokens
  BY DEF WordStep, CountQuotes, OpenQuote, OuterSymbol, IndexEnd, CloseQuote, InnerSymbol,
         HandleWord, KeepSymbol
<1> QED BY <1>1, <1>2, <1>3, <1>4, <1>5, <1>6

LEMMA WordWalk ==
  ASSUME WalkInv, WordStep
  PROVE  BlankInv' /\ ProperInv'
<1> USE DEF WalkInv
<1>1. /\ UNCHANGED <<val, typed, at>> /\ at <= Len(tokens) /\ Len(tokens') = Len(tokens)
      /\ \A k \in 1..Len(tokens) : k # at => tokens'[k] = tokens[k]
  BY WordStepIs
<1>2. \A k \in at + 1..Len(tokens) : k \in 1..Len(tokens) /\ k # at
  BY <1>1, TokenIs DEF IndexedInv
<1>3. /\ pc' \in {"handle", "outer", "inner", "strip", "overrun"}
      /\ pc' = "overrun" => pc = "count" /\ ~Balanced(Str)
  BY DEF WordStep, CountQuotes, OpenQuote, OuterSymbol, IndexEnd, CloseQuote, InnerSymbol,
         InnerReference, HandleWord, RemovePair, KeepSymbol, AtIndexed, AtQuote, Go
<1>4. Tidy' <=> Tidy
  BY <1>1, TidyStays
<1>5. Tidy => pc' # "overrun"
  BY <1>1, <1>3 DEF ProperInv, Proper
<1>6. BlankInv'
  BY <1>1, <1>2, <1>3 DEF BlankInv
<1>7. ProperInv'
  BY <1>1, <1>2, <1>3, <1>4, <1>5 DEF ProperInv
<1> QED BY <1>6, <1>7

LEMMA WalkStep == WalkInv /\ [Next]_vars => WalkInv'
<1> SUFFICES ASSUME WalkInv, [Next]_vars PROVE WalkInv'
  OBVIOUS
<1>1. IndexedInv'
  BY IndexedStep DEF WalkInv
<1>2. BlankInv' /\ ProperInv'
  <2>1. CASE UNCHANGED vars
    <3>1. UNCHANGED <<val, typed, tokens, at, pc, i>>
      BY <2>1 DEF vars
    <3>2. Str' = Str /\ (Tidy' <=> Tidy)
      BY <3>1, Unmoved, TidyStays
    <3> QED BY <3>1, <3>2 DEF WalkInv, BlankInv, ProperInv
  <2>2. CASE Next
    BY <2>1, <2>2, VisitWalk, NextWordWalk, PlainQuotedWalk, PlainSymbolWalk,
       PlainReferenceWalk, PlainEndWalk, UnsplitWalk, SplitWalk, EndWalk, WordWalk
       DEF Next, Step, Stopped, WordStep
  <2> QED BY <2>1, <2>2
<1> QED BY <1>1, <1>2 DEF WalkInv

LEMMA WalkFailsOddly == WalkInv => FailsOnlyOnOddValues
<1> SUFFICES ASSUME WalkInv PROVE FailsOnlyOnOddValues
  OBVIOUS
<1>1. ASSUME pc = "overrun"
      PROVE  \/ \E r \in Refs : Holds(val[r], Quotes)
             \/ ~NoBlankValue /\ \E w \in TypedWords : Nested(w)
  BY <1>1 DEF WalkInv, ProperInv, Tidy, NoBlank, NoBlankValue
<1>2. ASSUME pc = "crash" PROVE \E r \in Refs : ToSet(val[r]) = {Blank}
  BY <1>2 DEF WalkInv, BlankInv, SomeBlank
<1> QED BY <1>1, <1>2 DEF FailsOnlyOnOddValues

(* For every line that the tokenizer can hand over and every environment:  *)
(* the end of a quote is looked for behind the end of a string only when a *)
(* value holds a quote, or when a value holds a blank and a word nested    *)
(* quotes; and *temp is NULL where it is read only when a value is all     *)
(* blank.                                                                  *)
THEOREM OnlyOddValuesFail == Spec => []FailsOnlyOnOddValues
<1>1. Init => WalkInv
  BY InvInit, WalkInit DEF WalkInv, IndexedInv
<1> QED BY <1>1, WalkStep, WalkFailsOddly, PTL DEF Spec

-----------------------------------------------------------------------------
(* What reading a word gives, one symbol after the other *)

Reader == [open : OpenValues, cur : String, words : Seq(String)]

(* Two sequences of results that take equal steps. *)
EqualSteps(f, g, n) == \A k \in 1..n : f[k - 1] = g[k - 1] => f[k] = g[k]
Alike(f, g, n) == \A k \in 0..n : f[k] = g[k]

LEMMA StepByStep ==
  ASSUME NEW n \in Nat, NEW f, NEW g, f[0] = g[0], EqualSteps(f, g, n)
  PROVE  Alike(f, g, n)
<1> USE DEF EqualSteps, Alike
<1> DEFINE S == {k \in 0..n : f[k] = g[k]}
<1>1. 0 \in S
  OBVIOUS
<1>2. ASSUME NEW m \in 0..n - 1, m \in S PROVE m + 1 \in S
  <2>1. m + 1 \in 1..n /\ m + 1 \in 0..n /\ (m + 1) - 1 = m
    OBVIOUS
  <2> QED BY <1>2, <2>1
<1>3. \A k \in 0..n : k \in S
  <2> HIDE DEF S
  <2> QED BY <1>1, <1>2, Upward
<1> QED BY <1>3

LEMMA StartIs == Start \in Reader
  BY DEF Start, Reader, OpenValues, String

LEMMA CutIs ==
  ASSUME NEW a \in Reader
  PROVE  /\ Cut(a) \in Reader /\ Cut(a).open = a.open /\ Cut(a).cur = <<>>
         /\ Cut(a).words = IF a.cur = <<>> THEN a.words ELSE Append(a.words, a.cur)
<1> DEFINE b == [a EXCEPT !.words = Append(@, a.cur), !.cur = <<>>]
<1>1. a.open \in OpenValues /\ a.cur \in String /\ a.words \in Seq(String)
  BY DEF Reader
<1>2. Append(a.words, a.cur) \in Seq(String) /\ <<>> \in String
  <2>1. <<>> \in String
    BY DEF String
  <2> QED BY <1>1, <2>1
<1> DEFINE w == Append(a.words, a.cur)
           d == [a EXCEPT !.words = w]
           e == [d EXCEPT !.cur = <<>>]
<1> HIDE DEF w
<1>3. d \in Reader /\ d.open = a.open /\ d.words = w
  BY <1>2 DEF Reader, w
<1> HIDE DEF d
<1>4. e \in Reader /\ e.open = a.open /\ e.cur = <<>> /\ e.words = w
  BY <1>2, <1>3 DEF Reader
<1>6. b = e
  BY DEF d, w
<1> HIDE DEF e
<1> HIDE DEF b
<1>5. Cut(a) = IF a.cur = <<>> THEN a ELSE b
  BY DEF Cut, b
<1> QED BY <1>4, <1>5, <1>6 DEF w

LEMMA TakeIs ==
  ASSUME NEW a \in Reader, NEW c \in Symbols
  PROVE  /\ Take(a, c) \in Reader /\ Take(a, c).open = a.open
         /\ Take(a, c).cur = Append(a.cur, c) /\ Take(a, c).words = a.words
<1>1. a.open \in OpenValues /\ a.cur \in String /\ a.words \in Seq(String)
  BY DEF Reader
<1>2. Append(a.cur, c) \in String
  BY <1>1 DEF String
<1> DEFINE x == Append(a.cur, c)
           b == [a EXCEPT !.cur = x]
<1> HIDE DEF x
<1>3. b \in Reader /\ b.open = a.open /\ b.cur = x /\ b.words = a.words
  BY <1>2 DEF Reader, x
<1> QED BY <1>3 DEF Take, x

LEMMA TakeFreeIs ==
  ASSUME NEW a \in Reader, NEW c \in Symbols
  PROVE  TakeFree(a, c) \in Reader /\ TakeFree(a, c).open = a.open
  BY CutIs, TakeIs DEF TakeFree

Takes(a, v) ==
  LET taken[k \in 0..Len(v)] == IF k = 0 THEN a ELSE TakeFree(taken[k - 1], v[k])
  IN taken

LEMMA TakesStep ==
  ASSUME NEW a \in Reader, NEW v \in String
  PROVE  /\ TakeValue(a, v) = Takes(a, v)[Len(v)]
         /\ Takes(a, v)[0] = a
         /\ \A k \in 0..Len(v) : Takes(a, v)[k] \in Reader
         /\ \A k \in 1..Len(v) : Takes(a, v)[k] = TakeFree(Takes(a, v)[k - 1], v[k])
<1> DEFINE n == Len(v)
           next(k, b) == TakeFree(b, v[k])
           step == [k \in 1..n |-> [b \in Reader |-> next(k, b)]]
           body(f) == [k \in 0..n |-> IF k = 0 THEN a ELSE next(k, f[k - 1])]
<1>1. n \in Nat /\ a \in Reader
  BY StringIs
<1>2. ASSUME NEW k \in 1..n, NEW b \in Reader PROVE next(k, b) \in Reader
  BY StringIs, TakeFreeIs
<1>3. step \in [1..n -> [Reader -> Reader]]
  <2> HIDE DEF next
  <2> QED BY <1>2
<1>4. PICK f : Recursion(f, n, Reader, a, step)
  <2> HIDE DEF step, n
  <2> QED BY <1>1, <1>3, RecursionExists
<1>5. f = body(f)
  <2>1. \A k \in 1..n : f[k - 1] \in Reader
    <3> HIDE DEF step
    <3> QED BY <1>1, <1>4 DEF Recursion
  <2>2. \A k \in 1..n : step[k][f[k - 1]] = next(k, f[k - 1])
    <3> HIDE DEF next
    <3> QED BY <2>1
  <2> HIDE DEF step, next
  <2>3. \A k \in 0..n : f[k] = IF k = 0 THEN a ELSE next(k, f[k - 1])
    BY <1>1, <1>4, <2>2 DEF Recursion
  <2>4. f = [k \in 0..n |-> f[k]]
    BY <1>4 DEF Recursion
  <2> QED BY <2>3, <2>4
<1> DEFINE g == Takes(a, v)
<1>6. g = CHOOSE h : h = [k \in 0..n |-> IF k = 0 THEN a ELSE TakeFree(h[k - 1], v[k])]
  BY Zenon DEF Takes
<1>7. g = body(g)
  <2> HIDE DEF g
  <2> QED BY <1>5, <1>6, Zenon
<1>8. \A k \in 0..n : g[k] = IF k = 0 THEN a ELSE next(k, g[k - 1])
  <2> HIDE DEF g, n, next
  <2> QED BY ONLY <1>7
<1>9. g[0] = a /\ \A k \in 1..n : g[k] = next(k, g[k - 1])
  <2> HIDE DEF g, next
  <2> QED BY <1>1, <1>8
<1>10. \A k \in 0..n : g[k] \in Reader
  <2> DEFINE S == {k \in 0..n : g[k] \in Reader}
  <2> HIDE DEF g, next, n
  <2>1. 0 \in S
    BY <1>1, <1>9
  <2>2. ASSUME NEW m \in 0..n - 1, m \in S PROVE m + 1 \in S
    <3>1. m + 1 \in 1..n /\ m + 1 \in 0..n /\ (m + 1) - 1 = m
      BY <1>1
    <3>2. g[m + 1] = next(m + 1, g[m])
      BY <1>9, <3>1
    <3> QED BY <1>2, <2>2, <3>1, <3>2
  <2>3. \A k \in 0..n : k \in S
    <3> HIDE DEF S
    <3> QED BY <1>1, <2>1, <2>2, Upward
  <2> QED BY <2>3
<1>11. TakeValue(a, v) = g[n]
  BY Zenon DEF TakeValue, Takes
<1> QED BY <1>9, <1>10, <1>11

LEMMA TakeValueIs ==
  ASSUME NEW a \in Reader, NEW v \in String
  PROVE  TakeValue(a, v) \in Reader /\ TakeValue(a, v).open = a.open
<1> DEFINE n == Len(v)
           f == [k \in 0..n |-> Takes(a, v)[k].open]
           g == [k \in 0..n |-> a.open]
<1>1. n \in Nat
  BY StringIs
<1>2. \A k \in 1..n : f[k - 1] = g[k - 1] => f[k] = g[k]
  <2> SUFFICES ASSUME NEW k \in 1..n PROVE Takes(a, v)[k].open = Takes(a, v)[k - 1].open
    BY <1>1
  <2>1. Takes(a, v)[k - 1] \in Reader /\ v[k] \in Symbols
    BY <1>1, TakesStep, StringIs
  <2> QED BY <2>1, TakesStep, TakeFreeIs
<1>3. f[0] = g[0]
  BY <1>1, TakesStep
<1>4. \A k \in 0..n : f[k] = g[k]
  <2> HIDE DEF f, g, n
  <2>1. EqualSteps(f, g, n)
    BY <1>2 DEF EqualSteps
  <2>2. Alike(f, g, n)
    BY <1>1, <1>3, <2>1, StepByStep
  <2> QED BY <2>2 DEF Alike
<1>5. n \in 0..n
  BY <1>1
<1>6. Takes(a, v)[n].open = a.open
  BY <1>4, <1>5
<1> QED BY <1>5, <1>6, TakesStep

(* What is open behind a symbol. *)
OpenAfter(q, c) == IF q = c THEN None ELSE IF q = None /\ c \in Quotes THEN c ELSE q

LEMMA ReadIs ==
  ASSUME NEW env \in [Refs -> String], NEW a \in Reader, NEW c \in Symbols
  PROVE  Read(env, a, c) \in Reader /\ Read(env, a, c).open = OpenAfter(a.open, c)
<1>0. a.open \in OpenValues /\ a.cur \in String /\ a.words \in Seq(String)
  BY DEF Reader
<1>1. ASSUME NEW o \in OpenValues
      PROVE  [a EXCEPT !.open = o] \in Reader /\ [a EXCEPT !.open = o].open = o
  BY <1>0 DEF Reader
<1>2. c \in Quotes => c \in OpenValues
  BY DEF OpenValues
<1>3. None \in OpenValues /\ c # None
  BY SymbolsApart DEF OpenValues
<1>4. CASE a.open = None
  <2>1. CASE c \in Quotes
    BY <1>1, <1>2, <1>3, <1>4, <2>1 DEF Read, OpenAfter
  <2>2. CASE c \notin Quotes /\ c \in Refs
    <3>1. TakeValue(a, env[c]) \in Reader /\ TakeValue(a, env[c]).open = a.open
      BY <2>2, TakeValueIs
    <3> QED BY <1>3, <1>4, <2>2, <3>1 DEF Read, OpenAfter
  <2>3. CASE c \notin Quotes /\ c \notin Refs
    BY <1>3, <1>4, <2>3, TakeFreeIs DEF Read, OpenAfter
  <2> QED BY <2>1, <2>2, <2>3
<1>5. CASE a.open # None
  <2>1. CASE c = a.open
    BY <1>1, <1>3, <1>5, <2>1 DEF Read, OpenAfter
  <2>2. CASE c # a.open /\ c \in Refs /\ a.open = Double
    <3> DEFINE x == a.cur \o env[c]
               b == [a EXCEPT !.cur = x]
    <3>1. x \in String
      BY <1>0, <2>2 DEF String
    <3> HIDE DEF x
    <3>2. b \in Reader /\ b.open = a.open
      BY <3>1 DEF Reader
    <3>3. Read(env, a, c) = b
      BY <1>5, <2>2 DEF Read, x
    <3> HIDE DEF b
    <3> QED BY <1>5, <2>2, <3>2, <3>3 DEF OpenAfter
  <2>3. CASE c # a.open /\ ~(c \in Refs /\ a.open = Double)
    BY <1>5, <2>3, TakeIs DEF Read, OpenAfter
  <2> QED BY <2>1, <2>2, <2>3
<1> QED BY <1>4, <1>5

Reads(env, a, s) ==
  LET read[k \in 0..Len(s)] == IF k = 0 THEN a ELSE Read(env, read[k - 1], s[k])
  IN read

LEMMA ReadsStep ==
  ASSUME NEW env \in [Refs -> String], NEW a \in Reader, NEW s \in String
  PROVE  /\ ReadAll(env, a, s) = Reads(env, a, s)[Len(s)]
         /\ Reads(env, a, s)[0] = a
         /\ \A k \in 0..Len(s) : Reads(env, a, s)[k] \in Reader
         /\ \A k \in 1..Len(s) : Reads(env, a, s)[k] = Read(env, Reads(env, a, s)[k - 1], s[k])
<1> DEFINE n == Len(s)
           next(k, b) == Read(env, b, s[k])
           step == [k \in 1..n |-> [b \in Reader |-> next(k, b)]]
           body(f) == [k \in 0..n |-> IF k = 0 THEN a ELSE next(k, f[k - 1])]
<1>1. n \in Nat /\ a \in Reader
  BY StringIs
<1>2. ASSUME NEW k \in 1..n, NEW b \in Reader PROVE next(k, b) \in Reader
  BY StringIs, ReadIs
<1>3. step \in [1..n -> [Reader -> Reader]]
  <2> HIDE DEF next
  <2> QED BY <1>2
<1>4. PICK f : Recursion(f, n, Reader, a, step)
  <2> HIDE DEF step, n
  <2> QED BY <1>1, <1>3, RecursionExists
<1>5. f = body(f)
  <2>1. \A k \in 1..n : f[k - 1] \in Reader
    <3> HIDE DEF step
    <3> QED BY <1>1, <1>4 DEF Recursion
  <2>2. \A k \in 1..n : step[k][f[k - 1]] = next(k, f[k - 1])
    <3> HIDE DEF next
    <3> QED BY <2>1
  <2> HIDE DEF step, next
  <2>3. \A k \in 0..n : f[k] = IF k = 0 THEN a ELSE next(k, f[k - 1])
    BY <1>1, <1>4, <2>2 DEF Recursion
  <2>4. f = [k \in 0..n |-> f[k]]
    BY <1>4 DEF Recursion
  <2> QED BY <2>3, <2>4
<1> DEFINE g == Reads(env, a, s)
<1>6. g = CHOOSE h : h = [k \in 0..n |-> IF k = 0 THEN a ELSE Read(env, h[k - 1], s[k])]
  BY Zenon DEF Reads
<1>7. g = body(g)
  <2> HIDE DEF g
  <2> QED BY <1>5, <1>6, Zenon
<1>8. \A k \in 0..n : g[k] = IF k = 0 THEN a ELSE next(k, g[k - 1])
  <2> HIDE DEF g, n, next
  <2> QED BY ONLY <1>7
<1>9. g[0] = a /\ \A k \in 1..n : g[k] = next(k, g[k - 1])
  <2> HIDE DEF g, next
  <2> QED BY <1>1, <1>8
<1>10. \A k \in 0..n : g[k] \in Reader
  <2> DEFINE S == {k \in 0..n : g[k] \in Reader}
  <2> HIDE DEF g, next, n
  <2>1. 0 \in S
    BY <1>1, <1>9
  <2>2. ASSUME NEW m \in 0..n - 1, m \in S PROVE m + 1 \in S
    <3>1. m + 1 \in 1..n /\ m + 1 \in 0..n /\ (m + 1) - 1 = m
      BY <1>1
    <3>2. g[m + 1] = next(m + 1, g[m])
      BY <1>9, <3>1
    <3> QED BY <1>2, <2>2, <3>1, <3>2
  <2>3. \A k \in 0..n : k \in S
    <3> HIDE DEF S
    <3> QED BY <1>1, <2>1, <2>2, Upward
  <2> QED BY <2>3
<1>11. ReadAll(env, a, s) = g[n]
  BY Zenon DEF ReadAll, Reads
<1> QED BY <1>9, <1>10, <1>11

(* The n symbols behind c in s are those behind d in t. *)
SameText(s, c, t, d, n) ==
  /\ c \in 0..Len(s) /\ d \in 0..Len(t) /\ c + n <= Len(s) /\ d + n <= Len(t)
  /\ \A k \in 1..n : s[c + k] = t[d + k]

SameReading(env, a, s, c, b, t, d, n) == \A k \in 0..n : Reads(env, a, s)[c + k] = Reads(env, b, t)[d + k]

(* Equal stretches are read alike. *)
LEMMA ReadsAgree ==
  ASSUME NEW env \in [Refs -> String], NEW a \in Reader, NEW b \in Reader,
         NEW s \in String, NEW t \in String, NEW c, NEW d, NEW n \in Nat,
         SameText(s, c, t, d, n), Reads(env, a, s)[c] = Reads(env, b, t)[d]
  PROVE  SameReading(env, a, s, c, b, t, d, n)
<1> DEFINE f == [k \in 0..n |-> Reads(env, a, s)[c + k]]
           g == [k \in 0..n |-> Reads(env, b, t)[d + k]]
<1>1. Len(s) \in Nat /\ Len(t) \in Nat
  BY StringIs
<1>2. f[0] = g[0]
  <2>1. c + 0 = c /\ d + 0 = d /\ 0 \in 0..n
    BY <1>1 DEF SameText
  <2> QED BY <2>1
<1>3. ASSUME NEW k \in 1..n, f[k - 1] = g[k - 1] PROVE f[k] = g[k]
  <2>1. /\ k \in 0..n /\ k - 1 \in 0..n /\ c + k \in 1..Len(s) /\ d + k \in 1..Len(t)
        /\ (c + k) - 1 = c + (k - 1) /\ (d + k) - 1 = d + (k - 1)
    BY <1>1 DEF SameText
  <2>2. /\ Reads(env, a, s)[c + k] = Read(env, Reads(env, a, s)[c + (k - 1)], s[c + k])
        /\ Reads(env, b, t)[d + k] = Read(env, Reads(env, b, t)[d + (k - 1)], t[d + k])
    BY <2>1, ReadsStep
  <2>3. s[c + k] = t[d + k]
    BY DEF SameText
  <2> QED BY <1>3, <2>1, <2>2, <2>3
<1>4. \A k \in 0..n : f[k] = g[k]
  <2> HIDE DEF f, g
  <2>1. EqualSteps(f, g, n)
    BY <1>3 DEF EqualSteps
  <2>2. Alike(f, g, n)
    BY <1>1, <1>2, <2>1, StepByStep
  <2> QED BY <2>2 DEF Alike
<1> QED BY <1>4 DEF SameReading

(* A stretch is read like a string of its own. *)
LEMMA ReadsStretch ==
  ASSUME NEW env \in [Refs -> String], NEW a \in Reader, NEW s \in String, NEW x \in String,
         NEW c \in 0..Len(s), c + Len(x) <= Len(s), \A k \in 1..Len(x) : s[c + k] = x[k]
  PROVE  /\ Reads(env, a, s)[c] \in Reader
         /\ Reads(env, a, s)[c + Len(x)] = ReadAll(env, Reads(env, a, s)[c], x)
<1> DEFINE b == Reads(env, a, s)[c]
           n == Len(x)
<1>1. b \in Reader
  BY ReadsStep
<1> HIDE DEF b
<1>2. n \in Nat /\ Len(s) \in Nat /\ 0 \in 0..Len(x) /\ 0 + n <= Len(x) /\ n \in 0..n /\ 0 + n = n
  BY StringIs
<1>3. Reads(env, b, x)[0] = Reads(env, a, s)[c] /\ ReadAll(env, b, x) = Reads(env, b, x)[n]
  BY <1>1, ReadsStep DEF b
<1>4. SameText(s, c, x, 0, n)
  BY <1>2 DEF SameText
<1>5. SameReading(env, a, s, c, b, x, 0, n)
  <2> HIDE DEF n
  <2> QED BY <1>1, <1>2, <1>3, <1>4, ReadsAgree
<1>6. Reads(env, a, s)[c + n] = Reads(env, b, x)[0 + n]
  <2> HIDE DEF n
  <2> QED BY <1>2, <1>5 DEF SameReading
<1> QED BY <1>1, <1>2, <1>3, <1>6 DEF b

LEMMA ReadsOpen ==
  ASSUME NEW env \in [Refs -> String], NEW a \in Reader, a.open = None, NEW s \in String
  PROVE  \A k \in 0..Len(s) : Reads(env, a, s)[k].open = OpenAt(s, k + 1)
<1> DEFINE n == Len(s)
           f == [k \in 0..n |-> Reads(env, a, s)[k].open]
           g == [k \in 0..n |-> OpenAt(s, k + 1)]
<1>1. n \in Nat
  BY StringIs
<1>2. f[0] = g[0]
  <2>1. 0 \in 0..n /\ 0 + 1 = 1
    BY <1>1
  <2> QED BY <1>1, <2>1, ReadsStep, OpenAtStep
<1>3. ASSUME NEW k \in 1..n, f[k - 1] = g[k - 1] PROVE f[k] = g[k]
  <2> DEFINE q == OpenAt(s, k)
  <2>1. k \in 0..n /\ k - 1 \in 0..n /\ (k - 1) + 1 = k /\ s[k] \in Symbols /\ k \in 1..n + 1
    BY <1>1, StringIs
  <2>2. Reads(env, a, s)[k - 1] \in Reader /\ Reads(env, a, s)[k] = Read(env, Reads(env, a, s)[k - 1], s[k])
    BY <2>1, ReadsStep
  <2>3. Reads(env, a, s)[k - 1].open = q
    BY <1>3, <2>1
  <2>4. Reads(env, a, s)[k].open = OpenAfter(q, s[k])
    BY <2>1, <2>2, <2>3, ReadIs
  <2>5. OpenAt(s, k + 1) = Next1(s, k, q)
    BY <1>1, OpenAtStep
  <2>6. OpenAfter(q, s[k]) = Next1(s, k, q)
    BY DEF OpenAfter, Next1
  <2> QED BY <2>1, <2>4, <2>5, <2>6
<1>4. \A k \in 0..n : f[k] = g[k]
  <2> HIDE DEF f, g, n
  <2>1. EqualSteps(f, g, n)
    BY <1>3 DEF EqualSteps
  <2>2. Alike(f, g, n)
    BY <1>1, <1>2, <2>1, StepByStep
  <2> QED BY <2>2 DEF Alike
<1> QED BY <1>4

(* Nothing in v is syntax. *)
Plain(v) == \A k \in 1..Len(v) : v[k] \notin Quotes /\ v[k] \notin Refs

(* Such a text outside quotes is read as an unquoted value is taken. *)
LEMMA PlainIsTaken ==
  ASSUME NEW env \in [Refs -> String], NEW a \in Reader, a.open = None, NEW v \in String, Plain(v)
  PROVE  ReadAll(env, a, v) = TakeValue(a, v)
<1> DEFINE n == Len(v)
           f == Reads(env, a, v)
           g == Takes(a, v)
<1>1. n \in Nat /\ n \in 0..n /\ \A k \in 1..n : v[k] \in Symbols
  BY StringIs
<1>2. \A k \in 0..n : OpenAt(v, k + 1) = None
  <2> SUFFICES ASSUME NEW k \in 0..n PROVE OpenAt(v, k + 1) = None
    OBVIOUS
  <2>1. 1 \in 1..n + 1 /\ k + 1 \in 1..n + 1
    BY <1>1
  <2>2. OpenAt(v, 1) = None
    BY <1>1, OpenAtStep
  <2>3. \A m \in 1..(k + 1) - 1 : v[m] \notin Quotes
    BY <1>1 DEF Plain
  <2> QED BY <1>1, <2>1, <2>2, <2>3, OpenStays
<1>3. f[0] = g[0]
  BY ReadsStep, TakesStep
<1>4. ASSUME NEW k \in 1..n, f[k - 1] = g[k - 1] PROVE f[k] = g[k]
  <2>1. k - 1 \in 0..n
    BY <1>1
  <2>2. f[k - 1].open = None
    BY <1>2, <2>1, ReadsOpen
  <2>3. f[k] = Read(env, f[k - 1], v[k]) /\ g[k] = TakeFree(g[k - 1], v[k])
    BY ReadsStep, TakesStep
  <2>4. v[k] \notin Quotes /\ v[k] \notin Refs
    BY DEF Plain
  <2> QED BY <1>4, <2>2, <2>3, <2>4 DEF Read
<1>5. \A k \in 0..n : f[k] = g[k]
  <2> HIDE DEF f, g, n
  <2>1. EqualSteps(f, g, n)
    BY <1>4 DEF EqualSteps
  <2>2. Alike(f, g, n)
    BY <1>1, <1>3, <2>1, StepByStep
  <2> QED BY <2>2 DEF Alike
<1>6. f[n] = g[n]
  BY <1>1, <1>5
<1> QED BY <1>6, ReadsStep, TakesStep

LEMMA AppendBehind ==
  ASSUME NEW A, NEW a \in Seq(A), NEW b \in Seq(A), NEW c \in A
  PROVE  a \o Append(b, c) = Append(a \o b, c) /\ a \o b \in Seq(A)
<1>1. <<c>> \in Seq(A) /\ Append(b, c) = b \o <<c>>
  OBVIOUS
<1>2. a \o b \in Seq(A) /\ (a \o b) \o <<c>> = a \o (b \o <<c>>)
  BY <1>1, ConcatAssociative
<1> DEFINE d == a \o b
<1>3. Append(d, c) = d \o <<c>>
  <2>1. d \in Seq(A)
    BY <1>2
  <2> HIDE DEF d
  <2> QED BY <2>1
<1> QED BY <1>1, <1>2, <1>3

(* Between double quotes it is taken as it is. *)
LEMMA QuotedIsTaken ==
  ASSUME NEW env \in [Refs -> String], NEW a \in Reader, a.open = Double,
         NEW v \in String, Plain(v)
  PROVE  ReadAll(env, a, v) = [a EXCEPT !.cur = a.cur \o v]
<1> DEFINE n == Len(v)
           f == Reads(env, a, v)
           x(k) == a.cur \o SubSeq(v, 1, k)
           g == [k \in 0..n |-> [a EXCEPT !.cur = x(k)]]
<1>1. n \in Nat /\ n \in 0..n /\ a.cur \in Seq(Symbols) /\ v \in Seq(Symbols)
  BY StringIs DEF Reader, String
<1>2. x(0) = a.cur
  BY <1>1
<1>3. x(n) = a.cur \o v
  BY <1>1, SubSeqFull
<1>4. \A k \in 1..n : v[k] \in Symbols /\ x(k - 1) \in Seq(Symbols) /\ x(k) = Append(x(k - 1), v[k])
  <2> SUFFICES ASSUME NEW k \in 1..n
               PROVE  v[k] \in Symbols /\ x(k - 1) \in Seq(Symbols) /\ x(k) = Append(x(k - 1), v[k])
    OBVIOUS
  <2> DEFINE p == SubSeq(v, 1, k - 1)
  <2>1. v[k] \in Symbols /\ k \in Nat /\ k > 0 /\ k <= n
    BY <1>1
  <2>2. p \in Seq(Symbols) /\ SubSeq(v, 1, k) = Append(p, v[k])
    BY <1>1, <2>1
  <2> HIDE DEF p
  <2>3. a.cur \o Append(p, v[k]) = Append(a.cur \o p, v[k]) /\ a.cur \o p \in Seq(Symbols)
    BY <1>1, <2>1, <2>2, AppendBehind
  <2> QED BY <2>1, <2>2, <2>3 DEF p
<1> HIDE DEF x
<1>5. f[0] = g[0]
  <2>1. [a EXCEPT !.cur = a.cur] = a
    BY DEF Reader
  <2>2. g[0] = [a EXCEPT !.cur = x(0)]
    BY <1>1
  <2> QED BY <1>2, <2>1, <2>2, ReadsStep
<1>6. ASSUME NEW k \in 1..n, f[k - 1] = g[k - 1] PROVE f[k] = g[k]
  <2> DEFINE b == [a EXCEPT !.cur = x(k - 1)]
             c == v[k]
  <2>1. k \in 0..n /\ k - 1 \in 0..n
    BY <1>1
  <2>2. f[k] = Read(env, b, c)
    BY <1>6, <2>1, ReadsStep
  <2>3. c \notin Quotes /\ c \notin Refs /\ Double \in Quotes /\ Double # None
    BY SymbolsApart DEF Plain
  <2>4. b.open = Double
    BY DEF Reader
  <2>5. Read(env, b, c) = Take(b, c)
    <3> HIDE DEF b, c
    <3> QED BY <2>3, <2>4, Zenon DEF Read
  <2>6. Take(b, c) = [a EXCEPT !.cur = Append(x(k - 1), c)]
    BY DEF Take, Reader
  <2> QED BY <1>4, <2>1, <2>2, <2>5, <2>6
<1>7. \A k \in 0..n : f[k] = g[k]
  <2> HIDE DEF f, g, n
  <2>1. EqualSteps(f, g, n)
    BY <1>6 DEF EqualSteps
  <2>2. Alike(f, g, n)
    BY <1>1, <1>5, <2>1, StepByStep
  <2> QED BY <2>2 DEF Alike
<1>8. f[n] = g[n]
  BY <1>1, <1>7
<1>9. g[n] = [a EXCEPT !.cur = a.cur \o v]
  BY <1>1, <1>3
<1>10. ReadAll(env, a, v) = f[n]
  BY ReadsStep
<1> HIDE DEF f, g, n
<1> QED BY <1>8, <1>9, <1>10

(* A reference that is expanded where it stands does not change what the   *)
(* word means. *)
LEMMA ReplacedReads ==
  ASSUME NEW env \in [Refs -> String], NEW s \in String, NEW r \in String, NEW p \in 1..Len(s),
         s[p] \in Refs, Plain(env[s[p]]), Replaced(s, env[s[p]], p, r),
         OpenAt(s, p) \in {None, Double}
  PROVE  ReadAll(env, Start, r) = ReadAll(env, Start, s)
<1> DEFINE w == env[s[p]]
           m == Len(w)
           l == Len(s)
           f == Reads(env, Start, s)
           g == Reads(env, Start, r)
<1>1. /\ w \in String /\ Plain(w) /\ m \in Nat /\ l \in Nat
      /\ Start \in Reader /\ Start.open = None
  BY StringIs, StartIs DEF Start
<1>2. /\ Len(r) = l - 1 + m /\ \A k \in 1..p - 1 : r[k] = s[k]
      /\ \A k \in 1..m : r[p - 1 + k] = w[k]
      /\ \A k \in p + 1..l : r[k - 1 + m] = s[k]
  BY DEF Replaced
<1>3. s[p] \in Symbols /\ s[p] \notin Quotes
  BY StringIs, SymbolsApart
<1> HIDE DEF w, m, l
<1>4. /\ p \in Nat /\ p > 0 /\ p <= l /\ p - 1 \in Nat /\ p - 1 \in 0..l /\ p - 1 \in 0..Len(r)
      /\ (p - 1) + m <= Len(r) /\ p \in 0..l /\ p - 1 + m \in 0..Len(r) /\ l - p \in Nat
      /\ p + (l - p) = l /\ (p - 1 + m) + (l - p) = Len(r) /\ (p - 1) + 1 = p
      /\ p - 1 \in 0..p - 1 /\ 0 + (p - 1) = p - 1 /\ l - p \in 0..l - p
  BY <1>1, <1>2 DEF l
<1>5. f[p - 1] = g[p - 1]
  <2>1. SameText(s, 0, r, 0, p - 1)
    BY <1>1, <1>2, <1>4 DEF SameText, l
  <2>2. f[0] = g[0]
    BY <1>1, ReadsStep
  <2>3. SameReading(env, Start, s, 0, Start, r, 0, p - 1)
    BY <1>1, <1>4, <2>1, <2>2, ReadsAgree
  <2> QED BY <1>4, <2>3 DEF SameReading
<1> DEFINE b == f[p - 1]
<1>6. b \in Reader /\ b.open = OpenAt(s, p) /\ f[p] = Read(env, b, s[p])
  <2>0. /\ \A k \in 0..l : f[k] \in Reader
        /\ \A k \in 1..l : f[k] = Read(env, f[k - 1], s[k])
    BY <1>1, ReadsStep DEF l
  <2>1. b \in Reader /\ f[p] = Read(env, b, s[p])
    <3>1. p \in 1..l
      BY <1>4
    <3> HIDE DEF f
    <3> QED BY <1>4, <2>0, <3>1
  <2>2. b.open = OpenAt(s, (p - 1) + 1)
    BY <1>1, <1>4, ReadsOpen DEF l
  <2> QED BY <1>4, <2>1, <2>2
<1>7. g[p - 1 + m] = ReadAll(env, b, w)
  <2>1. g[(p - 1) + Len(w)] = ReadAll(env, g[p - 1], w)
    BY <1>1, <1>2, <1>4, ReadsStretch DEF m
  <2> QED BY <1>5, <2>1 DEF m
<1>8. f[p] = ReadAll(env, b, w)
  <2> HIDE DEF b
  <2>1. CASE OpenAt(s, p) = None
    <3>1. Read(env, b, s[p]) = TakeValue(b, w)
      BY <1>3, <1>6, <2>1 DEF Read, w
    <3> QED BY <1>1, <1>6, <2>1, <3>1, PlainIsTaken DEF w
  <2>2. CASE OpenAt(s, p) = Double
    <3>1. Double \in Quotes /\ Double # None
      BY SymbolsApart
    <3>2. Read(env, b, s[p]) = [b EXCEPT !.cur = b.cur \o w]
      BY <1>3, <1>6, <2>2, <3>1 DEF Read, w
    <3>3. ReadAll(env, b, w) = [b EXCEPT !.cur = b.cur \o w]
      <4>1. b \in Reader /\ b.open = Double
        BY <1>6, <2>2
      <4> QED BY <1>1, <4>1, QuotedIsTaken
    <3> QED BY <1>6, <3>2, <3>3
  <2> QED BY <2>1, <2>2
<1>9. f[l] = g[Len(r)]
  <2>1. \A k \in 1..l - p : s[p + k] = r[(p - 1 + m) + k]
    <3> SUFFICES ASSUME NEW k \in 1..l - p PROVE s[p + k] = r[(p - 1 + m) + k]
      OBVIOUS
    <3>1. p + k \in p + 1..l /\ (p + k) - 1 + m = (p - 1 + m) + k
      BY <1>1, <1>4
    <3> QED BY <1>2, <3>1
  <2>2. SameText(s, p, r, p - 1 + m, l - p)
    BY <1>4, <2>1 DEF SameText, l
  <2>3. SameReading(env, Start, s, p, Start, r, p - 1 + m, l - p)
    <3> HIDE DEF b
    <3> QED BY <1>1, <1>4, <1>7, <1>8, <2>2, ReadsAgree
  <2> QED BY <1>4, <2>3 DEF SameReading
<1> QED BY <1>1, <1>9, ReadsStep DEF l

-----------------------------------------------------------------------------
(* Words without unquoted blanks and references: they are never cut *)

NoneFree(s) == \A p \in 1..Len(s) : s[p] \in Refs \cup {Blank} => OpenAt(s, p) # None

(* What is gathered when c is read where the quote q is open. *)
Gathered(env, q, x, c) ==
  IF q = c \/ (q = None /\ c \in Quotes) THEN x
  ELSE IF c \in Refs /\ q = Double THEN x \o env[c]
  ELSE Append(x, c)

LEMMA ReadUncut ==
  ASSUME NEW env \in [Refs -> String], NEW a \in Reader, NEW c \in Symbols,
         a.open = None => c \notin Refs \cup {Blank}
  PROVE  /\ Read(env, a, c).words = a.words
         /\ Read(env, a, c).cur = Gathered(env, a.open, a.cur, c)
<1>1. a.open \in OpenValues /\ a.cur \in String /\ a.words \in Seq(String)
  BY DEF Reader
<1>2. ASSUME NEW o PROVE [a EXCEPT !.open = o].words = a.words /\ [a EXCEPT !.open = o].cur = a.cur
  BY DEF Reader
<1>3. c # None /\ (c \in Quotes => c \notin Refs)
  BY SymbolsApart
<1>4. Take(a, c).cur = Append(a.cur, c) /\ Take(a, c).words = a.words
  BY TakeIs
<1>5. CASE a.open = None
  <2>1. CASE c \in Quotes
    BY <1>2, <1>5, <2>1 DEF Read, Gathered
  <2>2. CASE c \notin Quotes
    <3>1. Read(env, a, c) = Take(a, c)
      BY <1>5, <2>2 DEF Read, TakeFree
    <3>2. Double # None
      BY SymbolsApart
    <3> QED BY <1>3, <1>4, <1>5, <2>2, <3>1, <3>2 DEF Gathered
  <2> QED BY <2>1, <2>2
<1>6. CASE a.open # None
  <2>1. CASE c = a.open
    BY <1>2, <1>6, <2>1 DEF Read, Gathered
  <2>2. CASE c # a.open /\ c \in Refs /\ a.open = Double
    <3> DEFINE x == a.cur \o env[c]
               b == [a EXCEPT !.cur = x]
    <3> HIDE DEF x
    <3>1. b.cur = x /\ b.words = a.words
      BY DEF Reader
    <3>2. Read(env, a, c) = b
      BY <1>6, <2>2 DEF Read, x
    <3>3. Gathered(env, a.open, a.cur, c) = x
      BY <1>6, <2>2 DEF Gathered, x
    <3> QED BY <3>1, <3>2, <3>3
  <2>3. CASE c # a.open /\ ~(c \in Refs /\ a.open = Double)
    <3>1. Read(env, a, c) = Take(a, c)
      BY <1>6, <2>3 DEF Read
    <3> QED BY <1>4, <1>6, <2>3, <3>1 DEF Gathered
  <2> QED BY <2>1, <2>2, <2>3
<1> QED BY <1>5, <1>6

LEMMA UncutStep ==
  ASSUME NEW env \in [Refs -> String], NEW a \in Reader, a.open = None,
         NEW s \in String, NoneFree(s), NEW k \in 1..Len(s)
  PROVE  /\ Reads(env, a, s)[k].words = Reads(env, a, s)[k - 1].words
         /\ Reads(env, a, s)[k].cur =
              Gathered(env, OpenAt(s, k), Reads(env, a, s)[k - 1].cur, s[k])
<1> DEFINE b == Reads(env, a, s)[k - 1]
<1>1. k \in Nat /\ k - 1 \in 0..Len(s) /\ (k - 1) + 1 = k /\ s[k] \in Symbols
  BY StringIs
<1>2. b \in Reader /\ Reads(env, a, s)[k] = Read(env, b, s[k])
  BY <1>1, ReadsStep
<1>3. b.open = OpenAt(s, k)
  <2>1. b.open = OpenAt(s, (k - 1) + 1)
    BY <1>1, ReadsOpen
  <2> QED BY <1>1, <2>1
<1> HIDE DEF b
<1>4. b.open = None => s[k] \notin Refs \cup {Blank}
  BY <1>3 DEF NoneFree
<1> QED BY <1>1, <1>2, <1>3, <1>4, ReadUncut DEF b

(* What was cut before does not matter. *)
LEMMA UncutReads ==
  ASSUME NEW env \in [Refs -> String], NEW a \in Reader, a.open = None, a.cur = <<>>,
         NEW s \in String, NoneFree(s)
  PROVE  \A k \in 0..Len(s) : /\ Reads(env, a, s)[k].words = a.words
                              /\ Reads(env, a, s)[k].cur = Reads(env, Start, s)[k].cur
<1> DEFINE n == Len(s)
           f == Reads(env, a, s)
           g == Reads(env, Start, s)
           S == {k \in 0..n : f[k].words = a.words /\ f[k].cur = g[k].cur}
<1>1. n \in Nat /\ Start \in Reader /\ Start.open = None /\ Start.cur = <<>>
  BY StringIs, StartIs DEF Start
<1>2. 0 \in S
  BY <1>1, ReadsStep
<1>3. ASSUME NEW m \in 0..n - 1, m \in S PROVE m + 1 \in S
  <2>1. m + 1 \in 1..n /\ m + 1 \in 0..n /\ (m + 1) - 1 = m
    BY <1>1
  <2>2. /\ f[m + 1].words = f[m].words
        /\ f[m + 1].cur = Gathered(env, OpenAt(s, m + 1), f[m].cur, s[m + 1])
        /\ g[m + 1].cur = Gathered(env, OpenAt(s, m + 1), g[m].cur, s[m + 1])
    BY <1>1, <2>1, UncutStep
  <2> QED BY <1>3, <2>1, <2>2
<1>4. \A k \in 0..n : k \in S
  <2> HIDE DEF S, n
  <2> QED BY <1>1, <1>2, <1>3, Upward
<1> QED BY <1>4

OneWord(c) == IF c = <<>> THEN <<>> ELSE <<c>>

LEMMA UncutFields ==
  ASSUME NEW env \in [Refs -> String], NEW s \in String, NoneFree(s)
  PROVE  /\ ReadAll(env, Start, s).cur \in String
         /\ Fields(env, s) = OneWord(ReadAll(env, Start, s).cur)
<1> DEFINE b == Reads(env, Start, s)[Len(s)]
<1>1. Len(s) \in 0..Len(s) /\ Start \in Reader /\ Start.open = None /\ Start.cur = <<>> /\ Start.words = <<>>
  BY StringIs, StartIs DEF Start
<1>2. b \in Reader /\ ReadAll(env, Start, s) = b /\ b.words = <<>>
  BY <1>1, ReadsStep, UncutReads
<1> HIDE DEF b
<1>3. b.cur \in String
  BY <1>2 DEF Reader
<1>4. Append(<<>>, b.cur) = <<b.cur>>
  OBVIOUS
<1> QED BY <1>2, <1>3, <1>4, CutIs DEF Fields, OneWord

-----------------------------------------------------------------------------
(* What a list means *)

Item == [op : BOOLEAN, str : String]

AsItems(f) == [n \in 1..Len(f) |-> [op |-> FALSE, str |-> f[n]]]

LEMMA AsItemsIs ==
  ASSUME NEW f \in Seq(String)
  PROVE  /\ AsItems(f) \in Seq(Item) /\ AsItems(<<>>) = <<>>
         /\ \A c \in String : AsItems(Append(f, c)) = Append(AsItems(f), [op |-> FALSE, str |-> c])

<1>1. ASSUME NEW c \in String PROVE [op |-> FALSE, str |-> c] \in Item
  BY DEF Item
<1>2. Len(f) \in Nat /\ \A n \in 1..Len(f) : f[n] \in String
  OBVIOUS
<1>3. AsItems(f) \in Seq(Item) /\ Len(AsItems(f)) = Len(f)
      /\ \A n \in 1..Len(f) : AsItems(f)[n] = [op |-> FALSE, str |-> f[n]]
  BY <1>1, <1>2 DEF AsItems
<1>4. AsItems(<<>>) = <<>>
  BY DEF AsItems
<1>5. ASSUME NEW c \in String
      PROVE  AsItems(Append(f, c)) = Append(AsItems(f), [op |-> FALSE, str |-> c])
  <2> DEFINE g == Append(f, c)
             z == [op |-> FALSE, str |-> c]
             y == Append(AsItems(f), z)
  <2>1. /\ Len(g) = Len(f) + 1 /\ g[Len(f) + 1] = c /\ \A n \in 1..Len(f) : g[n] = f[n]
    OBVIOUS
  <2>2. y \in Seq(Item) /\ Len(y) = Len(f) + 1 /\ y[Len(f) + 1] = z
        /\ \A n \in 1..Len(f) : y[n] = AsItems(f)[n]
    <3> HIDE DEF z
    <3>1. z \in Item
      BY <1>1 DEF z
    <3> QED BY <1>2, <1>3, <3>1
  <2> HIDE DEF g, y
  <2>3. y = [n \in 1..Len(f) + 1 |-> y[n]]
    BY <1>2, <2>2
  <2>4. \A n \in 1..Len(f) + 1 : y[n] = [op |-> FALSE, str |-> g[n]]
    <3>1. \A n \in 1..Len(f) : y[n] = [op |-> FALSE, str |-> g[n]]
      BY <1>3, <2>1, <2>2
    <3>2. y[Len(f) + 1] = [op |-> FALSE, str |-> g[Len(f) + 1]]
      BY <2>1, <2>2
    <3>3. \A n \in 1..Len(f) + 1 : n \in 1..Len(f) \/ n = Len(f) + 1
      BY <1>2
    <3> HIDE DEF AsItems
    <3> QED BY <3>1, <3>2, <3>3
  <2>5. AsItems(g) = [n \in 1..Len(f) + 1 |-> [op |-> FALSE, str |-> g[n]]]
    BY <2>1 DEF AsItems
  <2> QED BY <2>3, <2>4, <2>5 DEF g, y
<1> QED BY <1>3, <1>4, <1>5

LEMMA OneItem ==
  ASSUME NEW c \in String
  PROVE  AsItems(<<c>>) = <<[op |-> FALSE, str |-> c]>>
<1> DEFINE z == [op |-> FALSE, str |-> c]
<1>1. <<>> \in Seq(String) /\ Append(<<>>, c) = <<c>> /\ Append(<<>>, z) = <<z>>
  OBVIOUS
<1>2. AsItems(Append(<<>>, c)) = Append(<<>>, z)
  BY <1>1, AsItemsIs
<1> QED BY <1>1, <1>2

LEMMA FieldsIs ==
  ASSUME NEW env \in [Refs -> String], NEW s \in String
  PROVE  Fields(env, s) \in Seq(String)
<1> DEFINE b == ReadAll(env, Start, s)
<1>1. b \in Reader
  <2>1. Len(s) \in 0..Len(s)
    BY StringIs
  <2> QED BY <2>1, StartIs, ReadsStep
<1> HIDE DEF b
<1>2. Cut(b) \in Reader
  BY <1>1, CutIs
<1> QED BY <1>2 DEF Fields, b, Reader

LEMMA WordsIs ==
  ASSUME NEW env \in [Refs -> String], NEW t, t.op \in BOOLEAN, t.str \in String
  PROVE  /\ Words(env, t) \in Seq(Item)
         /\ Words(env, t) = IF t.op THEN <<[op |-> TRUE, str |-> t.str]>>
                                    ELSE AsItems(Fields(env, t.str))
<1>1. [op |-> TRUE, str |-> t.str] \in Item
  BY DEF Item
<1>2. Fields(env, t.str) \in Seq(String)
  BY FieldsIs
<1>3. Words(env, t) = IF t.op THEN <<[op |-> TRUE, str |-> t.str]>>
                              ELSE AsItems(Fields(env, t.str))
  BY DEF Words, AsItems
<1> QED BY <1>1, <1>2, <1>3, AsItemsIs

(* What is meant by the last tokens of a list. *)
LastMeant(env, l) ==
  LET meant[k \in 0..Len(l)] ==
        IF k = 0 THEN <<>> ELSE Words(env, l[Len(l) - k + 1]) \o meant[k - 1]
  IN meant

LEMMA MeantStep ==
  ASSUME NEW env, NEW l, Len(l) \in Nat, \A k \in 1..Len(l) : Words(env, l[k]) \in Seq(Item)
  PROVE  /\ MeantBy(env, l) = LastMeant(env, l)[Len(l)]
         /\ LastMeant(env, l)[0] = <<>>
         /\ \A k \in 0..Len(l) : LastMeant(env, l)[k] \in Seq(Item)
         /\ \A k \in 1..Len(l) : LastMeant(env, l)[k] = Words(env, l[Len(l) - k + 1]) \o LastMeant(env, l)[k - 1]
<1> DEFINE n == Len(l)
           next(k, b) == Words(env, l[n - k + 1]) \o b
           step == [k \in 1..n |-> [b \in Seq(Item) |-> next(k, b)]]
           body(f) == [k \in 0..n |-> IF k = 0 THEN <<>> ELSE next(k, f[k - 1])]
<1>1. n \in Nat /\ <<>> \in Seq(Item)
  OBVIOUS
<1>2. ASSUME NEW k \in 1..n, NEW b \in Seq(Item) PROVE next(k, b) \in Seq(Item)
  <2>1. n - k + 1 \in 1..n
    BY <1>1
  <2>2. Words(env, l[n - k + 1]) \in Seq(Item)
    BY <2>1
  <2> QED BY <2>2, ConcatProperties
<1>3. step \in [1..n -> [Seq(Item) -> Seq(Item)]]
  <2> HIDE DEF next
  <2> QED BY <1>2
<1>4. PICK f : Recursion(f, n, Seq(Item), <<>>, step)
  <2> HIDE DEF step, n
  <2> QED BY <1>1, <1>3, RecursionExists
<1>5. f = body(f)
  <2>1. ASSUME NEW k \in 1..n PROVE f[k - 1] \in Seq(Item)
    <3> DEFINE T == Seq(Item)
    <3> HIDE DEF step, T, n
    <3>1. f \in [0..n -> T]
      BY <1>4 DEF Recursion, T
    <3>2. k - 1 \in 0..n
      BY <1>1
    <3>3. f[k - 1] \in T
      BY ONLY <3>1, <3>2
    <3> QED BY <3>3 DEF T
  <2>2. \A k \in 1..n : step[k][f[k - 1]] = next(k, f[k - 1])
    <3> HIDE DEF next
    <3> QED BY <2>1
  <2> HIDE DEF step, next
  <2>3. \A k \in 0..n : f[k] = IF k = 0 THEN <<>> ELSE next(k, f[k - 1])
    BY <1>1, <1>4, <2>2 DEF Recursion
  <2>4. f = [k \in 0..n |-> f[k]]
    BY <1>4 DEF Recursion
  <2> QED BY <2>3, <2>4
<1> DEFINE g == LastMeant(env, l)
<1>6. g = CHOOSE h : h = [k \in 0..n |-> IF k = 0 THEN <<>> ELSE Words(env, l[Len(l) - k + 1]) \o h[k - 1]]
  BY Zenon DEF LastMeant
<1>7. g = body(g)
  <2> HIDE DEF g
  <2> QED BY <1>5, <1>6, Zenon
<1>8. \A k \in 0..n : g[k] = IF k = 0 THEN <<>> ELSE next(k, g[k - 1])
  <2> HIDE DEF g, n, next
  <2> QED BY ONLY <1>7
<1>9. g[0] = <<>> /\ \A k \in 1..n : g[k] = next(k, g[k - 1])
  <2> HIDE DEF g, next
  <2> QED BY <1>1, <1>8
<1>10. \A k \in 0..n : g[k] \in Seq(Item)
  <2> DEFINE S == {k \in 0..n : g[k] \in Seq(Item)}
  <2> HIDE DEF g, next, n
  <2>1. 0 \in S
    <3>1. g[0] \in Seq(Item)
      BY <1>1, <1>9, Zenon
    <3> QED BY <1>1, <3>1
  <2>2. ASSUME NEW m \in 0..n - 1, m \in S PROVE m + 1 \in S
    <3>1. m + 1 \in 1..n /\ m + 1 \in 0..n /\ (m + 1) - 1 = m
      BY <1>1
    <3>2. g[m + 1] = next(m + 1, g[m])
      BY <1>9, <3>1
    <3> QED BY <1>2, <2>2, <3>1, <3>2
  <2>3. \A k \in 0..n : k \in S
    <3> HIDE DEF S
    <3> QED BY <1>1, <2>1, <2>2, Upward
  <2> QED BY <2>3
<1>11. MeantBy(env, l) = g[n]
  BY Zenon DEF MeantBy, LastMeant
<1> QED BY <1>9, <1>10, <1>11

WordList(env, l) == Len(l) \in Nat /\ \A k \in 1..Len(l) : Words(env, l[k]) \in Seq(Item)

(* The last n tokens of two lists mean the same. *)
EndAlike(env, l, m, n) ==
  /\ n \in Nat /\ n <= Len(l) /\ n <= Len(m)
  /\ \A k \in 0..n - 1 : Words(env, l[Len(l) - k]) = Words(env, m[Len(m) - k])

LEMMA MeantAlike ==
  ASSUME NEW env, NEW l, NEW m, WordList(env, l), WordList(env, m), NEW n, EndAlike(env, l, m, n)
  PROVE  LastMeant(env, l)[n] = LastMeant(env, m)[n]
<1> USE DEF EndAlike
<1> DEFINE f == LastMeant(env, l)
           g == LastMeant(env, m)
<1>0. Len(l) \in Nat /\ Len(m) \in Nat /\ n \in Nat /\ n <= Len(l) /\ n <= Len(m)
  BY DEF WordList
<1>1. /\ f[0] = <<>> /\ \A k \in 1..Len(l) : f[k] = Words(env, l[Len(l) - k + 1]) \o f[k - 1]
      /\ g[0] = <<>> /\ \A k \in 1..Len(m) : g[k] = Words(env, m[Len(m) - k + 1]) \o g[k - 1]
  BY MeantStep DEF WordList
<1> HIDE DEF f, g
<1>2. ASSUME NEW k \in 1..n, f[k - 1] = g[k - 1] PROVE f[k] = g[k]
  <2>1. /\ k \in 1..Len(l) /\ k \in 1..Len(m) /\ k - 1 \in 0..n - 1
        /\ Len(l) - (k - 1) = Len(l) - k + 1 /\ Len(m) - (k - 1) = Len(m) - k + 1
    BY <1>0
  <2>2. Words(env, l[Len(l) - (k - 1)]) = Words(env, m[Len(m) - (k - 1)])
    BY <2>1
  <2> QED BY <1>1, <1>2, <2>1, <2>2
<1>3. f[0] = g[0]
  BY <1>1
<1>4. EqualSteps(f, g, n)
  BY <1>2 DEF EqualSteps
<1>5. Alike(f, g, n)
  BY <1>0, <1>3, <1>4, StepByStep
<1>6. f[n] = g[n]
  BY <1>0, <1>5 DEF Alike
<1> QED BY <1>6 DEF f, g

-----------------------------------------------------------------------------
(* The pieces of a word *)

LEMMA PiecesGrow ==
  ASSUME NEW s \in String
  PROVE  /\ \A k \in 0..Len(s) : PiecesUpTo(s)[k] \in Seq(String)
         /\ \A a \in 0..Len(s) :
              /\ Len(PiecesUpTo(s)[a]) <= Len(Pieces(s))
              /\ \A k \in 1..Len(PiecesUpTo(s)[a]) : Pieces(s)[k] = PiecesUpTo(s)[a][k]
<1> DEFINE n == Len(s)
           g == PiecesUpTo(s)
<1>1. n \in Nat
  BY StringIs
<1>2. /\ g[0] = <<>> /\ Pieces(s) = g[n]
      /\ \A k \in 1..n : g[k] = IF k \in PieceStarts(s) THEN Append(g[k - 1], PieceAt(s, k))
                                ELSE g[k - 1]
  BY PiecesStep
<1>3. \A k \in 1..n : k \in PieceStarts(s) => PieceAt(s, k) \in String
  BY PieceIsString
<1> HIDE DEF g, n
<1>4. \A k \in 0..n : g[k] \in Seq(String)
  <2> DEFINE S == {k \in 0..n : g[k] \in Seq(String)}
  <2>1. 0 \in S
    <3>1. <<>> \in Seq(String)
      OBVIOUS
    <3>2. g[0] \in Seq(String)
      BY <1>2, <3>1, Zenon
    <3> QED BY <1>1, <3>2
  <2>2. ASSUME NEW m \in 0..n - 1, m \in S PROVE m + 1 \in S
    <3>1. m + 1 \in 1..n /\ m + 1 \in 0..n /\ (m + 1) - 1 = m
      BY <1>1
    <3>2. g[m + 1] = IF m + 1 \in PieceStarts(s) THEN Append(g[m], PieceAt(s, m + 1)) ELSE g[m]
      BY <1>2, <3>1
    <3>3. ASSUME NEW p \in Seq(String), NEW x \in String PROVE Append(p, x) \in Seq(String)
      OBVIOUS
    <3>4. g[m + 1] \in Seq(String)
      <4>1. g[m] \in Seq(String) /\ (m + 1 \in PieceStarts(s) => PieceAt(s, m + 1) \in String)
        BY <1>3, <2>2, <3>1
      <4> QED BY <3>2, <3>3, <4>1, Zenon
    <3> QED BY <3>1, <3>4
  <2>3. \A k \in 0..n : k \in S
    <3> HIDE DEF S
    <3> QED BY <1>1, <2>1, <2>2, Upward
  <2> QED BY <2>3
<1>5. ASSUME NEW a \in 0..n
      PROVE  Len(g[a]) <= Len(g[n]) /\ \A k \in 1..Len(g[a]) : g[n][k] = g[a][k]
  <2> DEFINE Prefix(p, q) == Len(p) <= Len(q) /\ \A k \in 1..Len(p) : q[k] = p[k]
             S == {m \in 0..n : m < a \/ Prefix(g[a], g[m])}
  <2>1. a \in Nat /\ a <= n /\ n \in 0..n /\ 0 \in 0..n /\ g[a] \in Seq(String)
    BY <1>1, <1>4
  <2>2. Prefix(g[a], g[a])
    <3>1. Len(g[a]) \in Nat
      BY <2>1
    <3> QED BY <3>1
  <2>3. 0 \in S
    BY <2>1, <2>2
  <2>4. ASSUME NEW m \in 0..n - 1, m \in S PROVE m + 1 \in S
    <3>1. m + 1 \in 1..n /\ m + 1 \in 0..n /\ (m + 1) - 1 = m /\ m \in 0..n
      BY <1>1
    <3>2. g[m + 1] = IF m + 1 \in PieceStarts(s) THEN Append(g[m], PieceAt(s, m + 1)) ELSE g[m]
      BY <1>2, <3>1
    <3>3. ASSUME Prefix(g[a], g[m]) PROVE Prefix(g[a], g[m + 1])
      <4>1. g[m] \in Seq(String) /\ (m + 1 \in PieceStarts(s) => PieceAt(s, m + 1) \in String)
        BY <1>3, <1>4, <3>1
      <4> DEFINE p == g[a]
                 q == g[m]
                 r == g[m + 1]
                 x == PieceAt(s, m + 1)
      <4>2. p \in Seq(String) /\ q \in Seq(String) /\ Prefix(p, q)
        BY <2>1, <3>3, <4>1
      <4>3. r = q \/ (r = Append(q, x) /\ x \in String)
        BY <3>2, <4>1
      <4> HIDE DEF p, q, r, x
      <4>4. Prefix(p, r)
        BY <4>2, <4>3
      <4> QED BY <4>4 DEF p, r
    <3>4. m < a => m + 1 < a \/ m + 1 = a
      BY <2>1, <3>1
    <3> QED BY <2>2, <2>4, <3>1, <3>3, <3>4
  <2>5. \A k \in 0..n : k \in S
    <3> HIDE DEF S
    <3> QED BY <1>1, <2>3, <2>4, Upward
  <2>6. ~(n < a)
    BY <2>1
  <2> QED BY <2>1, <2>5, <2>6
<1> QED BY <1>2, <1>4, <1>5 DEF g, n

NoFreeRef(s, q) == \A p \in 1..q - 1 : p <= Len(s) /\ s[p] \in Refs => OpenAt(s, p) # None

LEMMA PieceIsUncut ==
  ASSUME NEW s \in String, ~Nested(s), Balanced(s), NoFreeRef(s, Len(s) + 1),
         NEW k \in PieceStarts(s)
  PROVE  NoneFree(PieceAt(s, k))
<1> DEFINE w == PieceAt(s, k)
<1>1. /\ ~HasFreeBlank(w)
      /\ \A m \in 1..Len(w) : /\ k + m - 1 \in 1..Len(s) /\ w[m] = s[k + m - 1]
                              /\ OpenAt(w, m) = OpenAt(s, k + m - 1)
  BY PieceIsProper
<1>2. \A p \in 1..Len(s) : s[p] \in Refs => OpenAt(s, p) # None
  <2>1. \A p \in 1..Len(s) : p \in 1..(Len(s) + 1) - 1 /\ p <= Len(s)
    BY StringIs
  <2> QED BY <2>1 DEF NoFreeRef
<1> HIDE DEF w
<1>3. \A m \in 1..Len(w) : w[m] \in Refs \cup {Blank} => OpenAt(w, m) # None
  BY <1>1, <1>2 DEF HasFreeBlank
<1> QED BY <1>3 DEF NoneFree, w

(* Reading a piece of s. *)
LEMMA PieceIsRead ==
  ASSUME NEW env \in [Refs -> String], NEW s \in String, ~Nested(s), Balanced(s),
         NoFreeRef(s, Len(s) + 1), NEW k \in PieceStarts(s),
         Reads(env, Start, s)[k - 1].cur = <<>>
  PROVE  /\ Reads(env, Start, s)[PieceEnd(s, k)].words = Reads(env, Start, s)[k - 1].words
         /\ Reads(env, Start, s)[PieceEnd(s, k)].cur = ReadAll(env, Start, PieceAt(s, k)).cur
<1> DEFINE w == PieceAt(s, k)
           n == Len(w)
           e == PieceEnd(s, k)
           f == Reads(env, Start, s)
           b == f[k - 1]
<1>1. /\ k \in 1..Len(s) /\ Len(s) \in Nat /\ e \in k..Len(s) /\ w \in String /\ n = e - k + 1
      /\ \A m \in 1..n : w[m] = s[k + m - 1]
      /\ Start \in Reader /\ Start.open = None /\ NoneFree(w) /\ n \in Nat
  BY PieceEndIs, PieceIsString, PieceIsUncut, StringIs, StartIs DEF Start
<1>2. PairedBefore(s, k) /\ \A p \in 1..Len(s) + 1 : PairedBefore(s, p) <=> OpenAt(s, p) = None
  BY PieceStartsPaired, PairedIsOpen
<1> HIDE DEF w, n, e
<1>3. /\ k - 1 \in 0..Len(s) /\ (k - 1) + n = e /\ (k - 1) + n <= Len(s) /\ k \in 1..Len(s) + 1
      /\ (k - 1) + 1 = k
      /\ \A m \in 1..n : (k - 1) + m = k + m - 1
  BY <1>1
<1>4. b \in Reader /\ b.open = None
  <2>1. b.open = OpenAt(s, (k - 1) + 1)
    BY <1>1, <1>3, ReadsOpen
  <2>2. OpenAt(s, k) = None
    BY <1>2, <1>3
  <2> QED BY <1>1, <1>3, <2>1, <2>2, ReadsStep
<1>5. f[e] = ReadAll(env, b, w)
  <2>1. \A m \in 1..Len(w) : s[(k - 1) + m] = w[m]
    BY <1>1, <1>3 DEF n
  <2>2. f[(k - 1) + Len(w)] = ReadAll(env, f[k - 1], w)
    BY <1>1, <1>3, <2>1, ReadsStretch DEF n
  <2> QED BY <1>3, <2>2 DEF n
<1>6. b.cur = <<>> /\ n \in 0..n
  BY <1>1
<1> HIDE DEF b, f
<1>7. ReadAll(env, b, w) = Reads(env, b, w)[n] /\ ReadAll(env, Start, w) = Reads(env, Start, w)[n]
  BY <1>1, <1>4, ReadsStep DEF n
<1>8. Reads(env, b, w)[n].words = b.words /\ Reads(env, b, w)[n].cur = Reads(env, Start, w)[n].cur
  BY <1>1, <1>4, <1>6, UncutReads DEF n
<1> QED BY <1>5, <1>7, <1>8 DEF b, f, e, w

LEMMA PieceIsTaken ==
  ASSUME NEW s \in String, NEW k \in PieceStarts(s)
  PROVE  /\ k - 1 \in 0..Len(s) /\ PieceEnd(s, k) \in 0..Len(s)
         /\ Len(PiecesUpTo(s)[k - 1]) \in Nat
         /\ Len(PiecesUpTo(s)[PieceEnd(s, k)]) = Len(PiecesUpTo(s)[k - 1]) + 1
         /\ Len(PiecesUpTo(s)[k - 1]) + 1 <= Len(Pieces(s))
         /\ Pieces(s)[Len(PiecesUpTo(s)[k - 1]) + 1] = PieceAt(s, k)
<1> DEFINE g == PiecesUpTo(s)
           e == PieceEnd(s, k)
           n == Len(s)
           x == PieceAt(s, k)
<1>1. /\ n \in Nat /\ k \in 1..n /\ e \in k..n /\ x \in String
      /\ \A m \in k..e : ~Separator(s, m)
  BY StringIs, PieceEndIs, PieceIsString
<1>2. \A m \in 1..n : g[m] = IF m \in PieceStarts(s) THEN Append(g[m - 1], PieceAt(s, m)) ELSE g[m - 1]
  BY PiecesStep
<1>3. \A m \in 0..n : g[m] \in Seq(String) /\ Len(g[m]) <= Len(Pieces(s))
                      /\ \A q \in 1..Len(g[m]) : Pieces(s)[q] = g[m][q]
  BY PiecesGrow
<1>4. /\ k \in Nat /\ e \in Nat /\ k - 1 \in 0..n /\ k \in 0..n /\ e \in 0..n /\ e - k \in Nat
      /\ k + (e - k) = e /\ k + 0 = k
  BY <1>1
<1> HIDE DEF g, e, n, x
<1>5. \A d \in 0..e - k : g[k + d] = g[k]
  <2> DEFINE v == [d \in 0..e - k |-> g[k + d]]
             w == [d \in 0..e - k |-> g[k]]
  <2>1. v[0] = w[0]
    BY <1>4
  <2>2. \A d \in 1..e - k : v[d - 1] = w[d - 1] => v[d] = w[d]
    <3> SUFFICES ASSUME NEW d \in 1..e - k, v[d - 1] = w[d - 1] PROVE v[d] = w[d]
      OBVIOUS
    <3>0. d \in 0..e - k /\ d - 1 \in 0..e - k
      BY <1>4
    <3>4. g[k + (d - 1)] = g[k]
      BY <3>0
    <3>1. k + d \in 1..n /\ (k + d) - 1 = k + (d - 1) /\ (k + d) - 1 \in k..e
      BY <1>1, <1>4
    <3>2. ~Separator(s, (k + d) - 1)
      BY <1>1, <3>1
    <3>3. k + d \notin PieceStarts(s)
      BY <3>2 DEF PieceStarts
    <3>5. g[k + d] = g[k]
      BY <1>2, <3>1, <3>3, <3>4
    <3> QED BY <3>0, <3>5
  <2>3. \A d \in 0..e - k : v[d] = w[d]
    <3> HIDE DEF v, w
    <3>1. e - k \in Nat
      BY <1>4
    <3>2. EqualSteps(v, w, e - k)
      BY <2>2 DEF EqualSteps
    <3>3. Alike(v, w, e - k)
      BY <2>1, <3>1, <3>2, StepByStep
    <3> QED BY <3>3 DEF Alike
  <2> QED BY <2>3
<1>6. g[e] = g[k]
  <2>1. e - k \in 0..e - k
    BY <1>4
  <2> QED BY <1>4, <1>5, <2>1
<1>7. g[k] = Append(g[k - 1], x)
  BY <1>1, <1>2 DEF x
<1> DEFINE p == g[k - 1]
           q == g[k]
<1>8. p \in Seq(String) /\ q = Append(p, x)
  BY <1>3, <1>4, <1>7
<1>9. Len(q) <= Len(Pieces(s)) /\ \A m \in 1..Len(q) : Pieces(s)[m] = q[m]
  BY <1>3, <1>4
<1> HIDE DEF p, q
<1>10. Len(p) \in Nat /\ Len(q) = Len(p) + 1 /\ q[Len(p) + 1] = x
  BY <1>1, <1>8
<1>11. Len(p) + 1 <= Len(Pieces(s)) /\ Pieces(s)[Len(p) + 1] = x
  <2>1. Len(p) + 1 \in 1..Len(q)
    BY <1>10
  <2> QED BY <1>9, <1>10, <2>1
<1> QED BY <1>4, <1>6, <1>10, <1>11 DEF p, q, g, e, n, x

(* A word is cut at its separators. *)
LEMMA SeparatorCuts ==
  ASSUME NEW env \in [Refs -> String], NEW s \in String, ~Nested(s), NEW c \in 0..Len(s),
         Separator(s, c)
  PROVE  /\ Reads(env, Start, s)[c].cur = <<>>
         /\ c > 0 => Reads(env, Start, s)[c].words = Cut(Reads(env, Start, s)[c - 1]).words
<1> DEFINE f == Reads(env, Start, s)
<1>1. Start \in Reader /\ Start.open = None /\ Start.cur = <<>> /\ Len(s) \in Nat
  BY StartIs, StringIs DEF Start
<1>2. CASE c = 0
  BY <1>1, <1>2, ReadsStep
<1>3. CASE c # 0
  <2>1. c \in 1..Len(s) /\ c \in 1..Len(s) + 1 /\ c - 1 \in 0..Len(s) /\ (c - 1) + 1 = c
    BY <1>1, <1>3
  <2>2. s[c] = Blank /\ PairedBefore(s, c)
    BY <2>1 DEF Separator
  <2>3. OpenAt(s, c) = None
    BY <2>1, <2>2, PairedIsOpen
  <2>4. f[c - 1] \in Reader /\ f[c] = Read(env, f[c - 1], s[c])
    BY <1>1, <2>1, ReadsStep
  <2>5. f[c - 1].open = None
    <3>1. f[c - 1].open = OpenAt(s, (c - 1) + 1)
      BY <1>1, <2>1, ReadsOpen
    <3> QED BY <2>1, <2>3, <3>1
  <2> HIDE DEF f
  <2>6. Read(env, f[c - 1], s[c]) = Cut(f[c - 1])
    <3>1. s[c] \notin Quotes /\ s[c] \notin Refs
      BY <2>2, SymbolsApart
    <3>2. TakeFree(f[c - 1], s[c]) = Cut(f[c - 1])
      BY <2>2, Zenon DEF TakeFree
    <3> QED BY <2>5, <3>1, <3>2, Zenon DEF Read
  <2> QED BY <2>4, <2>6, CutIs DEF f
<1> QED BY <1>2, <1>3

(* What the pieces of a word mean together is what it means. *)
PieceList(s, l, base) ==
  /\ base + Len(Pieces(s)) <= Len(l)
  /\ \A n \in 1..Len(Pieces(s)) : l[base + n].op = FALSE /\ l[base + n].str = Pieces(s)[n]

LEMMA PiecesMean ==
  ASSUME NEW env \in [Refs -> String], NEW s \in String, ~Nested(s), Balanced(s),
         NoFreeRef(s, Len(s) + 1), NEW l, WordList(env, l),
         NEW base \in Nat, PieceList(s, l, base)
  PROVE  LastMeant(env, l)[Len(l) - base] =
           AsItems(Fields(env, s)) \o LastMeant(env, l)[Len(l) - base - Len(Pieces(s))]
<1> USE DEF WordList
<1> DEFINE N == Len(s)
           L == Len(l)
           f == Reads(env, Start, s)
           P == PiecesUpTo(s)
           U == Len(Pieces(s))
           M == LastMeant(env, l)
           Claim(c) == M[L - base] = AsItems(Cut(f[c]).words) \o M[L - base - Len(P[c])]
           S == {c \in 0..N : Separator(s, c) /\ Claim(c)}
           Final == M[L - base] = AsItems(Fields(env, s)) \o M[L - base - U]
<1>1. /\ N \in Nat /\ L \in Nat /\ Start \in Reader /\ base + U <= L /\ U \in Nat
      /\ \A c \in 0..N : P[c] \in Seq(String) /\ Len(P[c]) \in Nat /\ Len(P[c]) <= U
  <2>1. \A c \in 0..N : P[c] \in Seq(String) /\ Len(P[c]) <= U
    BY PiecesGrow
  <2>2. Pieces(s) \in Seq(String)
    BY PiecesAre
  <2> QED BY <2>1, <2>2, StringIs, StartIs DEF PieceList
<1>2. /\ M[0] = <<>> /\ \A k \in 0..L : M[k] \in Seq(Item)
      /\ \A k \in 1..L : M[k] = Words(env, l[L - k + 1]) \o M[k - 1]
  BY MeantStep
<1>3. /\ P[0] = <<>> /\ Pieces(s) = P[N]
      /\ \A k \in 1..N : k \notin PieceStarts(s) => P[k] = P[k - 1]
  BY PiecesStep
<1>4. /\ f[0] = Start /\ \A k \in 0..N : f[k] \in Reader
      /\ Fields(env, s) = Cut(f[N]).words
  BY <1>1, ReadsStep DEF Fields
<1> HIDE DEF f, P, M
<1>5. ASSUME NEW c \in 0..N, Separator(s, c)
      PROVE  f[c].cur = <<>> /\ Cut(f[c]).words = f[c].words
  <2>1. f[c].cur = <<>>
    BY <1>5, SeparatorCuts DEF f
  <2> QED BY <1>4, <2>1, CutIs
<1>6. 0 \in S
  <2>1. 0 \in 0..N /\ Separator(s, 0)
    BY <1>1 DEF Separator
  <2>2. Cut(f[0]).words = <<>>
    BY <1>4, <1>5, <2>1 DEF Start
  <2>3. AsItems(Cut(f[0]).words) = <<>>
    <3>1. <<>> \in Seq(String)
      OBVIOUS
    <3> QED BY <2>2, <3>1, AsItemsIs
  <2>4. L - base - Len(P[0]) = L - base /\ L - base \in 0..L
    <3>1. Len(P[0]) = 0
      BY <1>3
    <3> QED BY <1>1, <3>1
  <2>5. <<>> \o M[L - base] = M[L - base]
    BY <1>2, <2>4, ConcatEmptySeq
  <2>6. Claim(0)
    BY <2>3, <2>4, <2>5
  <2> QED BY <2>1, <2>6
<1>7. ASSUME NEW c \in 0..N, c + 1 \in PieceStarts(s), Separator(s, c), Claim(c)
      PROVE  Claim(PieceEnd(s, c + 1))
  <2> DEFINE k == c + 1
             e == PieceEnd(s, k)
             x == PieceAt(s, k)
             g == ReadAll(env, Start, x).cur
             u == Len(P[c])
             W == f[c].words
             R == M[L - base - u - 1]
  <2>1. k - 1 = c
    BY <1>1
  <2>2. /\ e \in 0..N /\ u \in Nat /\ Len(P[e]) = u + 1 /\ u + 1 <= U /\ Pieces(s)[u + 1] = x
    <3> HIDE DEF k
    <3> QED BY <1>7, <2>1, PieceIsTaken DEF k, P
  <2>3. f[e].words = W /\ f[e].cur = g
    <3>1. Reads(env, Start, s)[k - 1].cur = <<>>
      BY <1>5, <1>7, <2>1 DEF f
    <3> HIDE DEF k
    <3> QED BY <1>7, <2>1, <3>1, PieceIsRead DEF k, f
  <2>4. x \in String /\ NoneFree(x)
    BY <1>7, PieceIsString, PieceIsUncut
  <2>5. g \in String /\ Fields(env, x) = OneWord(g)
    BY <2>4, UncutFields
  <2>6. Cut(f[c]).words = W /\ W \in Seq(String)
    BY <1>4, <1>5, <1>7 DEF Reader
  <2>7. M[L - base] = AsItems(W) \o M[L - base - u]
    BY <1>7, <2>6
  <2>8. Cut(f[e]).words = IF g = <<>> THEN W ELSE Append(W, g)
    <3>1. f[e] \in Reader
      BY <1>4, <2>2
    <3> HIDE DEF e, g, W
    <3> QED BY <2>3, <3>1, CutIs
  <2> HIDE DEF e, x, g, u, W, k
  <2>9. Words(env, l[base + u + 1]) = AsItems(OneWord(g))
    <3>1. u + 1 \in 1..Len(Pieces(s)) /\ base + (u + 1) = base + u + 1
      BY <1>1, <2>2
    <3>2. l[base + u + 1].op = FALSE /\ l[base + u + 1].str = x
      BY <2>2, <3>1 DEF PieceList
    <3>3. l[base + u + 1].op \in BOOLEAN /\ l[base + u + 1].str \in String
      BY <2>4, <3>2
    <3> QED BY <2>5, <3>2, <3>3, WordsIs
  <2>10. M[L - base - u] = AsItems(OneWord(g)) \o R /\ R \in Seq(Item)
    <3> DEFINE m == L - base - u
    <3>1. m \in 1..L /\ L - m + 1 = base + u + 1 /\ m - 1 \in 0..L /\ L - base - u - 1 = m - 1
      BY <1>1, <2>2
    <3> HIDE DEF m
    <3>2. M[m] = Words(env, l[L - m + 1]) \o M[m - 1] /\ M[m - 1] \in Seq(Item)
      BY <1>2, <3>1
    <3> QED BY <2>9, <3>1, <3>2 DEF m
  <2>11. L - base - Len(P[e]) = L - base - u - 1
    BY <1>1, <2>2
  <2> HIDE DEF R
  <2>12. AsItems(W) \o (AsItems(OneWord(g)) \o R) = AsItems(Cut(f[e]).words) \o R
    <3>1. CASE g = <<>>
      <4>1. AsItems(OneWord(g)) = <<>>
        <5>1. <<>> \in Seq(String)
          OBVIOUS
        <5> QED BY <3>1, <5>1, AsItemsIs DEF OneWord
      <4>2. <<>> \o R = R
        BY <2>10, ConcatEmptySeq
      <4> QED BY <2>8, <3>1, <4>1, <4>2
    <3>2. CASE g # <<>>
      <4> DEFINE z == [op |-> FALSE, str |-> g]
                 A == AsItems(W)
      <4>1. AsItems(OneWord(g)) = <<z>>
        BY <2>5, <3>2, OneItem DEF OneWord
      <4>2. AsItems(Append(W, g)) = Append(A, z) /\ A \in Seq(Item)
        BY <2>5, <2>6, AsItemsIs
      <4>3. z \in Item
        BY <2>5 DEF Item
      <4> HIDE DEF z, A
      <4>4. <<z>> \in Seq(Item) /\ Append(A, z) = A \o <<z>>
        BY <4>2, <4>3
      <4>5. (A \o <<z>>) \o R = A \o (<<z>> \o R)
        <5> DEFINE y == <<z>>
        <5>1. A \in Seq(Item) /\ y \in Seq(Item) /\ R \in Seq(Item)
          BY <2>10, <4>2, <4>4
        <5> HIDE DEF y, R
        <5>2. (A \o y) \o R = A \o (y \o R)
          BY ONLY <5>1, ConcatAssociative
        <5> QED BY <5>2 DEF y
      <4>6. AsItems(Cut(f[e]).words) = A \o <<z>>
        BY <2>8, <3>2, <4>2, <4>4
      <4> QED BY <4>1, <4>5, <4>6 DEF A
    <3> QED BY <3>1, <3>2
  <2>13. Claim(e)
    BY <2>7, <2>10, <2>11, <2>12 DEF R
  <2> QED BY <2>13 DEF e, k
<1>8. Final \/ \A c \in S : \E d \in S : d > c
  <2> SUFFICES ASSUME NEW c \in S, ~Final PROVE \E d \in S : d > c
    OBVIOUS
  <2>1. c \in 0..N /\ Separator(s, c) /\ Claim(c)
    OBVIOUS
  <2>2. c # N
    <3>1. Claim(N) => Final
      BY <1>3, <1>4
    <3> HIDE DEF Claim, Final
    <3> QED BY <2>1, <3>1
  <2>3. c + 1 \in 1..N /\ c + 1 \in 0..N /\ (c + 1) - 1 = c /\ c + 1 > c
    BY <1>1, <2>1, <2>2
  <2>4. CASE Separator(s, c + 1)
    <3>1. f[c + 1].words = Cut(f[c]).words
      <4> DEFINE k == c + 1
      <4>1. k \in 0..Len(s) /\ Separator(s, k) /\ k > 0 /\ k - 1 = c
        BY <1>1, <2>3, <2>4 DEF N
      <4> HIDE DEF k, Claim, Final, S, U, L, N
      <4>2. f[k].words = Cut(f[k - 1]).words
        BY <4>1, SeparatorCuts DEF f
      <4> QED BY <4>1, <4>2 DEF k
    <3>2. c + 1 \notin PieceStarts(s)
      BY <2>4 DEF PieceStarts
    <3>3. P[c + 1] = P[c]
      BY <1>3, <2>3, <3>2
    <3>4. Cut(f[c + 1]).words = Cut(f[c]).words
      BY <1>5, <2>3, <2>4, <3>1
    <3>5. Claim(c + 1)
      BY <2>1, <3>3, <3>4
    <3> QED BY <2>3, <2>4, <3>5
  <2>5. CASE ~Separator(s, c + 1)
    <3> DEFINE k == c + 1
               e == PieceEnd(s, k)
    <3>1. k \in PieceStarts(s)
      BY <2>1, <2>3, <2>5 DEF PieceStarts
    <3>2. e \in k..N /\ Separator(s, e + 1)
      BY <1>1, <3>1, PieceEndIs
    <3>3. Claim(e)
      BY <1>7, <2>1, <3>1
    <3> HIDE DEF e
    <3>4. e # N
      <4>1. Claim(N) => Final
        BY <1>3, <1>4
      <4> QED BY <3>3, <4>1
    <3>5. e + 1 \in 1..N /\ e + 1 \in 0..N /\ (e + 1) - 1 = e /\ e + 1 > c /\ e + 1 > 0
      BY <1>1, <2>3, <3>2, <3>4
    <3>6. e + 1 \notin PieceStarts(s)
      BY <3>2 DEF PieceStarts
    <3>7. P[e + 1] = P[e]
      BY <1>3, <3>5, <3>6
    <3>8. f[e + 1].words = Cut(f[e]).words
      BY <3>2, <3>5, SeparatorCuts DEF f
    <3>9. Cut(f[e + 1]).words = Cut(f[e]).words
      BY <1>5, <3>2, <3>5, <3>8
    <3>10. Claim(e + 1)
      BY <3>3, <3>7, <3>9
    <3> QED BY <3>2, <3>5, <3>10
  <2> QED BY <2>4, <2>5
<1>9. Final
  <2> HIDE DEF Claim, Final
  <2>1. SUFFICES ASSUME ~Final PROVE FALSE
    OBVIOUS
  <2> DEFINE T == {N - c : c \in S}
  <2>2. T \in SUBSET Nat /\ N - 0 \in T
    BY <1>1, <1>6
  <2>3. PICK m \in T : \A n \in T : m <= n
    <3> HIDE DEF T
    <3>1. T # {}
      BY <2>2
    <3> QED BY <2>2, <3>1, LeastExists
  <2>4. PICK c \in S : m = N - c
    OBVIOUS
  <2>5. PICK d \in S : d > c
    BY <1>8, <2>1
  <2>6. N - d \in T
    OBVIOUS
  <2>7. N - c <= N - d
    BY <2>3, <2>4, <2>6
  <2>8. c \in Int /\ d \in Int
    BY <1>1
  <2> QED BY <1>1, <2>5, <2>7, <2>8
<1> QED BY <1>9 DEF M

-----------------------------------------------------------------------------
(* What holds of a word while it is expanded *)

(* No reference before p is to be replaced between quotes. *)
Settled(s, p) == \A q \in 1..p - 1 : s[q] \in Refs => OpenAt(s, q) # Double

(* Nothing is left to be done but to remove the quotes. *)
Ready(s) == Balanced(s) /\ NoneFree(s) /\ Settled(s, Len(s) + 1)

BlankWord(w, v) ==
  ToSet(w) \subseteq Refs /\ UNION {ToSet(v[r]) : r \in ToSet(w)} = {Blank}

Fit(t, v) == ~t.op => ~HasFreeBlank(t.str) /\ ~KeepsQuotes(t.str) /\ ~BlankWord(t.str, v)

ShowsValue(s, k, v) == s[k] \in Refs /\ \E d \in 1..Len(v[s[k]]) : v[s[k]][d] # Blank

(* What env_var has read before p is not all blank, or what is to come is  *)
(* not, or all is empty. *)
Shown(s, p, v) ==
  \/ \E k \in 1..p - 1 : k <= Len(s) /\ s[k] # Blank
  \/ \E k \in p..Len(s) : s[k] \notin Refs \cup {Blank} \/ ShowsValue(s, k, v)
  \/ p = 1 /\ \A k \in 1..Len(s) : s[k] \in Refs /\ v[s[k]] = <<>>

(* A word with quotes does not end in a reference. *)
EndsWell(s, p, d) ==
  Holds(s, Quotes) => IF p <= Len(s) THEN s[Len(s)] \notin Refs ELSE ~d

AtPlain(s, p, d, v) == NoFreeRef(s, p) /\ Shown(s, p, v) /\ EndsWell(s, p, d)

AtScan(s, p, o, x) ==
  /\ Balanced(s) /\ NoneFree(s) /\ Settled(s, p)
  /\ OpenAt(s, p) = o /\ ToSet(x) = Turns(s, p)

AtHandle(s, x) == Ready(s) /\ ToSet(x) = Turns(s, Len(s) + 1)

LEMMA FitIsPlain ==
  ASSUME NEW t, t.str \in String, ~t.op, NEW v \in [Refs -> String], Fit(t, v), NEW d
  PROVE  AtPlain(t.str, 1, d, v)
<1> DEFINE s == t.str
<1>1. s \in String /\ Len(s) \in Nat /\ ~HasFreeBlank(s) /\ ~KeepsQuotes(s) /\ ~BlankWord(s, v)
      /\ \A k \in 1..Len(s) : s[k] \in Symbols
  BY StringIs DEF Fit
<1> HIDE DEF s
<1>2. NoFreeRef(s, 1)
  BY DEF NoFreeRef
<1>3. EndsWell(s, 1, d)
  <2> SUFFICES ASSUME Holds(s, Quotes) PROVE 1 <= Len(s) /\ s[Len(s)] \notin Refs
    BY DEF EndsWell
  <2>1. PICK k \in 1..Len(s) : s[k] \in Quotes
    BY <1>1, HoldsIs
  <2>2. 1 <= Len(s) /\ s # <<>>
    BY <1>1
  <2> QED BY <1>1, <2>2 DEF KeepsQuotes
<1>4. Shown(s, 1, v)
  <2> SUFFICES ASSUME \A k \in 1..Len(s) : s[k] \in Refs \cup {Blank} /\ ~ShowsValue(s, k, v)
               PROVE  \A k \in 1..Len(s) : s[k] \in Refs /\ v[s[k]] = <<>>
    BY DEF Shown
  <2>1. \A k \in 1..Len(s) : s[k] \notin Quotes
    BY SymbolsApart
  <2>2. \A k \in 1..Len(s) : s[k] # Blank
    <3> SUFFICES ASSUME NEW k \in 1..Len(s), s[k] = Blank PROVE FALSE
      OBVIOUS
    <3>1. 1 \in 1..Len(s) + 1 /\ k \in 1..Len(s) + 1 /\ \A m \in 1..k - 1 : m \in 1..Len(s)
      BY <1>1
    <3>2. OpenAt(s, k) = OpenAt(s, 1)
      BY <1>1, <2>1, <3>1, OpenStays
    <3>3. OpenAt(s, 1) = None
      BY <1>1, OpenAtStep
    <3> QED BY <1>1, <3>2, <3>3 DEF HasFreeBlank
  <2>3. \A k \in 1..Len(s) : s[k] \in Refs
    BY <2>2
  <2>4. ToSet(s) \subseteq Refs /\ \A k \in 1..Len(s) : s[k] \in ToSet(s)
    BY <2>3 DEF ToSet
  <2>5. \A r \in ToSet(s) : \E k \in 1..Len(s) : r = s[k]
    BY DEF ToSet
  <2>6. ASSUME NEW k \in 1..Len(s), v[s[k]] # <<>> PROVE FALSE
    <3> DEFINE w == v[s[k]]
    <3>1. w \in String /\ Len(w) \in Nat /\ w # <<>>
      BY <2>3, <2>6, StringIs
    <3>2. 1 \in 1..Len(w)
      BY <3>1 DEF String
    <3>3. w[1] = Blank
      BY <2>3, <3>2 DEF ShowsValue
    <3>4. Blank \in ToSet(v[s[k]])
      <4> HIDE DEF w
      <4>1. Blank \in ToSet(w)
        BY <3>2, <3>3 DEF ToSet
      <4> QED BY <4>1 DEF w
    <3>5. \A r \in ToSet(s) : \A c \in ToSet(v[r]) : c = Blank
      <4> SUFFICES ASSUME NEW r \in ToSet(s), NEW c \in ToSet(v[r]) PROVE c = Blank
        OBVIOUS
      <4>1. PICK m \in 1..Len(s) : r = s[m]
        BY <2>5
      <4>2. \A d2 \in 1..Len(v[r]) : v[r][d2] = Blank
        BY <2>3, <4>1 DEF ShowsValue
      <4> QED BY <4>2 DEF ToSet
    <3>6. UNION {ToSet(v[r]) : r \in ToSet(s)} = {Blank}
      <4> DEFINE Z(r) == ToSet(v[r])
                 U == UNION {Z(r) : r \in ToSet(s)}
      <4>1. s[k] \in ToSet(s) /\ Blank \in Z(s[k]) /\ \A r \in ToSet(s) : \A c \in Z(r) : c = Blank
        BY <2>4, <3>4, <3>5
      <4> HIDE DEF Z
      <4>2. Blank \in U
        BY <4>1
      <4>3. \A c \in U : c = Blank
        BY <4>1
      <4>4. U = {Blank}
        <5> HIDE DEF U
        <5> QED BY <4>2, <4>3
      <4> QED BY <4>4 DEF Z
    <3> QED BY <1>1, <2>4, <3>6 DEF BlankWord
  <2> QED BY <2>3, <2>6
<1> QED BY <1>2, <1>3, <1>4 DEF AtPlain, s

LEMMA SymbolIsPlain ==
  ASSUME NEW s \in String, NEW p \in 1..Len(s), NEW d, NEW v, AtPlain(s, p, d, v),
         s[p] \notin Quotes \cup Refs
  PROVE  AtPlain(s, p + 1, FALSE, v)
<1>1. Len(s) \in Nat /\ p \in Nat /\ p > 0 /\ p <= Len(s) /\ \A q \in 1..(p + 1) - 1 : q \in 1..p - 1 \/ q = p
  BY StringIs
<1>2. NoFreeRef(s, p + 1)
  BY <1>1 DEF AtPlain, NoFreeRef
<1>3. EndsWell(s, p + 1, FALSE)
  BY <1>1 DEF AtPlain, EndsWell
<1>4. Shown(s, p + 1, v)
  <2>1. CASE s[p] # Blank
    <3>1. p \in 1..(p + 1) - 1
      BY <1>1
    <3> QED BY <1>1, <2>1, <3>1 DEF Shown
  <2>2. CASE s[p] = Blank
    <3>1. s[p] \notin Refs /\ ~ShowsValue(s, p, v)
      BY DEF ShowsValue
    <3>2. CASE \E k \in 1..p - 1 : k <= Len(s) /\ s[k] # Blank
      <4>1. \A k \in 1..p - 1 : k \in 1..(p + 1) - 1
        BY <1>1
      <4> QED BY <3>2, <4>1 DEF Shown
    <3>3. CASE \E k \in p..Len(s) : s[k] \notin Refs \cup {Blank} \/ ShowsValue(s, k, v)
      <4>1. PICK k \in p..Len(s) : s[k] \notin Refs \cup {Blank} \/ ShowsValue(s, k, v)
        BY <3>3
      <4>2. k # p
        BY <2>2, <3>1, <4>1
      <4>3. k \in p + 1..Len(s)
        BY <1>1, <4>2
      <4> QED BY <4>1, <4>3 DEF Shown
    <3>4. ~\A k \in 1..Len(s) : s[k] \in Refs /\ v[s[k]] = <<>>
      BY <3>1
    <3> QED BY <3>2, <3>3, <3>4 DEF AtPlain, Shown
  <2> QED BY <2>1, <2>2
<1> QED BY <1>2, <1>3, <1>4 DEF AtPlain

LEMMA QuotedIsPlain ==
  ASSUME NEW s \in String, NEW p \in 1..Len(s), NEW d, NEW v, AtPlain(s, p, d, v),
         s[p] \in Quotes, OpenAt(s, p) = None, NEW c \in p + 1..Len(s),
         \A m \in p + 1..c - 1 : s[m] # s[p]
  PROVE  AtPlain(s, c + 1, FALSE, v)
<1>1. Len(s) \in Nat /\ p \in Nat /\ p > 0 /\ p <= Len(s) /\ c \in Nat /\ p < c /\ c <= Len(s)
  BY StringIs
<1>2. NoFreeRef(s, c + 1)
  <2> SUFFICES ASSUME NEW q \in 1..(c + 1) - 1, q <= Len(s), s[q] \in Refs PROVE OpenAt(s, q) # None
    BY DEF NoFreeRef
  <2>1. CASE q < p
    <3>1. q \in 1..p - 1
      BY <1>1, <2>1
    <3> QED BY <3>1 DEF AtPlain, NoFreeRef
  <2>2. CASE q = p
    BY <2>2, SymbolsApart
  <2>3. CASE q > p
    <3>1. q \in p + 1..Len(s) + 1 /\ \A m \in p + 1..q - 1 : m \in p + 1..c - 1
      BY <1>1, <2>3
    <3>2. OpenAt(s, q) = s[p]
      BY <3>1, QuoteStaysOpen
    <3> QED BY <3>2, SymbolsApart
  <2> QED BY <1>1, <2>1, <2>2, <2>3
<1>3. EndsWell(s, c + 1, FALSE)
  BY <1>1 DEF AtPlain, EndsWell
<1>4. Shown(s, c + 1, v)
  <2>1. p \in 1..(c + 1) - 1 /\ p <= Len(s) /\ s[p] # Blank
    BY <1>1, SymbolsApart
  <2> QED BY <2>1 DEF Shown
<1> QED BY <1>2, <1>3, <1>4 DEF AtPlain

LEMMA ReferenceIsPlain ==
  ASSUME NEW v \in [Refs -> String], NEW s \in String, NEW p \in 1..Len(s), NEW d,
         AtPlain(s, p, d, v), s[p] \in Refs, OpenAt(s, p) = None, Plain(v[s[p]]),
         NEW r \in String, Replaced(s, v[s[p]], p, r)
  PROVE  AtPlain(r, p + Len(v[s[p]]), TRUE, v)
<1> DEFINE w == v[s[p]]
           l == Len(w)
           n == Len(s)
<1>1. /\ n \in Nat /\ l \in Nat /\ w \in String /\ p \in Nat /\ p > 0 /\ p <= n
      /\ Len(r) = n - 1 + l /\ s[p] \notin Quotes
      /\ \A m \in 1..l : w[m] \notin Quotes /\ w[m] \notin Refs
  BY StringIs, SymbolsApart DEF Replaced, Plain
<1>2. /\ \A q \in 1..p - 1 : r[q] = s[q]
      /\ \A m \in 1..l : r[p - 1 + m] = w[m]
      /\ \A q \in p + 1..n : r[q - 1 + l] = s[q]
  BY DEF Replaced
<1>3. \A q \in 1..p : OpenAt(r, q) = OpenAt(s, q)
  BY <1>1, OpenReplaced
<1>4. \A q \in 1..Len(r) : \/ q \in 1..p - 1 /\ r[q] = s[q]
                           \/ \E m \in 1..l : q = p - 1 + m /\ r[q] = w[m]
                           \/ \E k \in p + 1..n : q = k - 1 + l /\ r[q] = s[k]
  <2>1. Replaced(s, w, p, r)
    OBVIOUS
  <2> HIDE DEF w
  <2> QED BY <1>1, <2>1, ReplacedFrom, SMTT(30)
<1>w. l = Len(w) /\ w = v[s[p]]
  OBVIOUS
<1> HIDE DEF l, n
<1>5. NoFreeRef(r, p + l)
  <2> SUFFICES ASSUME NEW q \in 1..(p + l) - 1, q <= Len(r), r[q] \in Refs PROVE OpenAt(r, q) # None
    BY DEF NoFreeRef
  <2>1. q \in 1..Len(r) /\ \A k \in p + 1..n : q # k - 1 + l
    BY <1>1
  <2>2. q \in 1..p - 1 /\ r[q] = s[q]
    BY <1>1, <1>4, <2>1
  <2>3. q \in 1..p /\ q <= n
    BY <1>1, <2>2
  <2>4. OpenAt(s, q) # None
    BY <2>2, <2>3 DEF AtPlain, NoFreeRef, n
  <2> QED BY <1>3, <2>3, <2>4
<1>6. EndsWell(r, p + l, TRUE)
  <2> SUFFICES ASSUME Holds(r, Quotes) PROVE p + l <= Len(r) /\ r[Len(r)] \notin Refs
    BY DEF EndsWell
  <2>1. PICK q \in 1..Len(r) : r[q] \in Quotes
    BY HoldsIs
  <2>2. \E k \in 1..n : s[k] \in Quotes
    <3>1. CASE q \in 1..p - 1 /\ r[q] = s[q]
      <4>1. q \in 1..n
        BY <1>1, <3>1
      <4> QED BY <2>1, <3>1, <4>1
    <3>2. CASE \E m \in 1..l : q = p - 1 + m /\ r[q] = w[m]
      BY <1>1, <2>1, <3>2
    <3>3. CASE \E k \in p + 1..n : q = k - 1 + l /\ r[q] = s[k]
      <4>1. \A k \in p + 1..n : k \in 1..n
        BY <1>1
      <4> QED BY <2>1, <3>3, <4>1
    <3> QED BY <1>4, <3>1, <3>2, <3>3
  <2>3. Holds(s, Quotes)
    BY <2>2, HoldsIs DEF n
  <2>4. s[n] \notin Refs
    BY <1>1, <2>3 DEF AtPlain, EndsWell, n
  <2>5. n \in p + 1..n /\ n - 1 + l = Len(r) /\ p + l <= Len(r)
    <3>1. n # p
      BY <2>4
    <3> QED BY <1>1, <3>1
  <2>6. r[n - 1 + l] = s[n]
    BY <1>2, <2>5
  <2> QED BY <2>4, <2>5, <2>6
<1>7. Shown(r, p + l, v)
  <2>1. CASE \E k \in 1..p - 1 : k <= Len(s) /\ s[k] # Blank
    <3>1. PICK k \in 1..p - 1 : s[k] # Blank
      BY <2>1
    <3>2. k \in 1..(p + l) - 1 /\ k <= Len(r) /\ r[k] # Blank
      BY <1>1, <1>2, <3>1
    <3> QED BY <3>2 DEF Shown
  <2>2. CASE \E k \in p..Len(s) : s[k] \notin Refs \cup {Blank} \/ ShowsValue(s, k, v)
    <3>1. PICK k \in p..n : s[k] \notin Refs \cup {Blank} \/ ShowsValue(s, k, v)
      BY <2>2 DEF n
    <3>2. CASE k = p
      <4>1. PICK m \in 1..Len(v[s[p]]) : v[s[p]][m] # Blank
        BY <3>1, <3>2 DEF ShowsValue
      <4>2. m \in 1..l /\ w[m] # Blank
        BY <1>w, <4>1
      <4> HIDE DEF w
      <4>3. r[p - 1 + m] = w[m]
        BY <1>2, <4>2
      <4>4. p - 1 + m \in 1..(p + l) - 1 /\ p - 1 + m <= Len(r)
        BY <1>1, <4>2
      <4> QED BY <4>2, <4>3, <4>4 DEF Shown
    <3>3. CASE k # p
      <4>1. k \in p + 1..n /\ k - 1 + l \in p + l..Len(r)
        BY <1>1, <3>3
      <4>2. r[k - 1 + l] = s[k]
        BY <1>2, <4>1
      <4>3. r[k - 1 + l] \notin Refs \cup {Blank} \/ ShowsValue(r, k - 1 + l, v)
        BY <3>1, <4>2 DEF ShowsValue
      <4> QED BY <4>1, <4>3 DEF Shown
    <3> QED BY <3>2, <3>3
  <2>3. CASE p = 1 /\ \A k \in 1..Len(s) : s[k] \in Refs /\ v[s[k]] = <<>>
    <3>1. w = <<>>
      BY <1>1, <2>3 DEF n
    <3>2. l = 0
      BY <1>w, <3>1
    <3>3. \A q \in 1..Len(r) : q + 1 \in p + 1..n /\ q + 1 \in 1..Len(s) /\ (q + 1) - 1 + l = q
      BY <1>1, <2>3, <3>2 DEF n
    <3>4. \A q \in 1..Len(r) : r[q] = s[q + 1]
      <4> SUFFICES ASSUME NEW q \in 1..Len(r) PROVE r[q] = s[q + 1]
        OBVIOUS
      <4>1. q + 1 \in p + 1..n /\ (q + 1) - 1 + l = q
        BY <3>3
      <4>2. r[(q + 1) - 1 + l] = s[q + 1]
        BY <1>2, <4>1
      <4> QED BY <4>1, <4>2
    <3>5. \A q \in 1..Len(r) : r[q] \in Refs /\ v[r[q]] = <<>>
      BY <2>3, <3>3, <3>4
    <3>6. p + l = 1
      BY <2>3, <3>2
    <3> QED BY <3>5, <3>6 DEF Shown
  <2> QED BY <2>1, <2>2, <2>3 DEF AtPlain, Shown
<1> QED BY <1>5, <1>6, <1>7, <1>w DEF AtPlain

LEMMA PlainEndIs ==
  ASSUME NEW s \in String, NEW d, NEW v, AtPlain(s, Len(s) + 1, d, v)
  PROVE  /\ HasFreeBlank(s) => PieceStarts(s) # {}
         /\ ~HasFreeBlank(s) => NoneFree(s)
         /\ NoFreeRef(s, Len(s) + 1)
         /\ d => ~Holds(s, Quotes)
<1>1. Len(s) \in Nat
  BY StringIs
<1>2. ASSUME HasFreeBlank(s), PieceStarts(s) = {} PROVE FALSE
  <2>1. \A p \in 1..Len(s) : s[p] = Blank
    BY <1>2, NoPieceIsBlank
  <2>2. /\ \A k \in 1..(Len(s) + 1) - 1 : k \in 1..Len(s)
        /\ ~\E k \in Len(s) + 1..Len(s) : TRUE
    BY <1>1
  <2>3. Len(s) + 1 # 1
    BY <1>1, <1>2 DEF HasFreeBlank
  <2> QED BY <2>1, <2>2, <2>3 DEF AtPlain, Shown
<1>3. \A k \in 1..Len(s) : k \in 1..(Len(s) + 1) - 1 /\ k <= Len(s)
  BY <1>1
<1>4. ~HasFreeBlank(s) => NoneFree(s)
  BY <1>3 DEF AtPlain, NoFreeRef, NoneFree, HasFreeBlank
<1>5. d => ~Holds(s, Quotes)
  <2>1. ~(Len(s) + 1 <= Len(s))
    BY <1>1
  <2> QED BY <2>1 DEF AtPlain, EndsWell
<1> QED BY <1>2, <1>4, <1>5 DEF AtPlain

LEMMA UnquotedIsReady ==
  ASSUME NEW s \in String, ~Holds(s, Quotes), NoneFree(s)
  PROVE  AtHandle(s, <<>>)
<1>1. Len(s) \in Nat /\ \A k \in 1..Len(s) : s[k] \notin Quotes
  BY StringIs, HoldsIs
<1>2. \A k \in 1..Len(s) + 1 : OpenAt(s, k) = None
  <2> SUFFICES ASSUME NEW k \in 1..Len(s) + 1 PROVE OpenAt(s, k) = None
    OBVIOUS
  <2>1. 1 \in 1..Len(s) + 1 /\ k \in 1..Len(s) + 1 /\ \A m \in 1..k - 1 : m \in 1..Len(s)
    BY <1>1
  <2>2. OpenAt(s, 1) = None
    BY <1>1, OpenAtStep
  <2> QED BY <1>1, <2>1, <2>2, OpenStays
<1>3. \A k \in 1..(Len(s) + 1) - 1 : k \in 1..Len(s) + 1 /\ k + 1 \in 1..Len(s) + 1
  BY <1>1
<1>4. Len(s) + 1 \in 1..Len(s) + 1
  BY <1>1
<1>5. Balanced(s)
  BY <1>2, <1>4 DEF Balanced
<1>6. Settled(s, Len(s) + 1)
  BY <1>2, <1>3, SymbolsApart DEF Settled
<1>7. Turns(s, Len(s) + 1) = {} /\ ToSet(<<>>) = {}
  <2>1. Turns(s, Len(s) + 1) = {}
    BY <1>2, <1>3 DEF Turns
  <2> QED BY <2>1 DEF ToSet
<1> QED BY <1>5, <1>6, <1>7 DEF AtHandle, Ready

LEMMA PieceIsFit ==
  ASSUME NEW s \in String, ~Nested(s), Balanced(s), NoFreeRef(s, Len(s) + 1),
         NEW k \in PieceStarts(s), NEW t, t.str = PieceAt(s, k), NEW v
  PROVE  /\ Fit(t, v) /\ NoneFree(t.str)
         /\ ~Holds(s, Quotes) => ~Holds(t.str, Quotes)
<1> DEFINE w == PieceAt(s, k)
<1>1. /\ w \in String /\ NoneFree(w) /\ ~HasFreeBlank(w) /\ Balanced(w)
      /\ \A m \in 1..Len(w) : k + m - 1 \in 1..Len(s) /\ w[m] = s[k + m - 1]
  BY PieceIsString, PieceIsUncut, PieceIsProper
<1> HIDE DEF w
<1>2. Len(w) \in Nat /\ \A m \in 1..Len(w) : w[m] \in Symbols
  BY <1>1, StringIs
<1>3. ~KeepsQuotes(w)
  <2> SUFFICES ASSUME w # <<>>, w[Len(w)] \in Refs PROVE FALSE
    BY DEF KeepsQuotes
  <2> DEFINE m == Len(w)
  <2>1. m \in 1..Len(w)
    BY <1>1, <1>2 DEF String
  <2>2. OpenAt(w, m) # None
    BY <1>1, <2>1 DEF NoneFree
  <2>3. m \in 1..Len(w) + 1 /\ OpenAt(w, m) \in OpenValues
    BY <1>2, <2>1, OpenAtStep
  <2>4. OpenAt(w, m + 1) = Next1(w, m, OpenAt(w, m))
    BY <1>2, <2>1, OpenAtStep
  <2> DEFINE o == OpenAt(w, m)
  <2>5. Next1(w, m, o) # None
    <3> HIDE DEF o
    <3>1. o # None /\ o \in Quotes
      BY <2>2, <2>3 DEF OpenValues, o
    <3>2. w[m] # o
      BY <3>1, SymbolsApart
    <3> QED BY <3>1, <3>2 DEF Next1
  <2> QED BY <1>1, <2>4, <2>5 DEF Balanced
<1>4. ~BlankWord(w, v)
  <2> SUFFICES ASSUME BlankWord(w, v) PROVE FALSE
    OBVIOUS
  <2>1. \A m \in 1..Len(w) : w[m] \in Refs
    BY DEF BlankWord, ToSet
  <2>2. CASE Len(w) = 0
    <3>1. ToSet(w) = {}
      BY <2>2 DEF ToSet
    <3>2. UNION {ToSet(v[r]) : r \in ToSet(w)} = {}
      BY <3>1
    <3> QED BY <3>2 DEF BlankWord
  <2>3. CASE Len(w) # 0
    <3>1. 1 \in 1..Len(w)
      BY <1>2, <2>3
    <3>2. OpenAt(w, 1) # None
      BY <1>1, <2>1, <3>1 DEF NoneFree
    <3> QED BY <1>2, <3>2, OpenAtStep
  <2> QED BY <2>2, <2>3
<1>5. ~Holds(s, Quotes) => ~Holds(w, Quotes)
  BY <1>1, HoldsIs
<1> QED BY <1>1, <1>3, <1>4, <1>5 DEF Fit, w

-----------------------------------------------------------------------------
(* The steps of save_index *)

LEMMA TurnsNext ==
  ASSUME NEW s, NEW p \in Places
  PROVE  /\ OpenAt(s, p) # OpenAt(s, p + 1) => Turns(s, p + 1) = Turns(s, p) \cup {p}
         /\ OpenAt(s, p) = OpenAt(s, p + 1) => Turns(s, p + 1) = Turns(s, p)
<1>1. p \in Nat /\ p > 0
  BY DEF Places
<1>2. \A k : k \in 1..(p + 1) - 1 <=> k \in 1..p - 1 \/ k = p
  BY <1>1
<1> QED BY <1>2 DEF Turns

LEMMA AddedToSet ==
  ASSUME NEW x \in Seq(Places), NEW p \in Places
  PROVE  ToSet(Append(x, p)) = ToSet(x) \cup {p}
<1> DEFINE y == Append(x, p)
<1>1. Len(x) \in Nat /\ Len(y) = Len(x) + 1 /\ y[Len(x) + 1] = p /\ \A m \in 1..Len(x) : y[m] = x[m]
  BY PlacesIs, AddedIs
<1> HIDE DEF y
<1>2. \A m \in 1..Len(x) : m \in 1..Len(y)
  BY <1>1
<1>3. Len(x) + 1 \in 1..Len(y) /\ \A m \in 1..Len(y) : m \in 1..Len(x) \/ m = Len(x) + 1
  BY <1>1
<1>4. ToSet(y) = ToSet(x) \cup {p}
  BY <1>1, <1>2, <1>3 DEF ToSet
<1> QED BY <1>4 DEF y

LEMMA ScanStart ==
  ASSUME NEW s \in String, Balanced(s), NoneFree(s)
  PROVE  AtScan(s, 1, None, <<>>)
<1>1. Settled(s, 1)
  BY DEF Settled
<1>2. Turns(s, 1) = {} /\ ToSet(<<>>) = {}
  BY DEF Turns, ToSet
<1>3. OpenAt(s, 1) = None
  BY StringIs, OpenAtStep
<1> QED BY <1>1, <1>2, <1>3 DEF AtScan

LEMMA NoTurnIsReady ==
  ASSUME NEW s \in String, Balanced(s), NoneFree(s),
         Cardinality({k \in 1..Len(s) : OpenAt(s, k) # OpenAt(s, k + 1)}) = 0
  PROVE  AtHandle(s, <<>>)
<1> DEFINE T == {k \in 1..Len(s) : OpenAt(s, k) # OpenAt(s, k + 1)}
           n == Len(s)
           f == [k \in 0..n |-> OpenAt(s, k + 1)]
           g == [k \in 0..n |-> None]
<1>1. n \in Nat /\ (n + 1) - 1 = n
  BY StringIs
<1>2. T = {}
  <2>1. IsFiniteSet(1..n)
    BY <1>1, FS_Interval
  <2>2. IsFiniteSet(T)
    BY <2>1, FS_Subset
  <2> HIDE DEF T
  <2>3. Cardinality(T) = 0
    BY DEF T
  <2> QED BY <2>2, <2>3, FS_EmptySet
<1>3. Turns(s, n + 1) = {} /\ ToSet(<<>>) = {}
  BY <1>1, <1>2 DEF Turns, ToSet
<1>4. f[0] = g[0]
  BY <1>1, OpenAtStep
<1>5. \A k \in 1..n : f[k - 1] = g[k - 1] => f[k] = g[k]
  <2> SUFFICES ASSUME NEW k \in 1..n, f[k - 1] = g[k - 1] PROVE f[k] = g[k]
    OBVIOUS
  <2>1. k \in 0..n /\ k - 1 \in 0..n /\ (k - 1) + 1 = k
    BY <1>1
  <2>2. OpenAt(s, k) = None
    BY <2>1
  <2>3. OpenAt(s, k) = OpenAt(s, k + 1)
    BY <1>2
  <2> QED BY <2>1, <2>2, <2>3
<1>6. \A k \in 0..n : f[k] = g[k]
  <2> HIDE DEF f, g, n
  <2>1. EqualSteps(f, g, n)
    BY <1>5 DEF EqualSteps
  <2>2. Alike(f, g, n)
    BY <1>1, <1>4, <2>1, StepByStep
  <2> QED BY <2>2 DEF Alike
<1>7. \A k \in 1..n + 1 : OpenAt(s, k) = None
  <2> SUFFICES ASSUME NEW k \in 1..n + 1 PROVE OpenAt(s, k) = None
    OBVIOUS
  <2>1. k - 1 \in 0..n /\ (k - 1) + 1 = k
    BY <1>1
  <2>2. f[k - 1] = OpenAt(s, k)
    BY <2>1
  <2> QED BY <1>6, <2>1, <2>2
<1>8. Settled(s, n + 1)
  <2>1. \A k \in 1..(n + 1) - 1 : k \in 1..n + 1
    BY <1>1
  <2> QED BY <1>7, <2>1, SymbolsApart DEF Settled
<1> QED BY <1>3, <1>8 DEF AtHandle, Ready

LEMMA SettledNext ==
  ASSUME NEW s, NEW p \in Places, Settled(s, p), s[p] \in Refs => OpenAt(s, p) # Double
  PROVE  Settled(s, p + 1)
<1>1. p \in Nat /\ p > 0
  BY DEF Places
<1>2. \A k \in 1..(p + 1) - 1 : k \in 1..p - 1 \/ k = p
  BY <1>1
<1> QED BY <1>2 DEF Settled

LEMMA ScanTurn ==
  ASSUME NEW s \in String, NEW p \in 1..Len(s), NEW o, NEW x \in Seq(Places),
         AtScan(s, p, o, x), s[p] \in Quotes, NEW q, q = Next1(s, p, o), q # o
  PROVE  AtScan(s, p + 1, q, Append(x, p))
<1>1. p \in Places /\ Len(s) \in Nat
  BY StringIs DEF Places
<1>2. OpenAt(s, p) = o /\ OpenAt(s, p + 1) = q
  <2>1. OpenAt(s, p) = o
    BY DEF AtScan
  <2> QED BY <1>1, <2>1, OpenAtStep
<1>3. Settled(s, p + 1)
  BY <1>1, SettledNext, SymbolsApart DEF AtScan
<1>4. ToSet(Append(x, p)) = Turns(s, p + 1)
  <2>1. ToSet(x) = Turns(s, p)
    BY DEF AtScan
  <2>2. Turns(s, p + 1) = Turns(s, p) \cup {p}
    BY <1>1, <1>2, TurnsNext
  <2>3. ToSet(Append(x, p)) = ToSet(x) \cup {p}
    BY <1>1, AddedToSet
  <2> QED BY <2>1, <2>2, <2>3
<1> QED BY <1>2, <1>3, <1>4 DEF AtScan

LEMMA ScanStay ==
  ASSUME NEW s \in String, NEW p \in 1..Len(s), NEW o, NEW x, AtScan(s, p, o, x),
         Next1(s, p, o) = o, s[p] \in Refs => o # Double
  PROVE  AtScan(s, p + 1, o, x)
<1>1. p \in Places /\ Len(s) \in Nat
  BY StringIs DEF Places
<1>2. OpenAt(s, p) = o /\ OpenAt(s, p + 1) = o
  <2>1. OpenAt(s, p) = o
    BY DEF AtScan
  <2> QED BY <1>1, <2>1, OpenAtStep
<1>3. Settled(s, p + 1)
  BY <1>1, <1>2, SettledNext DEF AtScan
<1>4. ToSet(x) = Turns(s, p + 1)
  BY <1>1, <1>2, TurnsNext DEF AtScan
<1> QED BY <1>2, <1>3, <1>4 DEF AtScan

LEMMA ScanReplace ==
  ASSUME NEW s \in String, NEW p \in 1..Len(s), NEW x, AtScan(s, p, Double, x),
         NEW w \in String, Plain(w), s[p] \in Refs, NEW r \in String, Replaced(s, w, p, r)
  PROVE  AtScan(r, p + Len(w), Double, x)
<1> DEFINE l == Len(w)
           n == Len(s)
<1>1. /\ n \in Nat /\ l \in Nat /\ p \in Nat /\ p > 0 /\ p <= n
      /\ Len(r) = n - 1 + l /\ s[p] \notin Quotes
      /\ \A m \in 1..l : w[m] \notin Quotes /\ w[m] \notin Refs
  BY StringIs, SymbolsApart DEF Replaced, Plain
<1>2. /\ Balanced(s) /\ NoneFree(s) /\ Settled(s, p) /\ OpenAt(s, p) = Double
      /\ ToSet(x) = Turns(s, p) /\ Double # None
  BY SymbolsApart DEF AtScan
<1>3. /\ \A q \in 1..p : OpenAt(r, q) = OpenAt(s, q)
      /\ \A q \in p..p + l : OpenAt(r, q) = Double
      /\ \A q \in p + 1..n + 1 : OpenAt(r, q - 1 + l) = OpenAt(s, q)
  BY <1>1, <1>2, OpenReplaced
<1>4. \A q \in 1..Len(r) : \/ q \in 1..p - 1 /\ r[q] = s[q]
                           \/ \E m \in 1..l : q = p - 1 + m /\ r[q] = w[m]
                           \/ \E k \in p + 1..n : q = k - 1 + l /\ r[q] = s[k]
  <2>1. w \in String /\ Replaced(s, w, p, r)
    OBVIOUS
  <2> QED BY <2>1, ReplacedFrom
<1> HIDE DEF l, n
<1>5. Balanced(r)
  <2>1. n + 1 \in p + 1..n + 1 /\ (n + 1) - 1 + l = Len(r) + 1
    BY <1>1
  <2>2. OpenAt(r, (n + 1) - 1 + l) = OpenAt(s, n + 1)
    BY <1>3, <2>1
  <2> QED BY <1>2, <2>1, <2>2 DEF Balanced, n
<1>6. NoneFree(r)
  <2> SUFFICES ASSUME NEW q \in 1..Len(r), r[q] \in Refs \cup {Blank} PROVE OpenAt(r, q) # None
    BY DEF NoneFree
  <2>1. CASE q \in 1..p - 1 /\ r[q] = s[q]
    <3>1. q \in 1..p /\ q \in 1..n
      BY <1>1, <2>1
    <3> QED BY <1>2, <1>3, <2>1, <3>1 DEF NoneFree, n
  <2>2. CASE \E m \in 1..l : q = p - 1 + m /\ r[q] = w[m]
    <3>1. q \in p..p + l
      BY <1>1, <2>2
    <3> QED BY <1>2, <1>3, <3>1
  <2>3. CASE \E k \in p + 1..n : q = k - 1 + l /\ r[q] = s[k]
    <3>1. PICK k \in p + 1..n : q = k - 1 + l /\ r[q] = s[k]
      BY <2>3
    <3>2. k \in p + 1..n + 1 /\ k \in 1..n
      BY <1>1
    <3>3. OpenAt(s, k) # None
      BY <1>2, <3>1, <3>2 DEF NoneFree, n
    <3>4. OpenAt(r, k - 1 + l) = OpenAt(s, k)
      BY <1>3, <3>2
    <3> QED BY <3>1, <3>3, <3>4
  <2> QED BY <1>4, <2>1, <2>2, <2>3
<1>7. Settled(r, p + l)
  <2> SUFFICES ASSUME NEW q \in 1..(p + l) - 1, r[q] \in Refs PROVE OpenAt(r, q) # Double
    BY DEF Settled
  <2>1. q \in 1..Len(r) /\ \A k \in p + 1..n : q # k - 1 + l
    BY <1>1
  <2>2. q \in 1..p - 1 /\ r[q] = s[q]
    BY <1>1, <1>4, <2>1
  <2>3. q \in 1..p
    BY <1>1, <2>2
  <2> QED BY <1>2, <1>3, <2>2, <2>3 DEF Settled
<1>8. Turns(r, p + l) = Turns(s, p)
  <2>1. \A k \in 1..p - 1 : k \in 1..p /\ k + 1 \in 1..p /\ k \in 1..(p + l) - 1
    BY <1>1
  <2>2. \A k \in 1..(p + l) - 1 : k \notin 1..p - 1 => k \in p..p + l /\ k + 1 \in p..p + l
    BY <1>1
  <2>3. \A k : k \in 1..(p + l) - 1 /\ OpenAt(r, k) # OpenAt(r, k + 1)
                 <=> k \in 1..p - 1 /\ OpenAt(s, k) # OpenAt(s, k + 1)
    BY <1>3, <2>1, <2>2
  <2> QED BY <2>3 DEF Turns
<1>9. OpenAt(r, p + l) = Double
  <2>1. p + l \in p..p + l
    BY <1>1
  <2> QED BY <1>3, <2>1
<1> QED BY <1>2, <1>5, <1>6, <1>7, <1>8, <1>9 DEF AtScan, l

-----------------------------------------------------------------------------
(* The steps of quote_handling *)

(* What is gathered of t up to q are the first n symbols of s. *)
GatheredIs(env, t, q, s, n) ==
  /\ Len(Reads(env, Start, t)[q].cur) = n
  /\ \A k \in 1..n : Reads(env, Start, t)[q].cur[k] = s[k]

(* s is t without its first b quotes, and has been scanned up to p. *)
Stripped(env, t, s, p, b, x) ==
  /\ AtHandle(t, x) /\ \A m \in 1..Len(x) - 1 : x[m] < x[m + 1]
  /\ p <= Len(s) + 1 /\ Len(s) = Len(t) - b /\ \A k \in p..Len(s) : s[k] = t[k + b]
  /\ OpenAt(t, p + b) = None /\ GatheredIs(env, t, p + b - 1, s, p - 1)

LEMMA StripStart ==
  ASSUME NEW env \in [Refs -> String], NEW t \in String, NEW x, AtHandle(t, x),
         \A m \in 1..Len(x) - 1 : x[m] < x[m + 1]
  PROVE  Stripped(env, t, t, 1, 0, x)
<1>1. Len(t) \in Nat /\ 1 + 0 = 1 /\ 1 + 0 - 1 = 0 /\ 1 - 1 = 0 /\ Len(t) = Len(t) - 0
      /\ \A k \in 1..Len(t) : k + 0 = k
  BY StringIs
<1>2. OpenAt(t, 1) = None
  BY <1>1, OpenAtStep
<1>3. Reads(env, Start, t)[0].cur = <<>>
  BY StartIs, ReadsStep DEF Start
<1>4. GatheredIs(env, t, 0, t, 0)
  BY <1>3 DEF GatheredIs
<1>5. 1 <= Len(t) + 1
  BY <1>1
<1> QED BY <1>1, <1>2, <1>4, <1>5 DEF Stripped

(* Where the scan is, in terms of t. *)
LEMMA StrippedAt ==
  ASSUME NEW env \in [Refs -> String], NEW t \in String, NEW s \in String, NEW p \in 1..Len(s),
         NEW b \in Nat, NEW x, Stripped(env, t, s, p, b, x)
  PROVE  /\ p + b \in 1..Len(t) /\ t[p + b] = s[p] /\ s[p] \in Symbols
         /\ OpenAt(t, p + b) = None /\ OpenAt(t, p + b + 1) = Next1(t, p + b, None)
         /\ s[p] \in Quotes => OpenAt(t, p + b + 1) = s[p] /\ s[p] # None
         /\ s[p] \notin Quotes => s[p] \notin Refs \cup {Blank} /\ OpenAt(t, p + b + 1) = None
         /\ Reads(env, Start, t)[p + b].cur =
              Gathered(env, None, Reads(env, Start, t)[p + b - 1].cur, s[p])
<1> DEFINE k == p + b
<1>1. Len(s) \in Nat /\ Len(t) \in Nat /\ p \in Nat /\ p > 0 /\ p <= Len(s) /\ s[p] \in Symbols
  BY StringIs
<1>2. /\ Len(s) = Len(t) - b /\ \A m \in p..Len(s) : s[m] = t[m + b]
      /\ OpenAt(t, k) = None /\ NoneFree(t)
  BY DEF Stripped, AtHandle, Ready
<1>3. k \in 1..Len(t) /\ p \in p..Len(s)
  BY <1>1, <1>2
<1>4. t[k] = s[p]
  BY <1>2, <1>3
<1> HIDE DEF k
<1>5. OpenAt(t, k + 1) = Next1(t, k, None)
  BY <1>1, <1>2, <1>3, OpenAtStep
<1>6. s[p] # None
  BY <1>1, SymbolsApart
<1>7. s[p] \in Quotes => OpenAt(t, k + 1) = s[p]
  BY <1>4, <1>5, <1>6 DEF Next1
<1>8. s[p] \notin Quotes => s[p] \notin Refs \cup {Blank} /\ OpenAt(t, k + 1) = None
  BY <1>2, <1>3, <1>4, <1>5, <1>6 DEF Next1, NoneFree
<1>9. Reads(env, Start, t)[k].cur =
        Gathered(env, OpenAt(t, k), Reads(env, Start, t)[k - 1].cur, t[k])
  <2>1. Start \in Reader /\ Start.open = None
    BY StartIs DEF Start
  <2> QED BY <1>2, <1>3, <2>1, UncutStep
<1> QED BY <1>1, <1>2, <1>3, <1>4, <1>5, <1>6, <1>7, <1>8, <1>9 DEF k

LEMMA GatheredMore ==
  ASSUME NEW env \in [Refs -> String], NEW t \in String, NEW q \in 1..Len(t), NEW s, NEW n \in Nat,
         GatheredIs(env, t, q - 1, s, n), NEW c \in Symbols,
         Reads(env, Start, t)[q].cur = Append(Reads(env, Start, t)[q - 1].cur, c),
         s[n + 1] = c
  PROVE  GatheredIs(env, t, q, s, n + 1)
<1> DEFINE a == Reads(env, Start, t)[q - 1].cur
           d == Reads(env, Start, t)[q].cur
<1>1. a \in String
  <2>1. q - 1 \in 0..Len(t)
    BY StringIs
  <2>2. Reads(env, Start, t)[q - 1] \in Reader
    BY <2>1, StartIs, ReadsStep
  <2> QED BY <2>2 DEF Reader
<1>2. d = Append(a, c)
  OBVIOUS
<1>3. Len(a) = n /\ \A k \in 1..n : a[k] = s[k]
  BY DEF GatheredIs
<1> HIDE DEF a, d
<1>4. Len(d) = n + 1 /\ d[n + 1] = c /\ \A k \in 1..n : d[k] = a[k]
  BY <1>1, <1>2, <1>3 DEF String
<1>5. \A k \in 1..n + 1 : k \in 1..n \/ k = n + 1
  OBVIOUS
<1>6. \A k \in 1..n + 1 : d[k] = s[k]
  BY <1>3, <1>4, <1>5
<1> QED BY <1>4, <1>6 DEF GatheredIs, d

LEMMA StripKeep ==
  ASSUME NEW env \in [Refs -> String], NEW t \in String, NEW s \in String, NEW p \in 1..Len(s),
         NEW b \in Nat, NEW x, Stripped(env, t, s, p, b, x), s[p] \notin Quotes
  PROVE  Stripped(env, t, s, p + 1, b, x)
<1>1. /\ Len(s) \in Nat /\ p \in Nat /\ p > 0 /\ p <= Len(s) /\ (p + 1) + b = p + b + 1
      /\ (p + 1) + b - 1 = p + b /\ (p + 1) - 1 = p /\ (p - 1) + 1 = p /\ p - 1 \in Nat
      /\ p + 1 <= Len(s) + 1 /\ \A k \in p + 1..Len(s) : k \in p..Len(s)
  BY StringIs
<1>2. /\ p + b \in 1..Len(t) /\ s[p] \in Symbols /\ s[p] \notin Refs \cup {Blank}
      /\ OpenAt(t, p + b + 1) = None
      /\ Reads(env, Start, t)[p + b].cur =
           Gathered(env, None, Reads(env, Start, t)[p + b - 1].cur, s[p])
  BY StrippedAt
<1>3. Reads(env, Start, t)[p + b].cur = Append(Reads(env, Start, t)[p + b - 1].cur, s[p])
  BY <1>2, SymbolsApart DEF Gathered
<1>4. GatheredIs(env, t, p + b - 1, s, p - 1)
  BY DEF Stripped
<1>5. GatheredIs(env, t, p + b, s, (p - 1) + 1)
  <2> DEFINE m == p + b
             n == p - 1
             c == s[p]
  <2>1. m \in 1..Len(t) /\ n \in Nat /\ s[n + 1] = c /\ c \in Symbols
    BY <1>1, <1>2
  <2>2. Reads(env, Start, t)[m].cur = Append(Reads(env, Start, t)[m - 1].cur, c)
    BY <1>3
  <2>3. GatheredIs(env, t, m - 1, s, n)
    BY <1>4
  <2>4. env \in [Refs -> String] /\ t \in String
    OBVIOUS
  <2> HIDE DEF m, n, c
  <2>5. GatheredIs(env, t, m, s, n + 1)
    BY ONLY <2>1, <2>2, <2>3, <2>4, GatheredMore
  <2> QED BY <2>5 DEF m, n
<1> QED BY <1>1, <1>2, <1>5 DEF Stripped

(* A word without an array has no quotes. *)
LEMMA StripQuote ==
  ASSUME NEW env \in [Refs -> String], NEW t \in String, NEW s \in String, NEW p \in 1..Len(s),
         NEW b \in Nat, NEW x, Stripped(env, t, s, p, b, x), s[p] \in Quotes
  PROVE  x # <<>>
<1>1. p + b \in 1..Len(t) /\ OpenAt(t, p + b) # OpenAt(t, p + b + 1)
  BY StrippedAt
<1>2. p + b \in 1..(Len(t) + 1) - 1
  BY <1>1, StringIs
<1>3. p + b \in ToSet(x)
  BY <1>1, <1>2 DEF Stripped, AtHandle, Turns
<1> QED BY <1>3 DEF ToSet

(* Between two entries of the array that follow each other no quote turns. *)
LEMMA NoTurnBetween ==
  ASSUME NEW t \in String, NEW x \in Seq(Places), ToSet(x) = Turns(t, Len(t) + 1),
         \A m \in 1..Len(x) - 1 : x[m] < x[m + 1], NEW c \in Nat, c + 1 < Len(x),
         NEW k \in 1..Len(t), x[c + 1] < k, k < x[c + 2]
  PROVE  OpenAt(t, k + 1) = OpenAt(t, k)
<1> SUFFICES ASSUME OpenAt(t, k + 1) # OpenAt(t, k) PROVE FALSE
  OBVIOUS
<1>1. Len(x) \in Nat /\ Len(t) \in Nat /\ c + 1 \in 1..Len(x) /\ c + 2 \in 1..Len(x)
  BY PlacesIs, StringIs
<1>2. k \in ToSet(x)
  <2>1. k \in 1..(Len(t) + 1) - 1
    BY <1>1
  <2> QED BY <2>1 DEF Turns
<1>3. PICK m \in 1..Len(x) : x[m] = k
  <2>1. DOMAIN x = 1..Len(x)
    OBVIOUS
  <2> QED BY <1>2, <2>1 DEF ToSet
<1>4. \A n \in 1..Len(x) : x[n] \in Nat
  BY PlacesIs
<1>5. \A n \in 0 + 1..Len(x) : \A d \in n..Len(x) : x[n] <= x[d]
  <2>1. \A n \in 0 + 1..Len(x) - 1 : x[n] < x[n + 1]
    OBVIOUS
  <2> QED BY <2>1, Increasing
<1>6. CASE m <= c + 1
  <2>1. c + 1 \in m..Len(x) /\ m \in 0 + 1..Len(x)
    BY <1>1, <1>6
  <2>2. x[m] <= x[c + 1]
    BY <1>5, <2>1
  <2> QED BY <1>1, <1>3, <1>4, <2>2
<1>7. CASE m >= c + 2
  <2>1. m \in c + 2..Len(x) /\ c + 2 \in 0 + 1..Len(x)
    BY <1>1, <1>7
  <2>2. x[c + 2] <= x[m]
    BY <1>5, <2>1
  <2> QED BY <1>1, <1>3, <1>4, <2>2
<1> QED BY <1>1, <1>6, <1>7

(* What stands between the quotes at a and z is gathered as it is. *)
NoTurn(t, a, z) == \A k \in a + 1..z - 1 : OpenAt(t, k + 1) = OpenAt(t, k)
SameStretch(s, n, t, a, l) == \A d \in 1..l : s[n + d] = t[a + d]

LEMMA GatheredBetween ==
  ASSUME NEW env \in [Refs -> String], NEW t \in String, Ready(t),
         NEW a \in 1..Len(t), NEW z \in a + 1..Len(t), t[a] \in Quotes, t[z] = t[a],
         OpenAt(t, a) = None, NoTurn(t, a, z),
         NEW s, NEW n \in Nat, GatheredIs(env, t, a - 1, s, n), SameStretch(s, n, t, a, z - a - 1)
  PROVE  OpenAt(t, z + 1) = None /\ GatheredIs(env, t, z, s, n + (z - a - 1))
<1>0. /\ \A k \in a + 1..z - 1 : OpenAt(t, k + 1) = OpenAt(t, k)
      /\ \A d \in 1..z - a - 1 : s[n + d] = t[a + d]
  BY DEF NoTurn, SameStretch
<1> DEFINE q == t[a]
           N == z - a - 1
           f == Reads(env, Start, t)
           S == {d \in 0..N : OpenAt(t, a + 1 + d) = q /\ GatheredIs(env, t, a + d, s, n + d)}
<1>1. /\ Len(t) \in Nat /\ a \in Nat /\ a > 0 /\ z \in Nat /\ a < z /\ z <= Len(t) /\ N \in Nat
      /\ a + N = z - 1 /\ a + 1 + N = z
  BY StringIs
<1>2. q # None /\ q \notin Refs /\ Start \in Reader /\ Start.open = None
  BY StartIs, SymbolsApart DEF Start
<1>3. NoneFree(t) /\ \A k \in 1..Len(t) : t[k] \in Refs => OpenAt(t, k) # Double
  <2>1. NoneFree(t) /\ Settled(t, Len(t) + 1)
    BY DEF Ready
  <2>2. \A k \in 1..Len(t) : k \in 1..(Len(t) + 1) - 1
    BY <1>1
  <2> QED BY <2>1, <2>2 DEF Settled
<1>4. \A k \in 1..Len(t) : f[k].cur = Gathered(env, OpenAt(t, k), f[k - 1].cur, t[k])
  BY <1>2, <1>3, UncutStep
<1>5. \A k \in 1..Len(t) : OpenAt(t, k + 1) = Next1(t, k, OpenAt(t, k))
  BY <1>1, OpenAtStep
<1>6. 0 \in S
  <2>1. OpenAt(t, a + 1) = q
    BY <1>2, <1>5 DEF Next1
  <2>2. f[a].cur = f[a - 1].cur
    BY <1>4 DEF Gathered
  <2>3. GatheredIs(env, t, a, s, n)
    BY <2>2 DEF GatheredIs
  <2>4. a + 1 + 0 = a + 1 /\ a + 0 = a /\ n + 0 = n /\ 0 \in 0..N
    BY <1>1
  <2> QED BY <2>1, <2>3, <2>4
<1>7. ASSUME NEW d \in 0..N - 1, d \in S PROVE d + 1 \in S
  <2> DEFINE k == a + 1 + d
  <2>1. /\ d + 1 \in 0..N /\ a + 1 + (d + 1) = k + 1 /\ a + (d + 1) = k /\ k - 1 = a + d
        /\ n + (d + 1) = (n + d) + 1 /\ k \in 1..Len(t) /\ k \in a + 1..z - 1
        /\ n + d \in Nat /\ d + 1 \in 1..N
    BY <1>1
  <2>2. OpenAt(t, k) = q /\ GatheredIs(env, t, a + d, s, n + d)
    BY <1>7
  <2>3. s[(n + d) + 1] = t[k]
    <3>1. s[n + (d + 1)] = t[a + (d + 1)]
      BY <1>0, <2>1
    <3> QED BY <2>1, <3>1
  <2> HIDE DEF k, N
  <2>4. OpenAt(t, k + 1) = q
    BY <1>0, <2>1, <2>2
  <2>5. t[k] # q
    <3>1. Next1(t, k, q) = q
      BY <1>5, <2>1, <2>2, <2>4
    <3> QED BY <1>2, <3>1 DEF Next1
  <2>6. ~(t[k] \in Refs /\ q = Double)
    BY <1>3, <2>1, <2>2
  <2>7. f[k].cur = Gathered(env, q, f[k - 1].cur, t[k])
    BY <1>4, <2>1, <2>2
  <2>8. f[k].cur = Append(f[k - 1].cur, t[k])
    BY <1>2, <2>5, <2>6, <2>7 DEF Gathered
  <2>9. t[k] \in Symbols
    BY <2>1, StringIs
  <2>10. GatheredIs(env, t, k - 1, s, n + d)
    BY <2>1, <2>2
  <2>11. GatheredIs(env, t, k, s, (n + d) + 1)
    <3> HIDE DEF f
    <3>1. Reads(env, Start, t)[k].cur = Append(Reads(env, Start, t)[k - 1].cur, t[k])
      BY <2>8 DEF f
    <3> QED BY <2>1, <2>3, <2>9, <2>10, <3>1, GatheredMore
  <2> QED BY <2>1, <2>4, <2>11
<1>8. N \in S
  <2> HIDE DEF S, N
  <2>1. \A d \in 0..N : d \in S
    BY <1>1, <1>6, <1>7, Upward
  <2> QED BY <1>1, <2>1
<1>9. OpenAt(t, z) = q /\ GatheredIs(env, t, z - 1, s, n + N)
  BY <1>1, <1>8
<1> HIDE DEF f, N, S
<1>10. z \in 1..Len(t)
  BY <1>1
<1>11. OpenAt(t, z + 1) = None
  BY <1>5, <1>9, <1>10 DEF Next1
<1>12. f[z].cur = f[z - 1].cur
  BY <1>4, <1>9, <1>10 DEF Gathered
<1>13. GatheredIs(env, t, z, s, n + N)
  BY <1>9, <1>12 DEF GatheredIs, f
<1> QED BY <1>11, <1>13 DEF N

(* r is s without its symbols at p and e. *)
WithoutPair(s, p, e, r) ==
  /\ Len(r) = Len(s) - 2 /\ \A k \in 1..p - 1 : r[k] = s[k]
  /\ \A k \in p..e - 2 : r[k] = s[k + 1]
  /\ \A k \in e - 1..Len(s) - 2 : r[k] = s[k + 2]

LEMMA PairRemoved ==
  ASSUME NEW s \in String, NEW p \in 1..Len(s), NEW e \in p + 1..Len(s),
         NEW r, r = RemoveAt(RemoveAt(s, e), p)
  PROVE  r \in String /\ WithoutPair(s, p, e, r)
<1> DEFINE n == Len(s)
           q == RemoveAt(s, e)
<1>1. n \in Nat /\ p \in Nat /\ p > 0 /\ e \in Nat /\ p < e /\ e <= n /\ e \in 1..n
  BY StringIs
<1>2. /\ q \in String /\ Len(q) = n - 1 /\ \A k \in 1..e - 1 : q[k] = s[k]
      /\ \A k \in e..n - 1 : q[k] = s[k + 1]
  BY <1>1, RemoveIs DEF String
<1>3. r = RemoveAt(q, p)
  OBVIOUS
<1> HIDE DEF q, n
<1>4. p \in 1..Len(q)
  BY <1>1, <1>2
<1>5. /\ r \in String /\ Len(r) = Len(q) - 1 /\ \A k \in 1..p - 1 : r[k] = q[k]
      /\ \A k \in p..Len(q) - 1 : r[k] = q[k + 1]
  <2>1. q \in Seq(Symbols)
    BY <1>2 DEF String
  <2>2. /\ r \in Seq(Symbols) /\ Len(r) = Len(q) - 1 /\ \A k \in 1..p - 1 : r[k] = q[k]
        /\ \A k \in p..Len(q) - 1 : r[k] = q[k + 1]
    BY ONLY <1>3, <1>4, <2>1, RemoveIs, SMTT(30)
  <2> QED BY <2>2 DEF String
<1>6. \A k \in 1..p - 1 : k \in 1..e - 1
  BY <1>1
<1>7. \A k \in p..e - 2 : k \in p..Len(q) - 1 /\ k + 1 \in 1..e - 1
  BY <1>1, <1>2
<1>8. ASSUME NEW k \in e - 1..n - 2 PROVE r[k] = s[k + 2]
  <2>1. k \in p..Len(q) - 1 /\ k + 1 \in e..n - 1 /\ (k + 1) + 1 = k + 2
    BY <1>1, <1>2
  <2>2. r[k] = q[k + 1] /\ q[k + 1] = s[(k + 1) + 1]
    BY <1>2, <1>5, <2>1
  <2> QED BY <2>1, <2>2
<1>9. Len(r) = n - 2
  BY <1>1, <1>2, <1>5
<1> QED BY <1>2, <1>5, <1>6, <1>7, <1>8, <1>9 DEF n, WithoutPair

LEMMA StripPair ==
  ASSUME NEW env \in [Refs -> String], NEW t \in String, NEW s \in String, NEW p \in 1..Len(s),
         NEW b \in Nat, NEW x \in Seq(Places), Stripped(env, t, s, p, b, x), s[p] \in Quotes,
         b + 1 < Len(x), x[b + 1] - b = p, NEW e \in p + 1..Len(s), e = x[b + 2] - b,
         s[e] = s[p], NEW r, r = RemoveAt(RemoveAt(s, e), p)
  PROVE  r \in String /\ Stripped(env, t, r, e - 1, b + 2, x)
<1> DEFINE a == p + b
           z == e + b
<1>1. /\ Len(s) \in Nat /\ Len(t) \in Nat /\ p \in Nat /\ p > 0 /\ p <= Len(s)
      /\ e \in Nat /\ p < e /\ e <= Len(s)
  BY StringIs
<1>2. /\ r \in String /\ Len(r) = Len(s) - 2 /\ \A k \in 1..p - 1 : r[k] = s[k]
      /\ \A k \in p..e - 2 : r[k] = s[k + 1]
      /\ \A k \in e - 1..Len(s) - 2 : r[k] = s[k + 2]
  <2>1. r \in String /\ WithoutPair(s, p, e, r)
    BY PairRemoved
  <2> QED BY <2>1 DEF WithoutPair
<1>3. /\ AtHandle(t, x) /\ \A m \in 1..Len(x) - 1 : x[m] < x[m + 1]
      /\ Len(s) = Len(t) - b /\ \A k \in p..Len(s) : s[k] = t[k + b]
      /\ GatheredIs(env, t, a - 1, s, p - 1)
  BY DEF Stripped
<1>4. a \in 1..Len(t) /\ t[a] = s[p] /\ OpenAt(t, a) = None
  BY StrippedAt
<1>5. x[b + 1] = a /\ x[b + 2] = z
  <2>1. b + 1 \in 1..Len(x) /\ b + 2 \in 1..Len(x)
    BY PlacesIs
  <2>2. x[b + 1] \in Nat /\ x[b + 2] \in Nat
    BY <2>1, PlacesIs
  <2> DEFINE u == x[b + 1]
             v == x[b + 2]
  <2>3. u \in Nat /\ v \in Nat /\ u - b = p /\ e = v - b /\ b \in Nat
    BY <2>2
  <2> HIDE DEF u, v
  <2>4. u = p + b /\ v = e + b
    BY ONLY <1>1, <2>3
  <2> QED BY <2>4 DEF u, v
<1>6. /\ z \in a + 1..Len(t) /\ z - a - 1 = e - p - 1 /\ z - a - 1 \in Nat
      /\ (p - 1) + (z - a - 1) = e - 2 /\ (e - 1) + (b + 2) - 1 = z
      /\ (e - 1) + (b + 2) = z + 1 /\ (e - 1) - 1 = e - 2 /\ e \in p..Len(s)
      /\ a \in Nat /\ z \in Nat
  <2>1. b \in Nat /\ Len(s) = Len(t) - b
    BY <1>3
  <2>2. z = e + b /\ a = p + b
    OBVIOUS
  <2> HIDE DEF a, z
  <2> QED BY ONLY <1>1, <2>1, <2>2
<1>7. t[z] = t[a]
  BY <1>3, <1>4, <1>6
<1>8. ASSUME NEW k \in a + 1..z - 1 PROVE OpenAt(t, k + 1) = OpenAt(t, k)
  <2>1. k \in 1..Len(t) /\ a < k /\ k < z
    <3> HIDE DEF a, z
    <3>1. a + 1 <= k /\ k <= z - 1 /\ z <= Len(t) /\ k \in Int
      BY <1>6
    <3> QED BY <1>1, <1>4, <1>6, <3>1
  <2>2. ToSet(x) = Turns(t, Len(t) + 1)
    BY <1>3 DEF AtHandle
  <2>3. x[b + 1] < k /\ k < x[b + 2]
    BY <1>5, <2>1
  <2> QED BY <1>3, <2>1, <2>2, <2>3, NoTurnBetween
<1>9. GatheredIs(env, t, a - 1, r, p - 1)
  BY <1>2, <1>3 DEF GatheredIs
<1>10. ASSUME NEW d \in 1..z - a - 1 PROVE r[(p - 1) + d] = t[a + d]
  <2>1. (p - 1) + d \in p..e - 2 /\ (p - 1) + d + 1 = p + d /\ p + d \in p..Len(s) /\ p + d + b = a + d
    <3>1. d \in 1..e - p - 1 /\ b \in Nat /\ a = p + b
      BY <1>6
    <3> HIDE DEF a, z
    <3> QED BY ONLY <1>1, <3>1
  <2>2. r[(p - 1) + d] = s[p + d]
    BY <1>2, <2>1
  <2>3. s[p + d] = t[p + d + b]
    BY <1>3, <2>1
  <2> QED BY <2>1, <2>2, <2>3
<1>11. OpenAt(t, z + 1) = None /\ GatheredIs(env, t, z, r, (p - 1) + (z - a - 1))
  <2>1. Ready(t) /\ p - 1 \in Nat /\ t[a] \in Quotes
    BY <1>1, <1>3, <1>4 DEF AtHandle
  <2>2. NoTurn(t, a, z) /\ SameStretch(r, p - 1, t, a, z - a - 1)
    BY <1>8, <1>10 DEF NoTurn, SameStretch
  <2>3. a \in 1..Len(t) /\ z \in a + 1..Len(t) /\ t[z] = t[a] /\ OpenAt(t, a) = None
    BY <1>4, <1>6, <1>7
  <2>4. env \in [Refs -> String] /\ t \in String
    OBVIOUS
  <2> HIDE DEF a, z
  <2> QED BY ONLY <1>9, <2>1, <2>2, <2>3, <2>4, GatheredBetween
<1>12. ASSUME NEW k \in e - 1..Len(r) PROVE r[k] = t[k + (b + 2)]
  <2>1. k \in e - 1..Len(s) - 2 /\ k + 2 \in p..Len(s) /\ (k + 2) + b = k + (b + 2)
    BY <1>1, <1>2
  <2>2. r[k] = s[k + 2] /\ s[k + 2] = t[(k + 2) + b]
    BY <1>2, <1>3, <2>1
  <2> QED BY <2>1, <2>2
<1>13. e - 1 <= Len(r) + 1 /\ Len(r) = Len(t) - (b + 2)
  BY <1>1, <1>2, <1>3
<1> HIDE DEF a, z
<1>14. GatheredIs(env, t, (e - 1) + (b + 2) - 1, r, (e - 1) - 1) /\ OpenAt(t, (e - 1) + (b + 2)) = None
  BY <1>6, <1>11
<1> QED BY <1>2, <1>3, <1>12, <1>13, <1>14 DEF Stripped

(* At the end the word without its quotes is left. *)
LEMMA StripEnd ==
  ASSUME NEW env \in [Refs -> String], NEW t \in String, NEW s \in String, NEW p \in Places,
         NEW b \in Nat, NEW x, Stripped(env, t, s, p, b, x), p > Len(s)
  PROVE  Fields(env, t) = OneWord(s)
<1> DEFINE c == ReadAll(env, Start, t).cur
<1>1. Len(s) \in Nat /\ Len(t) \in Nat /\ p \in Nat
  BY StringIs DEF Places
<1>2. NoneFree(t)
  BY DEF Stripped, AtHandle, Ready
<1>3. c \in String /\ Fields(env, t) = OneWord(c)
  BY <1>2, UncutFields
<1>4. p + b - 1 = Len(t) /\ p - 1 = Len(s)
  BY <1>1 DEF Stripped
<1>5. GatheredIs(env, t, Len(t), s, Len(s))
  BY <1>4 DEF Stripped
<1>6. c = Reads(env, Start, t)[Len(t)].cur
  BY StartIs, ReadsStep
<1> HIDE DEF c
<1>7. Len(c) = Len(s) /\ \A k \in 1..Len(s) : c[k] = s[k]
  BY <1>5, <1>6 DEF GatheredIs
<1>8. c = s
  BY <1>3, <1>7 DEF String
<1> QED BY <1>3, <1>8

-----------------------------------------------------------------------------
(* What the list means while it is walked *)

Items(ts, n) == [k \in 1..n |-> [op |-> ts[k].op, str |-> ts[k].str]]

(* What is meant by the tokens from n on. *)
Ahead(env, ts, n) == LastMeant(env, ts)[Len(ts) + 1 - n]

(* What has come out before n, and what is meant from there on. *)
Course(env, ts, n) == Items(ts, n - 1) \o Ahead(env, ts, n)

LEMMA ItemsIs ==
  ASSUME NEW ts \in Seq(Token), NEW n \in 0..Len(ts)
  PROVE  /\ Items(ts, n) \in Seq(Item)
         /\ Len(Items(ts, n)) = n
         /\ \A k \in 1..n : Items(ts, n)[k] = [op |-> ts[k].op, str |-> ts[k].str]
<1>1. Len(ts) \in Nat /\ n \in Nat /\ \A k \in 1..n : k \in 1..Len(ts)
  OBVIOUS
<1>2. \A k \in 1..n : ts[k] \in Token
  BY <1>1
<1>3. \A k \in 1..n : [op |-> ts[k].op, str |-> ts[k].str] \in Item
  BY <1>2 DEF Token, Item
<1> QED BY <1>1, <1>3 DEF Items

LEMMA ItemsAlike ==
  ASSUME NEW ts, NEW us, NEW n, \A k \in 1..n : ts[k].op = us[k].op /\ ts[k].str = us[k].str
  PROVE  Items(ts, n) = Items(us, n)
  BY DEF Items

LEMMA ItemsNext ==
  ASSUME NEW ts \in Seq(Token), NEW n \in 1..Len(ts)
  PROVE  Items(ts, n) = Items(ts, n - 1) \o <<[op |-> ts[n].op, str |-> ts[n].str]>>
<1> DEFINE z == [op |-> ts[n].op, str |-> ts[n].str]
           a == Items(ts, n - 1)
           b == Items(ts, n)
<1>1. n \in 0..Len(ts) /\ n - 1 \in 0..Len(ts) /\ n \in Nat /\ n > 0
      /\ \A k \in 1..n : k \in 1..n - 1 \/ k = n
  OBVIOUS
<1>2. /\ a \in Seq(Item) /\ Len(a) = n - 1
      /\ \A k \in 1..n - 1 : a[k] = [op |-> ts[k].op, str |-> ts[k].str]
  BY <1>1, ItemsIs
<1>3. /\ b \in Seq(Item) /\ Len(b) = n
      /\ \A k \in 1..n : b[k] = [op |-> ts[k].op, str |-> ts[k].str]
  BY <1>1, ItemsIs
<1>4. z \in Item
  <2>1. ts[n] \in Token
    OBVIOUS
  <2> QED BY <2>1 DEF Token, Item
<1>5. b[n] = z /\ \A k \in 1..n - 1 : b[k] = a[k]
  <2>1. n \in 1..n /\ \A k \in 1..n - 1 : k \in 1..n
    BY <1>1
  <2> QED BY <1>2, <1>3, <2>1
<1> HIDE DEF a, b, z
<1>6. b = a \o <<z>>
  <2>1. a \o <<z>> \in Seq(Item) /\ Len(a \o <<z>>) = n /\ (a \o <<z>>)[n] = z
        /\ \A k \in 1..n - 1 : (a \o <<z>>)[k] = a[k]
    BY <1>1, <1>2, <1>4
  <2> DEFINE c == a \o <<z>>
  <2>2. c \in Seq(Item) /\ Len(c) = n /\ c[n] = z /\ \A k \in 1..n - 1 : c[k] = a[k]
    BY <2>1
  <2> HIDE DEF c
  <2>3. \A k \in 1..n : b[k] = c[k]
    BY <1>1, <1>5, <2>2
  <2>4. b = c
    BY <1>3, <2>2, <2>3
  <2> QED BY <2>4 DEF c
<1> QED BY <1>6 DEF a, b, z

LEMMA WordsOf ==
  ASSUME NEW env \in [Refs -> String], NEW ts \in Seq(Token), NEW k \in 1..Len(ts)
  PROVE  /\ Words(env, ts[k]) \in Seq(Item)
         /\ ts[k].op => Words(env, ts[k]) = <<[op |-> ts[k].op, str |-> ts[k].str]>>
         /\ ~ts[k].op => Words(env, ts[k]) = AsItems(Fields(env, ts[k].str))
<1>1. ts[k] \in Token
  OBVIOUS
<1>2. ts[k].op \in BOOLEAN /\ ts[k].str \in String
  BY <1>1 DEF Token
<1>3. ts[k].op => ts[k].op = TRUE
  BY <1>2, Zenon
<1>4. /\ Words(env, ts[k]) \in Seq(Item)
      /\ Words(env, ts[k]) = IF ts[k].op THEN <<[op |-> TRUE, str |-> ts[k].str]>>
                                         ELSE AsItems(Fields(env, ts[k].str))
  <2> DEFINE t == ts[k]
  <2>1. t.op \in BOOLEAN /\ t.str \in String
    BY <1>2
  <2> HIDE DEF t
  <2>2. /\ Words(env, t) \in Seq(Item)
        /\ Words(env, t) = IF t.op THEN <<[op |-> TRUE, str |-> t.str]>>
                                   ELSE AsItems(Fields(env, t.str))
    BY <2>1, WordsIs
  <2> QED BY <2>2 DEF t
<1> QED BY <1>3, <1>4, Zenon

LEMMA AheadIs ==
  ASSUME NEW env \in [Refs -> String], NEW ts \in Seq(Token)
  PROVE  /\ \A n \in 1..Len(ts) + 1 : Ahead(env, ts, n) \in Seq(Item)
         /\ Ahead(env, ts, Len(ts) + 1) = <<>>
         /\ \A n \in 1..Len(ts) : Ahead(env, ts, n) = Words(env, ts[n]) \o Ahead(env, ts, n + 1)
<1> DEFINE L == Len(ts)
           M == LastMeant(env, ts)
<1>1. L \in Nat /\ \A k \in 1..L : Words(env, ts[k]) \in Seq(Item)
  <2>1. L \in Nat
    OBVIOUS
  <2>2. \A k \in 1..L : Words(env, ts[k]) \in Seq(Item)
    BY WordsOf
  <2> QED BY <2>1, <2>2
<1>2. /\ M[0] = <<>> /\ \A k \in 0..L : M[k] \in Seq(Item)
      /\ \A k \in 1..L : M[k] = Words(env, ts[L - k + 1]) \o M[k - 1]
  BY <1>1, MeantStep
<1>3. /\ L + 1 - (L + 1) = 0 /\ \A n \in 1..L + 1 : L + 1 - n \in 0..L
      /\ \A n \in 1..L : L + 1 - n \in 1..L /\ L - (L + 1 - n) + 1 = n /\ (L + 1 - n) - 1 = L + 1 - (n + 1)
  BY <1>1
<1> HIDE DEF L, M
<1>4. ASSUME NEW n \in 1..L PROVE M[L + 1 - n] = Words(env, ts[n]) \o M[L + 1 - (n + 1)]
  <2> DEFINE k == L + 1 - n
  <2>1. k \in 1..L /\ L - k + 1 = n /\ k - 1 = L + 1 - (n + 1)
    BY <1>3
  <2> HIDE DEF k
  <2>2. M[k] = Words(env, ts[L - k + 1]) \o M[k - 1]
    BY <1>2, <2>1
  <2>3. M[k] = Words(env, ts[n]) \o M[L + 1 - (n + 1)]
    BY <2>1, <2>2
  <2> QED BY <2>3 DEF k
<1>5. M[L + 1 - (L + 1)] = <<>>
  BY <1>2, <1>3
<1>6. \A n \in 1..L + 1 : M[L + 1 - n] \in Seq(Item)
  BY <1>2, <1>3
<1> QED BY <1>4, <1>5, <1>6 DEF Ahead, L, M

(* Lists that end alike. *)
TailAlike(env, ts, n, us, m) ==
  /\ Len(ts) - n = Len(us) - m
  /\ \A k \in 0..Len(ts) - n : Words(env, ts[n + k]) = Words(env, us[m + k])

LEMMA AheadAlike ==
  ASSUME NEW env \in [Refs -> String], NEW ts \in Seq(Token), NEW us \in Seq(Token),
         NEW n \in 1..Len(ts) + 1, NEW m \in 1..Len(us) + 1, TailAlike(env, ts, n, us, m)
  PROVE  Ahead(env, ts, n) = Ahead(env, us, m)
<1>0. /\ Len(ts) - n = Len(us) - m
      /\ \A k \in 0..Len(ts) - n : Words(env, ts[n + k]) = Words(env, us[m + k])
  BY DEF TailAlike
<1> DEFINE L == Len(ts)
           K == Len(us)
           d == L + 1 - n
<1>1. /\ L \in Nat /\ K \in Nat /\ d \in Nat /\ d <= L /\ d <= K /\ d = K + 1 - m
  BY <1>0
<1>2. /\ \A k \in 1..L : Words(env, ts[k]) \in Seq(Item)
      /\ \A k \in 1..K : Words(env, us[k]) \in Seq(Item)
  BY WordsOf
<1>3. ASSUME NEW k \in 0..d - 1 PROVE Words(env, ts[L - k]) = Words(env, us[K - k])
  <2> DEFINE q == d - 1 - k
  <2>1. q \in 0..L - n /\ n + q = L - k /\ m + q = K - k
    BY <1>1
  <2> HIDE DEF q, d, L, K
  <2>2. Words(env, ts[n + q]) = Words(env, us[m + q])
    BY <1>0, <2>1 DEF L
  <2> QED BY <2>1, <2>2
<1>4. LastMeant(env, ts)[d] = LastMeant(env, us)[d]
  <2> HIDE DEF d
  <2>1. \A k \in 0..d - 1 : Words(env, ts[Len(ts) - k]) = Words(env, us[Len(us) - k])
    BY <1>3
  <2>2. WordList(env, ts) /\ WordList(env, us)
    BY <1>1, <1>2 DEF WordList
  <2>3. EndAlike(env, ts, us, d)
    BY <1>1, <2>1 DEF EndAlike
  <2> QED BY <2>2, <2>3, MeantAlike
<1> QED BY <1>1, <1>4 DEF Ahead

(* A token that means itself is passed. *)
LEMMA CoursePasses ==
  ASSUME NEW env \in [Refs -> String], NEW ts \in Seq(Token), NEW n \in 1..Len(ts),
         Words(env, ts[n]) = <<[op |-> ts[n].op, str |-> ts[n].str]>>
  PROVE  Course(env, ts, n + 1) = Course(env, ts, n)
<1> DEFINE z == <<[op |-> ts[n].op, str |-> ts[n].str]>>
           a == Items(ts, n - 1)
           c == Ahead(env, ts, n + 1)
<1>1. /\ (n + 1) - 1 = n /\ n - 1 \in 0..Len(ts) /\ n + 1 \in 1..Len(ts) + 1
  OBVIOUS
<1>2. Items(ts, n) = a \o z
  BY ItemsNext
<1>3. Ahead(env, ts, n) = z \o c
  BY AheadIs
<1>4. z \in Seq(Item)
  BY WordsOf
<1>5. a \in Seq(Item) /\ c \in Seq(Item)
  BY <1>1, ItemsIs, AheadIs
<1> HIDE DEF a, z, c
<1>6. (a \o z) \o c = a \o (z \o c)
  BY <1>4, <1>5, ConcatAssociative
<1> QED BY <1>1, <1>2, <1>3, <1>6 DEF Course, c, a

(* ts and us differ at n only. *)
SameBut(ts, us, n) == Len(us) = Len(ts) /\ \A k \in 1..Len(ts) : k # n => us[k] = ts[k]

LEMMA AroundKept ==
  ASSUME NEW env \in [Refs -> String], NEW ts \in Seq(Token), NEW us \in Seq(Token),
         NEW n \in 1..Len(ts), SameBut(ts, us, n)
  PROVE  Items(us, n - 1) = Items(ts, n - 1) /\ Ahead(env, us, n + 1) = Ahead(env, ts, n + 1)
<1>1. Len(us) = Len(ts) /\ \A k \in 1..Len(ts) : k # n => us[k] = ts[k]
  BY DEF SameBut
<1>2. Items(us, n - 1) = Items(ts, n - 1)
  <2>1. \A k \in 1..n - 1 : k \in 1..Len(ts) /\ k # n
    OBVIOUS
  <2> QED BY <1>1, <2>1, ItemsAlike
<1>3. Ahead(env, us, n + 1) = Ahead(env, ts, n + 1)
  <2>1. /\ n + 1 \in 1..Len(ts) + 1 /\ n + 1 \in 1..Len(us) + 1
        /\ Len(us) - (n + 1) = Len(ts) - (n + 1)
    BY <1>1
  <2>2. \A k \in 0..Len(us) - (n + 1) : (n + 1) + k \in 1..Len(ts) /\ (n + 1) + k # n
    BY <1>1
  <2>3. \A k \in 0..Len(us) - (n + 1) : Words(env, us[(n + 1) + k]) = Words(env, ts[(n + 1) + k])
    BY <1>1, <2>2
  <2>4. TailAlike(env, us, n + 1, ts, n + 1)
    BY <2>1, <2>3 DEF TailAlike
  <2> QED BY <2>1, <2>4, AheadAlike
<1> QED BY <1>2, <1>3

LEMMA CourseKept ==
  ASSUME NEW env \in [Refs -> String], NEW ts \in Seq(Token), NEW us \in Seq(Token),
         NEW n \in 1..Len(ts), SameBut(ts, us, n), Words(env, us[n]) = Words(env, ts[n])
  PROVE  Course(env, us, n) = Course(env, ts, n)
<1>1. n \in 1..Len(us)
  BY DEF SameBut
<1>2. /\ Ahead(env, ts, n) = Words(env, ts[n]) \o Ahead(env, ts, n + 1)
      /\ Ahead(env, us, n) = Words(env, us[n]) \o Ahead(env, us, n + 1)
  BY <1>1, AheadIs
<1> QED BY <1>2, AroundKept DEF Course

(* The course while the quotes of the n-th word, which was t, are removed. *)
StripCourse(env, ts, n, t) ==
  Items(ts, n - 1) \o (AsItems(Fields(env, t)) \o Ahead(env, ts, n + 1))

LEMMA StripCourseStart ==
  ASSUME NEW env \in [Refs -> String], NEW ts \in Seq(Token), NEW n \in 1..Len(ts), ~ts[n].op
  PROVE  StripCourse(env, ts, n, ts[n].str) = Course(env, ts, n)
<1>1. Words(env, ts[n]) = AsItems(Fields(env, ts[n].str))
  BY WordsOf
<1>2. Ahead(env, ts, n) = Words(env, ts[n]) \o Ahead(env, ts, n + 1)
  BY AheadIs
<1> QED BY <1>1, <1>2 DEF StripCourse, Course

LEMMA StripCourseKept ==
  ASSUME NEW env \in [Refs -> String], NEW ts \in Seq(Token), NEW us \in Seq(Token),
         NEW n \in 1..Len(ts), SameBut(ts, us, n), NEW t
  PROVE  StripCourse(env, us, n, t) = StripCourse(env, ts, n, t)
  BY AroundKept DEF StripCourse

LEMMA StripCourseWord ==
  ASSUME NEW env \in [Refs -> String], NEW ts \in Seq(Token), NEW n \in 1..Len(ts), ~ts[n].op,
         NEW t, Fields(env, t) = <<ts[n].str>>
  PROVE  Course(env, ts, n + 1) = StripCourse(env, ts, n, t)
<1> DEFINE z == <<[op |-> ts[n].op, str |-> ts[n].str]>>
           a == Items(ts, n - 1)
           c == Ahead(env, ts, n + 1)
<1>1. /\ (n + 1) - 1 = n /\ n - 1 \in 0..Len(ts) /\ n + 1 \in 1..Len(ts) + 1
      /\ ts[n] \in Token
  OBVIOUS
<1>2. Items(ts, n) = a \o z
  BY ItemsNext
<1>3. ts[n].op = FALSE /\ ts[n].str \in String
  BY <1>1 DEF Token
<1>4. AsItems(Fields(env, t)) = z
  <2> DEFINE s == ts[n].str
  <2>1. s \in String /\ Fields(env, t) = <<s>>
    BY <1>3
  <2> HIDE DEF s
  <2>2. AsItems(<<s>>) = <<[op |-> FALSE, str |-> s]>>
    BY <2>1, OneItem
  <2> QED BY <1>3, <2>1, <2>2 DEF s
<1>5. [op |-> ts[n].op, str |-> ts[n].str] \in Item
  BY <1>1 DEF Token, Item
<1>6. z \in Seq(Item)
  BY <1>5
<1>7. a \in Seq(Item) /\ c \in Seq(Item)
  BY <1>1, ItemsIs, AheadIs
<1> HIDE DEF a, z, c
<1>8. (a \o z) \o c = a \o (z \o c)
  BY <1>6, <1>7, ConcatAssociative
<1> QED BY <1>1, <1>2, <1>4, <1>8 DEF Course, StripCourse, c, a

LEMMA StripCourseEmpty ==
  ASSUME NEW env \in [Refs -> String], NEW ts \in Seq(Token), NEW n \in 1..Len(ts),
         NEW t, Fields(env, t) = <<>>, NEW us, us = RemoveAt(ts, n)
  PROVE  Course(env, us, n) = StripCourse(env, ts, n, t)
<1> DEFINE c == Ahead(env, ts, n + 1)
<1>1. /\ us \in Seq(Token) /\ Len(us) = Len(ts) - 1 /\ \A k \in 1..n - 1 : us[k] = ts[k]
      /\ \A k \in n..Len(ts) - 1 : us[k] = ts[k + 1]
  BY RemoveIs
<1>2. Items(us, n - 1) = Items(ts, n - 1)
  BY <1>1, ItemsAlike
<1>3. Ahead(env, us, n) = c
  <2>1. /\ n + 1 \in 1..Len(ts) + 1 /\ n \in 1..Len(us) + 1 /\ Len(us) - n = Len(ts) - (n + 1)
    BY <1>1
  <2>2. ASSUME NEW k \in 0..Len(us) - n PROVE Words(env, us[n + k]) = Words(env, ts[(n + 1) + k])
    <3>1. n + k \in n..Len(ts) - 1 /\ (n + k) + 1 = (n + 1) + k
      BY <1>1
    <3>2. us[n + k] = ts[(n + k) + 1]
      BY <1>1, <3>1
    <3> QED BY <3>1, <3>2
  <2>3. TailAlike(env, us, n, ts, n + 1)
    BY <2>1, <2>2 DEF TailAlike
  <2> QED BY <1>1, <2>1, <2>3, AheadAlike
<1>4. c \in Seq(Item)
  <2>1. n + 1 \in 1..Len(ts) + 1
    OBVIOUS
  <2> QED BY <2>1, AheadIs
<1> HIDE DEF c
<1>5. AsItems(Fields(env, t)) = <<>>
  <2>1. <<>> \in Seq(String)
    OBVIOUS
  <2> QED BY <2>1, AsItemsIs
<1>6. <<>> \o c = c
  BY <1>4, ConcatEmptySeq
<1> QED BY <1>2, <1>3, <1>5, <1>6 DEF Course, StripCourse, c

LEMMA SplitCourse ==
  ASSUME NEW env \in [Refs -> String], NEW ts \in Seq(Token), NEW us \in Seq(Token),
         NEW n \in 1..Len(ts), ~ts[n].op, NEW s \in String, ts[n].str = s,
         ~Nested(s), Balanced(s), NoFreeRef(s, Len(s) + 1), PiecesIn(ts, us, n, s)
  PROVE  Course(env, us, n) = Course(env, ts, n)
<1> DEFINE U == Len(Pieces(s))
           L == Len(us)
<1>1. U \in Nat /\ L \in Nat /\ Len(ts) \in Nat /\ n \in Nat /\ n > 0 /\ n <= Len(ts)
  <2>1. Pieces(s) \in Seq(String)
    BY PiecesAre
  <2> QED BY <2>1
<1>2. /\ L = Len(ts) - 1 + U
      /\ \A k \in 1..n - 1 : us[k] = ts[k]
      /\ \A k \in 1..U : us[n - 1 + k].op = FALSE /\ us[n - 1 + k].str = Pieces(s)[k]
      /\ \A k \in n + 1..Len(ts) : us[k - 1 + U] = ts[k]
  BY DEF PiecesIn
<1> HIDE DEF U, L
<1>3. Items(us, n - 1) = Items(ts, n - 1)
  BY <1>2, ItemsAlike
<1>4. PieceList(s, us, n - 1)
  <2>1. (n - 1) + U <= L
    BY <1>1, <1>2
  <2> QED BY <1>2, <2>1 DEF PieceList, U, L
<1>5. \A k \in 1..Len(us) : Words(env, us[k]) \in Seq(Item)
  BY WordsOf
<1>6. LastMeant(env, us)[L - (n - 1)] = AsItems(Fields(env, s)) \o LastMeant(env, us)[L - (n - 1) - U]
  <2>1. Len(us) \in Nat /\ n - 1 \in Nat
    BY <1>1 DEF L
  <2>2. WordList(env, us)
    BY <1>5, <2>1 DEF WordList
  <2> QED BY <1>4, <2>1, <2>2, PiecesMean DEF L, U
<1>7. L - (n - 1) = L + 1 - n /\ L - (n - 1) - U = L + 1 - (n + U)
  BY <1>1
<1>8. Ahead(env, us, n) = AsItems(Fields(env, s)) \o Ahead(env, us, n + U)
  BY <1>6, <1>7 DEF Ahead, L
<1>9. Ahead(env, us, n + U) = Ahead(env, ts, n + 1)
  <2>1. n + U \in 1..L + 1 /\ n + 1 \in 1..Len(ts) + 1 /\ L - (n + U) = Len(ts) - (n + 1)
    <3>1. L = Len(ts) - 1 + U
      BY <1>2
    <3> QED BY ONLY <1>1, <3>1
  <2>2. ASSUME NEW k \in 0..L - (n + U)
        PROVE  Words(env, us[(n + U) + k]) = Words(env, ts[(n + 1) + k])
    <3>1. (n + 1) + k \in n + 1..Len(ts) /\ ((n + 1) + k) - 1 + U = (n + U) + k
      BY <1>1, <1>2
    <3>2. us[((n + 1) + k) - 1 + U] = ts[(n + 1) + k]
      BY <1>2, <3>1
    <3> QED BY <3>1, <3>2
  <2>3. TailAlike(env, us, n + U, ts, n + 1)
    BY <2>1, <2>2 DEF TailAlike, L
  <2> QED BY <2>1, <2>3, AheadAlike DEF L
<1>10. Ahead(env, ts, n) = AsItems(Fields(env, s)) \o Ahead(env, ts, n + 1)
  BY WordsOf, AheadIs
<1> QED BY <1>3, <1>8, <1>9, <1>10 DEF Course

-----------------------------------------------------------------------------
(* The invariant *)

(* No value is taken for syntax, and no word is excepted. *)
RegularLine == PlainValues /\ \A w \in TypedWords : Regular(w)

(* *temp is a word. *)
OnWord == {"plain", "split", "count", "outer", "inner", "handle", "strip"}

(* The words from *temp on that were not yet looked at are as the          *)
(* tokenizer or a split leaves them. *)
ListInv ==
  /\ at <= Len(tokens) + 1
  /\ \A k \in at + 1..Len(tokens) : Fit(tokens[k], val)
  /\ pc = "visit" /\ at <= Len(tokens) => Fit(tokens[at], val)
  /\ pc \in OnWord => at <= Len(tokens) /\ ~tokens[at].op

(* What the stages of the expansion leave of the word at *temp. *)
StageInv ==
  /\ pc = "plain" => AtPlain(Str, i, toDele, val)
  /\ pc = "split" => AtPlain(Str, Len(Str) + 1, toDele, val)
  /\ pc = "count" => NoneFree(Str)
  /\ pc \in {"outer", "inner"} => AtScan(Str, i, open, Index)
  /\ pc = "handle" => AtHandle(Str, Index)

(* What has come out, what the word at *temp means and what is meant       *)
(* behind it is together what was meant by the line. *)
CourseInv ==
  /\ pc \in {"visit", "plain", "split", "count", "outer", "inner", "handle"} =>
       Course(val, tokens, at) = Meant
  /\ pc = "strip" =>
       \E t \in String : /\ Stripped(val, t, Str, i, j, Index)
                         /\ StripCourse(val, tokens, at, t) = Meant
  /\ pc = "done" => Resulting = Meant

(* Inductive together with WalkInv. *)
OnCourse == ListInv /\ StageInv /\ CourseInv

MeantInv == RegularLine => OnCourse

LEMMA RegularStays ==
  ASSUME UNCHANGED <<val, typed>>
  PROVE  (RegularLine' <=> RegularLine) /\ Meant' = Meant
  BY DEF RegularLine, PlainValues, TypedWords, Regular, NoBlankValue, KeepsQuotes, AllBlank, Meant

LEMMA RegularIs ==
  ASSUME TypeInv, RegularLine
  PROVE  Tidy /\ \A r \in Refs : Plain(val[r])
<1>1. ASSUME NEW r \in Refs
      PROVE  \A k \in 1..Len(val[r]) : val[r][k] \notin Quotes \cup Refs
  <2> DEFINE v == val[r]
  <2>1. v \in String /\ ~Holds(v, Quotes \cup Refs)
    BY DEF TypeInv, RegularLine, PlainValues
  <2> HIDE DEF v
  <2>2. \A k \in 1..Len(v) : v[k] \notin Quotes \cup Refs
    BY <2>1, HoldsIs
  <2> QED BY <2>2 DEF v
<1>2. \A r \in Refs : Plain(val[r])
  BY <1>1 DEF Plain
<1>3. ASSUME NEW r \in Refs PROVE ~Holds(val[r], Quotes)
  <2> DEFINE v == val[r]
  <2>1. v \in String
    BY DEF TypeInv
  <2>2. \A k \in 1..Len(v) : v[k] \notin Quotes
    BY <1>1
  <2> HIDE DEF v
  <2>3. ~Holds(v, Quotes)
    BY <2>1, <2>2, HoldsIs
  <2> QED BY <2>3 DEF v
<1>4. NoBlank(val) \/ ~\E w \in TypedWords : Nested(w)
  BY DEF RegularLine, Regular, NoBlankValue, NoBlank
<1> QED BY <1>2, <1>3, <1>4 DEF Tidy

LEMMA Here ==
  ASSUME WalkInv, at <= Len(tokens)
  PROVE  /\ at \in 1..Len(tokens) /\ tokens \in Seq(Token) /\ Len(tokens) \in Nat /\ at \in Nat
         /\ Str \in String /\ Len(Str) \in Nat /\ Index \in Seq(Places) /\ Str = tokens[at].str
         /\ tokens[at].op \in BOOLEAN
         /\ val \in [Refs -> String] /\ i \in Places /\ i \in Nat /\ i > 0 /\ j \in Nat
         /\ i <= Len(Str) => i \in 1..Len(Str)
<1>1. TypeInv
  BY DEF WalkInv, IndexedInv
<1>2. /\ at \in 1..Len(tokens) /\ tokens[at] \in Token /\ Str \in String /\ Len(Str) \in Nat
      /\ Index \in Seq(Places) /\ Len(tokens) \in Nat
  BY <1>1, TokenIs
<1>3. val \in [Refs -> String] /\ i \in Places /\ i \in Nat /\ i > 0 /\ j \in Nat /\ tokens \in Seq(Token)
  BY <1>1 DEF TypeInv, Places
<1>4. tokens[at].op \in BOOLEAN
  BY <1>2 DEF Token
<1>5. Str = tokens[at].str
  BY DEF Str
<1>6. at \in Nat /\ (i <= Len(Str) => i \in 1..Len(Str))
  BY <1>2, <1>3
<1> QED BY <1>2, <1>3, <1>4, <1>5, <1>6

(* A step to an outcome of which nothing is claimed. *)
LEMMA NothingClaimed ==
  ASSUME ListInv, UNCHANGED <<val, tokens, at>>, pc' \in {"overrun", "crash", "cut"}
  PROVE  OnCourse'
<1>1. ListInv'
  BY DEF ListInv, OnWord
<1> QED BY <1>1 DEF OnCourse, StageInv, CourseInv

(* A word is taken up, or an operator passed. *)
LEMMA VisitMeant ==
  ASSUME WalkInv, RegularLine, OnCourse, Visit
  PROVE  OnCourse'
<1> USE DEF OnCourse
<1>1. /\ pc = "visit" /\ at <= Len(tokens) /\ ~tokens[at].op /\ pc' = "plain" /\ i' = 1
      /\ toDele' = FALSE /\ UNCHANGED <<val, typed, tokens, at>>
  BY DEF Visit, Go
<1>2. Str' = Str /\ Index' = Index /\ Meant' = Meant
  BY <1>1, Unmoved, RegularStays
<1>3. ListInv'
  BY <1>1 DEF ListInv
<1>4. AtPlain(Str, 1, FALSE, val)
  <2> DEFINE t == tokens[at]
  <2>1. t.str \in String /\ ~t.op /\ Fit(t, val) /\ val \in [Refs -> String] /\ Str = t.str
    BY <1>1, Here DEF ListInv
  <2> HIDE DEF t
  <2> QED BY <2>1, FitIsPlain
<1>5. StageInv'
  BY <1>1, <1>2, <1>4 DEF StageInv
<1>6. CourseInv'
  BY <1>1, <1>2 DEF CourseInv
<1> QED BY <1>3, <1>5, <1>6

LEMMA OperatorMeant ==
  ASSUME WalkInv, RegularLine, OnCourse, VisitOperator \/ HandleOperator
  PROVE  OnCourse'
<1> USE DEF OnCourse
<1>1. /\ pc \in {"visit", "handle"} /\ at <= Len(tokens) /\ tokens[at].op /\ pc' = "visit"
      /\ at' = at + 1 /\ UNCHANGED <<val, typed, tokens>>
  BY DEF VisitOperator, HandleOperator, Go
<1>2. Meant' = Meant
  BY <1>1, RegularStays
<1>3. at \in 1..Len(tokens) /\ tokens \in Seq(Token) /\ Len(tokens) \in Nat /\ val \in [Refs -> String]
  BY <1>1, Here
<1>4. /\ at + 1 <= Len(tokens) + 1 /\ \A k \in (at + 1) + 1..Len(tokens) : k \in at + 1..Len(tokens)
      /\ at + 1 <= Len(tokens) => at + 1 \in at + 1..Len(tokens)
  BY <1>3
<1>5. ListInv'
  BY <1>1, <1>4 DEF ListInv, OnWord
<1>6. StageInv'
  BY <1>1 DEF StageInv
<1>7. Course(val, tokens, at + 1) = Meant
  <2>1. Words(val, tokens[at]) = <<[op |-> tokens[at].op, str |-> tokens[at].str]>>
    BY <1>1, <1>3, WordsOf
  <2>2. Course(val, tokens, at) = Meant
    BY <1>1 DEF CourseInv
  <2> QED BY <1>3, <2>1, <2>2, CoursePasses
<1>8. CourseInv'
  BY <1>1, <1>2, <1>7 DEF CourseInv
<1> QED BY <1>5, <1>6, <1>8

LEMMA EndMeant ==
  ASSUME WalkInv, RegularLine, OnCourse, Done \/ HandleNull
  PROVE  OnCourse'
<1> USE DEF OnCourse
<1>1. UNCHANGED <<val, typed, tokens, at>>
  BY DEF Done, HandleNull
<1>2. CASE HandleNull
  <2>1. pc' = "crash"
    BY <1>2 DEF HandleNull
  <2> QED BY <1>1, <2>1, NothingClaimed
<1>3. CASE Done
  <2>1. pc = "visit" /\ pc' = "done" /\ at > Len(tokens)
    BY <1>3 DEF Done
  <2>2. /\ tokens \in Seq(Token) /\ Len(tokens) \in Nat /\ at \in Nat /\ val \in [Refs -> String]
    BY DEF WalkInv, IndexedInv, TypeInv, Places
  <2>3. at = Len(tokens) + 1 /\ at - 1 = Len(tokens) /\ Len(tokens) \in 0..Len(tokens)
    BY <2>1, <2>2 DEF ListInv
  <2>4. Course(val, tokens, at) = Items(tokens, Len(tokens)) \o <<>>
    <3>1. Ahead(val, tokens, Len(tokens) + 1) = <<>>
      BY <2>2, AheadIs
    <3> QED BY <2>3, <3>1 DEF Course
  <2>5. Items(tokens, Len(tokens)) \o <<>> = Items(tokens, Len(tokens))
    <3>1. Items(tokens, Len(tokens)) \in Seq(Item)
      BY <2>2, <2>3, ItemsIs
    <3> QED BY <3>1, ConcatEmptySeq
  <2>6. Resulting = Meant
    BY <2>1, <2>4, <2>5 DEF CourseInv, Resulting, Items
  <2>7. Resulting' = Resulting /\ Meant' = Meant
    BY <1>1, RegularStays DEF Resulting
  <2>8. ListInv'
    BY <1>1, <2>1 DEF ListInv, OnWord
  <2>9. StageInv'
    BY <2>1 DEF StageInv
  <2>10. CourseInv'
    BY <2>1, <2>6, <2>7 DEF CourseInv
  <2> QED BY <2>8, <2>9, <2>10
<1> QED BY <1>2, <1>3

(* What is known while env_var works on a word. *)
LEMMA PlainMeans ==
  ASSUME WalkInv, RegularLine, OnCourse, pc \in {"plain", "split"}
  PROVE  /\ at <= Len(tokens) /\ ~tokens[at].op /\ at \in 1..Len(tokens)
         /\ tokens \in Seq(Token) /\ Len(tokens) \in Nat /\ val \in [Refs -> String]
         /\ Str \in String /\ Len(Str) \in Nat /\ i \in Nat /\ i > 0
         /\ i <= Len(Str) => i \in 1..Len(Str)
         /\ pc = "plain" => i <= Len(Str) + 1 /\ OpenAt(Str, i) = None /\ AtPlain(Str, i, toDele, val)
         /\ pc = "split" => AtPlain(Str, Len(Str) + 1, toDele, val)
         /\ Balanced(Str) /\ Tidy /\ Course(val, tokens, at) = Meant
         /\ \A r \in Refs : Plain(val[r])
<1>1. at <= Len(tokens) /\ ~tokens[at].op
  BY DEF OnCourse, ListInv, OnWord
<1>2. Tidy /\ \A r \in Refs : Plain(val[r])
  BY RegularIs DEF WalkInv, IndexedInv
<1>3. pc = "plain" => i <= Len(Str) + 1 /\ OpenAt(Str, i) = None
  BY <1>2, PlainIs
<1>4. Balanced(Str)
  BY <1>1, <1>2 DEF WalkInv, ProperInv, Proper
<1>5. /\ pc = "plain" => AtPlain(Str, i, toDele, val)
      /\ pc = "split" => AtPlain(Str, Len(Str) + 1, toDele, val)
  BY DEF OnCourse, StageInv
<1>6. Course(val, tokens, at) = Meant
  BY DEF OnCourse, CourseInv
<1> QED BY <1>1, <1>2, <1>3, <1>4, <1>5, <1>6, Here

(* env_var passes a symbol, a quoted stretch or the end. *)
LEMMA PlainLookMeant ==
  ASSUME WalkInv, RegularLine, OnCourse, PlainQuoted \/ PlainSymbol \/ PlainEnd
  PROVE  OnCourse'
<1> USE DEF OnCourse
<1>1. pc = "plain" /\ UNCHANGED <<val, typed, tokens, at>>
  BY DEF PlainQuoted, PlainSymbol, PlainEnd
<1>2. Str' = Str /\ Meant' = Meant
  BY <1>1, Unmoved, RegularStays
<1>3. /\ Str \in String /\ Len(Str) \in Nat /\ i \in Nat /\ i > 0 /\ i <= Len(Str) + 1
      /\ OpenAt(Str, i) = None /\ AtPlain(Str, i, toDele, val) /\ Course(val, tokens, at) = Meant
      /\ i <= Len(Str) => i \in 1..Len(Str)
  BY <1>1, PlainMeans DEF OnCourse
<1>4. CASE PlainQuoted
  <2> DEFINE c == CloseOf(Str, i)
  <2>1. /\ i <= Len(Str) /\ Str[i] \in Quotes
        /\ \/ c = 0 /\ pc' = "overrun"
           \/ c # 0 /\ pc' = "plain" /\ i' = c + 1 /\ toDele' = FALSE
    BY <1>1, <1>4 DEF PlainQuoted
  <2>2. i \in 1..Len(Str)
    BY <1>3, <2>1
  <2>3. \/ c = 0
        \/ c \in i + 1..Len(Str) /\ \A m \in i + 1..c - 1 : Str[m] # Str[i]
    BY <1>3, <2>2, CloseIsNext
  <2> HIDE DEF c
  <2>4. CASE c = 0 /\ pc' = "overrun"
    BY <1>1, <2>4, NothingClaimed
  <2>5. CASE c # 0 /\ pc' = "plain" /\ i' = c + 1 /\ toDele' = FALSE
    <3>1. AtPlain(Str, c + 1, FALSE, val)
      <4> DEFINE s == Str
                 p == i
                 d == toDele
                 v == val
      <4>1. /\ s \in String /\ p \in 1..Len(s) /\ AtPlain(s, p, d, v) /\ s[p] \in Quotes
            /\ OpenAt(s, p) = None /\ c \in p + 1..Len(s) /\ \A m \in p + 1..c - 1 : s[m] # s[p]
        BY <1>3, <2>1, <2>2, <2>3, <2>5
      <4> HIDE DEF s, p, d, v
      <4>2. AtPlain(s, c + 1, FALSE, v)
        BY <4>1, QuotedIsPlain
      <4> QED BY <4>2 DEF s, v
    <3>2. ListInv'
      BY <1>1, <2>5 DEF ListInv
    <3>3. StageInv'
      BY <1>1, <1>2, <2>5, <3>1 DEF StageInv
    <3>4. CourseInv'
      BY <1>1, <1>2, <1>3, <2>5 DEF CourseInv
    <3> QED BY <3>2, <3>3, <3>4
  <2> QED BY <2>1, <2>4, <2>5
<1>5. CASE PlainSymbol
  <2>1. /\ pc' = "plain" /\ i \in 1..Len(Str) /\ Str[i] \notin Quotes \cup Refs /\ i' = i + 1
        /\ toDele' = FALSE
    BY <1>3, <1>5, <1>1 DEF PlainSymbol
  <2>2. AtPlain(Str, i + 1, FALSE, val)
    BY <1>3, <2>1, SymbolIsPlain
  <2>3. ListInv'
    BY <1>1, <2>1 DEF ListInv
  <2>4. StageInv'
    BY <1>1, <1>2, <2>1, <2>2 DEF StageInv
  <2>5. CourseInv'
    BY <1>1, <1>2, <1>3, <2>1 DEF CourseInv
  <2> QED BY <2>3, <2>4, <2>5
<1>6. CASE PlainEnd
  <2>1. pc' = "split" /\ i > Len(Str) /\ toDele' = toDele
    BY <1>6 DEF PlainEnd, Go
  <2>2. i = Len(Str) + 1
    BY <1>3, <2>1
  <2>3. AtPlain(Str, Len(Str) + 1, toDele, val)
    BY <1>3, <2>2
  <2>4. ListInv'
    BY <1>1, <2>1 DEF ListInv, OnWord
  <2>5. StageInv'
    BY <1>1, <1>2, <2>1, <2>3 DEF StageInv
  <2>6. CourseInv'
    BY <1>1, <1>2, <1>3, <2>1 DEF CourseInv
  <2> QED BY <2>4, <2>5, <2>6
<1> QED BY <1>4, <1>5, <1>6

(* A word whose reading does not change means what it meant. *)
LEMMA SameWords ==
  ASSUME NEW env, NEW t, NEW u, u.op = t.op, ~t.op,
         ReadAll(env, Start, u.str) = ReadAll(env, Start, t.str)
  PROVE  Words(env, u) = Words(env, t)
<1>1. Fields(env, u.str) = Fields(env, t.str)
  BY DEF Fields
<1> QED BY <1>1 DEF Words

(* The word is replaced by another of the same meaning. *)
LEMMA ReplacedMeant ==
  ASSUME WalkInv, at <= Len(tokens), ~tokens[at].op, Course(val, tokens, at) = Meant,
         UNCHANGED <<val, typed, at>>, SetStr(Substitute(Str, i)), i <= Len(Str), Str[i] \in Refs,
         Plain(val[Str[i]]), OpenAt(Str, i) \in {None, Double}
  PROVE  /\ tokens' \in Seq(Token) /\ SameBut(tokens, tokens', at)
         /\ Str' = Substitute(Str, i) /\ Index' = Index /\ ~tokens'[at].op
         /\ Course(val, tokens', at) = Meant
<1> DEFINE w == val[Str[i]]
           r == Substitute(Str, i)
<1>1. TypeInv
  BY DEF WalkInv, IndexedInv
<1>2. w \in String /\ i \in 1..Len(Str) /\ r \in String /\ Replaced(Str, w, i, r)
  BY <1>1, SubstituteIs
<1>3. /\ at \in 1..Len(tokens) /\ tokens \in Seq(Token) /\ Str \in String /\ val \in [Refs -> String]
      /\ Str = tokens[at].str
  BY Here
<1>4. ReadAll(val, Start, r) = ReadAll(val, Start, Str)
  <2> DEFINE s == Str
             p == i
             v == val
  <2>1. /\ v \in [Refs -> String] /\ s \in String /\ r \in String /\ p \in 1..Len(s) /\ s[p] \in Refs
        /\ Plain(v[s[p]]) /\ Replaced(s, v[s[p]], p, r) /\ OpenAt(s, p) \in {None, Double}
    BY <1>2, <1>3
  <2> HIDE DEF s, p, v, r
  <2>2. ReadAll(v, Start, r) = ReadAll(v, Start, s)
    BY <2>1, ReplacedReads
  <2> QED BY <2>2 DEF s, v
<1> HIDE DEF w, r
<1>5. /\ tokens' \in Seq(Token) /\ Len(tokens') = Len(tokens) /\ Str' = r /\ Index' = Index
      /\ tokens'[at].op = tokens[at].op
      /\ \A k \in 1..Len(tokens) : k # at => tokens'[k] = tokens[k]
  BY <1>1, <1>2, SetStrIs DEF r
<1>6. SameBut(tokens, tokens', at)
  BY <1>5 DEF SameBut
<1>7. Words(val, tokens'[at]) = Words(val, tokens[at])
  <2> DEFINE u == tokens'[at]
             t == tokens[at]
  <2>1. u.str = r
    BY <1>5 DEF Str
  <2>2. u.op = t.op /\ ~t.op /\ t.str = Str
    BY <1>3, <1>5
  <2> HIDE DEF u, t
  <2>3. Words(val, u) = Words(val, t)
    BY <1>4, <2>1, <2>2, SameWords
  <2> QED BY <2>3 DEF u, t
<1>8. Course(val, tokens', at) = Course(val, tokens, at)
  <2> DEFINE us == tokens'
             v == val
  <2>1. us \in Seq(Token) /\ SameBut(tokens, us, at) /\ Words(v, us[at]) = Words(v, tokens[at])
    BY <1>5, <1>6, <1>7
  <2> HIDE DEF us
  <2>2. Course(v, us, at) = Course(v, tokens, at)
    BY <1>3, <2>1, CourseKept
  <2> QED BY <2>2 DEF us
<1> QED BY <1>5, <1>6, <1>8 DEF r

(* It replaces a reference. *)
LEMMA PlainReferenceMeant ==
  ASSUME WalkInv, RegularLine, OnCourse, PlainReference
  PROVE  OnCourse'
<1> USE DEF OnCourse
<1> DEFINE w == val[Str[i]]
           r == Substitute(Str, i)
<1>1. /\ pc = "plain" /\ pc' = "plain" /\ i <= Len(Str) /\ Str[i] \in Refs /\ SetStr(r)
      /\ i' = i + Len(w) /\ toDele' = TRUE /\ UNCHANGED <<val, typed, at>>
  BY DEF PlainReference, BehindValue
<1>2. /\ at <= Len(tokens) /\ ~tokens[at].op /\ at \in 1..Len(tokens) /\ Len(tokens) \in Nat
      /\ Str \in String /\ OpenAt(Str, i) = None /\ AtPlain(Str, i, toDele, val)
      /\ val \in [Refs -> String] /\ Plain(w) /\ Course(val, tokens, at) = Meant
  BY <1>1, PlainMeans DEF OnCourse
<1>3. /\ tokens' \in Seq(Token) /\ SameBut(tokens, tokens', at)
      /\ Str' = r /\ ~tokens'[at].op /\ Course(val, tokens', at) = Meant
  BY <1>1, <1>2, ReplacedMeant
<1>4. i \in 1..Len(Str) /\ r \in String /\ Replaced(Str, w, i, r)
  BY <1>1, <1>2, SubstituteIs DEF WalkInv, IndexedInv
<1>5. AtPlain(r, i + Len(w), TRUE, val)
  <2> DEFINE s == Str
             p == i
             v == val
             d == toDele
  <2>1. /\ v \in [Refs -> String] /\ s \in String /\ r \in String /\ p \in 1..Len(s) /\ s[p] \in Refs
        /\ AtPlain(s, p, d, v) /\ Plain(v[s[p]]) /\ Replaced(s, v[s[p]], p, r) /\ OpenAt(s, p) = None
    BY <1>1, <1>2, <1>4
  <2> HIDE DEF s, p, v, d, r
  <2>2. AtPlain(r, p + Len(v[s[p]]), TRUE, v)
    BY <2>1, ReferenceIsPlain
  <2> QED BY <2>2 DEF s, p, v
<1> HIDE DEF r, w
<1>6. /\ Len(tokens') = Len(tokens)
      /\ \A k \in at + 1..Len(tokens) : tokens'[k] = tokens[k]
  <2>1. \A k \in at + 1..Len(tokens) : k \in 1..Len(tokens) /\ k # at
    BY <1>2
  <2> QED BY <1>3, <2>1 DEF SameBut
<1>7. ListInv'
  BY <1>1, <1>2, <1>3, <1>6 DEF ListInv
<1>8. StageInv'
  BY <1>1, <1>3, <1>5 DEF StageInv
<1>9. Meant' = Meant
  BY <1>1, RegularStays
<1>10. CourseInv'
  BY <1>1, <1>3, <1>9 DEF CourseInv
<1> QED BY <1>7, <1>8, <1>10

(* The word is left whole. *)
LEMMA UnsplitMeant ==
  ASSUME WalkInv, RegularLine, OnCourse, NoSplit \/ SplitOverrun
  PROVE  OnCourse'
<1> USE DEF OnCourse
<1>1. pc = "split" /\ UNCHANGED <<val, typed, tokens, at>>
  BY DEF NoSplit, SplitOverrun
<1>2. CASE SplitOverrun
  <2>1. pc' = "overrun"
    BY <1>2 DEF SplitOverrun
  <2> QED BY <1>1, <2>1, NothingClaimed
<1>3. CASE NoSplit
  <2>1. ~HasFreeBlank(Str) /\ pc' = IF toDele THEN "handle" ELSE "count"
    BY <1>3 DEF NoSplit, AfterSplit, Go
  <2>2. Str' = Str /\ Index' = Index /\ Meant' = Meant
    BY <1>1, Unmoved, RegularStays
  <2>3. /\ at <= Len(tokens) /\ Str \in String /\ AtPlain(Str, Len(Str) + 1, toDele, val)
        /\ Course(val, tokens, at) = Meant
    BY <1>1, PlainMeans DEF OnCourse
  <2>4. Index = <<>>
    BY <1>1, <2>3 DEF WalkInv, IndexedInv, IndexInv
  <2>5. NoneFree(Str) /\ (toDele => ~Holds(Str, Quotes))
    BY <2>1, <2>3, PlainEndIs
  <2>6. toDele => AtHandle(Str, <<>>)
    BY <2>3, <2>5, UnquotedIsReady
  <2>7. ListInv'
    BY <1>1, <2>1 DEF ListInv, OnWord
  <2>8. StageInv'
    BY <1>1, <2>1, <2>2, <2>4, <2>5, <2>6 DEF StageInv
  <2>9. CourseInv'
    BY <1>1, <2>1, <2>2, <2>3 DEF CourseInv
  <2> QED BY <2>7, <2>8, <2>9
<1> QED BY <1>2, <1>3

(* A token that a split puts in the list. *)
LEMMA PieceTokenIs ==
  ASSUME NEW s \in String, ~Nested(s), Balanced(s), NoFreeRef(s, Len(s) + 1),
         NEW n \in 1..Len(Pieces(s)), NEW t, t.str = Pieces(s)[n], NEW v
  PROVE  /\ Fit(t, v) /\ NoneFree(t.str)
         /\ ~Holds(s, Quotes) => ~Holds(t.str, Quotes)
<1>1. PICK k \in PieceStarts(s) : Pieces(s)[n] = PieceAt(s, k)
  BY PiecesAre
<1> QED BY <1>1, PieceIsFit

(* The word is split: its pieces together mean what it meant. *)
LEMMA SplitMeant ==
  ASSUME WalkInv, RegularLine, OnCourse, Split
  PROVE  OnCourse'
<1> USE DEF OnCourse
<1>1. /\ pc = "split" /\ UNCHANGED <<val, typed, at, toDele>> /\ HasFreeBlank(Str)
      /\ pc' = "cut" \/ pc' = IF toDele THEN "handle" ELSE "count"
  BY DEF Split, AfterSplit, Go
<1>2. CASE pc' = "cut"
  <2>1. UNCHANGED tokens
    BY <1>2, SplitCut
  <2> QED BY <1>1, <1>2, <2>1, NothingClaimed
<1>3. CASE pc' # "cut"
  <2>1. pc' = IF toDele THEN "handle" ELSE "count"
    BY <1>1, <1>3
  <2>2. /\ at \in 1..Len(tokens) /\ Str \in String /\ AtPlain(Str, Len(Str) + 1, toDele, val)
        /\ Course(val, tokens, at) = Meant /\ Tidy /\ ~tokens[at].op /\ val \in [Refs -> String]
        /\ tokens \in Seq(Token) /\ Len(tokens) \in Nat
    BY <1>1, PlainMeans DEF OnCourse
  <2>3. Balanced(Str) /\ ~Nested(Str)
    BY <1>1, <2>2, SplitFrom
  <2>4. NoFreeRef(Str, Len(Str) + 1) /\ PieceStarts(Str) # {} /\ (toDele => ~Holds(Str, Quotes))
    BY <1>1, <2>2, PlainEndIs
  <2>5. /\ tokens' \in Seq(Token) /\ Len(tokens') \in Nat
        /\ Pieces(Str) # <<>> => at <= Len(tokens')
        /\ \A k \in at..Len(tokens') :
             \/ \E n \in 1..Len(Pieces(Str)) :
                  tokens'[k] = [op |-> FALSE, str |-> Pieces(Str)[n], index |-> <<>>]
             \/ \E m \in at + 1..Len(tokens) : tokens'[k] = tokens[m]
        /\ PiecesIn(tokens, tokens', at, Str)
    <3>1. TypeInv
      BY DEF WalkInv, IndexedInv
    <3> QED BY <1>3, <3>1, SplitIs
  <2>6. Len(Pieces(Str)) > 0 /\ Len(Pieces(Str)) \in Nat /\ Pieces(Str) # <<>> /\ at <= Len(tokens')
    <3>1. Pieces(Str) \in Seq(String) /\ Len(Pieces(Str)) > 0
      BY <2>2, <2>4, PiecesAre
    <3>2. Pieces(Str) # <<>>
      BY <3>1
    <3> QED BY <2>5, <3>1, <3>2
  <2>7. /\ tokens'[at].op = FALSE /\ tokens'[at].str = Pieces(Str)[1]
    <3>1. 1 \in 1..Len(Pieces(Str)) /\ at - 1 + 1 = at
      BY <2>2, <2>6
    <3> QED BY <2>5, <3>1 DEF PiecesIn
  <2>8. ASSUME NEW k \in at..Len(tokens') PROVE Fit(tokens'[k], val)
    <3>1. CASE \E n \in 1..Len(Pieces(Str)) :
                 tokens'[k] = [op |-> FALSE, str |-> Pieces(Str)[n], index |-> <<>>]
      <4>1. PICK n \in 1..Len(Pieces(Str)) :
                   tokens'[k] = [op |-> FALSE, str |-> Pieces(Str)[n], index |-> <<>>]
        BY <3>1
      <4> DEFINE t == tokens'[k]
      <4>2. t.str = Pieces(Str)[n]
        BY <4>1
      <4> HIDE DEF t
      <4>3. Fit(t, val)
        BY <2>2, <2>3, <2>4, <4>2, PieceTokenIs
      <4> QED BY <4>3 DEF t
    <3>2. CASE \E m \in at + 1..Len(tokens) : tokens'[k] = tokens[m]
      <4>1. \A m \in at + 1..Len(tokens) : Fit(tokens[m], val)
        BY DEF ListInv
      <4> QED BY <3>2, <4>1
    <3> QED BY <2>5, <3>1, <3>2
  <2>9. ListInv'
    <3>1. \A k \in at + 1..Len(tokens') : k \in at..Len(tokens')
      BY <2>2, <2>5
    <3>2. at <= Len(tokens') + 1
      BY <2>2, <2>5, <2>6
    <3> QED BY <1>1, <2>1, <2>6, <2>7, <2>8, <3>1, <3>2 DEF ListInv
  <2>10. /\ Str' = Pieces(Str)[1] /\ NoneFree(Str') /\ Str' \in String
         /\ toDele => ~Holds(Str', Quotes)
    <3>1. Str' = Pieces(Str)[1]
      BY <1>1, <2>7 DEF Str
    <3> DEFINE t == tokens'[at]
    <3>2. t.str = Pieces(Str)[1] /\ 1 \in 1..Len(Pieces(Str))
      BY <2>6, <2>7
    <3> HIDE DEF t
    <3>3. NoneFree(t.str) /\ (~Holds(Str, Quotes) => ~Holds(t.str, Quotes))
      BY <2>2, <2>3, <2>4, <3>2, PieceTokenIs
    <3>4. Pieces(Str)[1] \in String
      <4>1. Pieces(Str) \in Seq(String)
        BY <2>2, PiecesAre
      <4> QED BY <3>2, <4>1
    <3> QED BY <2>4, <3>1, <3>2, <3>3, <3>4
  <2>11. toDele => AtHandle(Str', <<>>)
    <3> DEFINE u == Str'
    <3>1. u \in String /\ NoneFree(u) /\ (toDele => ~Holds(u, Quotes))
      BY <2>10
    <3> HIDE DEF u
    <3>2. toDele => AtHandle(u, <<>>)
      BY <3>1, UnquotedIsReady
    <3> QED BY <3>2 DEF u
  <2>12. Index' = <<>>
    <3>1. \A m \in at + 1..Len(tokens) : tokens[m].index = <<>>
      BY DEF WalkInv, IndexedInv, IndexInv
    <3>2. at \in at..Len(tokens')
      BY <2>2, <2>5, <2>6
    <3>3. tokens'[at].index = <<>>
      <4>1. \/ \E n \in 1..Len(Pieces(Str)) :
                 tokens'[at] = [op |-> FALSE, str |-> Pieces(Str)[n], index |-> <<>>]
            \/ \E m \in at + 1..Len(tokens) : tokens'[at] = tokens[m]
        BY <2>5, <3>2
      <4> DEFINE t == tokens'[at]
      <4>2. CASE \E n \in 1..Len(Pieces(Str)) :
                   t = [op |-> FALSE, str |-> Pieces(Str)[n], index |-> <<>>]
        BY <4>2
      <4>3. CASE \E m \in at + 1..Len(tokens) : t = tokens[m]
        BY <3>1, <4>3
      <4> QED BY <4>1, <4>2, <4>3
    <3> QED BY <1>1, <3>3 DEF Index
  <2>13. StageInv'
    BY <1>1, <2>1, <2>10, <2>11, <2>12 DEF StageInv
  <2>14. Course(val, tokens', at) = Meant
    <3> DEFINE us == tokens'
               s == Str
    <3>1. us \in Seq(Token) /\ s \in String /\ tokens[at].str = s /\ ~Nested(s) /\ Balanced(s)
          /\ NoFreeRef(s, Len(s) + 1) /\ PiecesIn(tokens, us, at, s)
      BY <2>2, <2>3, <2>4, <2>5 DEF Str
    <3> HIDE DEF us, s
    <3>2. Course(val, us, at) = Course(val, tokens, at)
      BY <2>2, <3>1, SplitCourse
    <3> QED BY <2>2, <3>2 DEF us
  <2>15. CourseInv'
    <3>1. Meant' = Meant
      BY <1>1, RegularStays
    <3> QED BY <1>1, <2>1, <2>14, <3>1 DEF CourseInv
  <2> QED BY <2>9, <2>13, <2>15
<1> QED BY <1>2, <1>3

(* The steps of save_index and quote_handling keep to the word they are at. *)
LEMMA WordStepKeeps ==
  ASSUME WalkInv, RegularLine, OnCourse, WordStep
  PROVE  /\ at <= Len(tokens) /\ ~tokens[at].op /\ UNCHANGED <<val, typed, at>>
         /\ tokens' \in Seq(Token) /\ SameBut(tokens, tokens', at) /\ ~tokens'[at].op
         /\ Meant' = Meant /\ ListInv'
<1>1. pc \in OnWord /\ pc' \in OnWord \cup {"overrun"}
  <2>1. CASE CountQuotes
    BY <2>1 DEF CountQuotes, Go, OnWord
  <2>2. CASE OpenQuote \/ OuterSymbol \/ IndexEnd
    BY <2>2 DEF OpenQuote, OuterSymbol, IndexEnd, Go, OnWord
  <2>3. CASE CloseQuote \/ InnerSymbol \/ InnerReference
    BY <2>3 DEF CloseQuote, InnerSymbol, InnerReference, OnWord
  <2>4. CASE HandleWord \/ RemovePair \/ KeepSymbol
    BY <2>4 DEF HandleWord, RemovePair, AtIndexed, AtQuote, KeepSymbol, Go, OnWord
  <2> QED BY <2>1, <2>2, <2>3, <2>4 DEF WordStep
<1>2. /\ UNCHANGED <<val, typed, at>> /\ at <= Len(tokens) /\ Len(tokens') = Len(tokens)
      /\ tokens'[at].op = tokens[at].op
      /\ \A k \in 1..Len(tokens) : k # at => tokens'[k] = tokens[k]
  BY WordStepIs
<1>3. ~tokens[at].op
  BY <1>1 DEF OnCourse, ListInv
<1>4. tokens' \in Seq(Token)
  <2>1. Next
    BY DEF WordStep, Next, Step
  <2>2. WalkInv'
    BY <2>1, WalkStep
  <2> QED BY <2>2 DEF WalkInv, IndexedInv, TypeInv
<1>5. Meant' = Meant
  BY <1>2, RegularStays
<1>6. ListInv'
  <2>1. \A k \in at + 1..Len(tokens) : k \in 1..Len(tokens) /\ k # at
    BY <1>2, Here
  <2>2. at <= Len(tokens) + 1
    BY DEF OnCourse, ListInv
  <2>3. \A k \in at + 1..Len(tokens) : Fit(tokens[k], val)
    BY DEF OnCourse, ListInv
  <2>4. pc' # "visit"
    BY <1>1 DEF OnWord
  <2> QED BY <1>1, <1>2, <1>3, <2>1, <2>2, <2>3, <2>4 DEF ListInv
<1> QED BY <1>2, <1>3, <1>4, <1>5, <1>6 DEF SameBut

(* A step that leaves the text of the word alone. *)
LEMMA SameTextMeant ==
  ASSUME WalkInv, RegularLine, OnCourse, WordStep, Str' = Str, Course(val, tokens, at) = Meant
  PROVE  Course(val, tokens', at) = Meant
<1> DEFINE us == tokens'
           v == val
<1>1. /\ at <= Len(tokens) /\ ~tokens[at].op /\ us \in Seq(Token) /\ SameBut(tokens, us, at)
      /\ ~us[at].op /\ at' = at
  BY WordStepKeeps
<1>2. at \in 1..Len(tokens) /\ tokens \in Seq(Token) /\ v \in [Refs -> String]
  BY <1>1, Here
<1>3. us[at].str = tokens[at].str
  BY <1>1 DEF Str
<1>4. Words(v, us[at]) = Words(v, tokens[at])
  <2> DEFINE u == us[at]
             t == tokens[at]
  <2>1. u.op = FALSE /\ t.op = FALSE
    <3>1. at \in 1..Len(us)
      BY <1>1, <1>2 DEF SameBut
    <3>2. us[at] \in Token /\ tokens[at] \in Token
      BY <1>1, <1>2, <3>1
    <3> QED BY <1>1, <3>2 DEF Token
  <2>2. u.str = t.str
    BY <1>3
  <2> HIDE DEF u, t
  <2>3. Words(v, u) = Words(v, t)
    BY <2>1, <2>2, SameWords
  <2> QED BY <2>3 DEF u, t
<1> HIDE DEF us, v
<1>5. Course(v, us, at) = Course(v, tokens, at)
  BY <1>1, <1>2, <1>4, CourseKept
<1> QED BY <1>5 DEF us, v

(* save_index counts the quotes, *)
LEMMA CountQuotesMeant ==
  ASSUME WalkInv, RegularLine, OnCourse, CountQuotes
  PROVE  OnCourse'
<1> DEFINE C == Cardinality({k \in 1..Len(Str) : OpenAt(Str, k) # OpenAt(Str, k + 1)})
<1>1. /\ pc = "count" /\ UNCHANGED <<val, typed, tokens, at, open>>
      /\ \/ Balanced(Str) /\ C = 0 /\ pc' = "handle" /\ i' = 1
         \/ Balanced(Str) /\ C # 0 /\ pc' = "outer" /\ i' = 1
         \/ pc' = "overrun"
  BY DEF CountQuotes, Go
<1> HIDE DEF C
<1>2. at <= Len(tokens) /\ Meant' = Meant /\ ListInv'
  BY WordStepKeeps DEF WordStep
<1>3. Str' = Str /\ Index' = Index
  BY <1>1, Unmoved
<1>4. NoneFree(Str) /\ Course(val, tokens, at) = Meant
  BY <1>1 DEF OnCourse, StageInv, CourseInv
<1>5. Index = <<>> /\ open = None
  BY <1>1, <1>2 DEF WalkInv, IndexedInv, IndexInv
<1>6. Str \in String
  BY <1>2, Here
<1>7. Balanced(Str) /\ C = 0 => AtHandle(Str, <<>>)
  BY <1>4, <1>6, NoTurnIsReady DEF C
<1>8. Balanced(Str) => AtScan(Str, 1, None, <<>>)
  BY <1>4, <1>6, ScanStart
<1>9. StageInv'
  BY <1>1, <1>3, <1>5, <1>7, <1>8 DEF StageInv
<1>10. CourseInv'
  BY <1>1, <1>2, <1>4 DEF CourseInv
<1> QED BY <1>2, <1>9, <1>10 DEF OnCourse

(* What is known while save_index works on a word. *)
LEMMA ScanMeans ==
  ASSUME WalkInv, RegularLine, OnCourse, pc \in {"outer", "inner"}
  PROVE  /\ at <= Len(tokens) /\ Str \in String /\ Len(Str) \in Nat /\ i \in Nat /\ i > 0
         /\ i \in Places /\ Index \in Seq(Places)
         /\ i <= Len(Str) => i \in 1..Len(Str) /\ Str[i] # None
         /\ i <= Len(Str) + 1
         /\ pc = "outer" => open = None
         /\ pc = "inner" => open \in Quotes /\ open # None
         /\ AtScan(Str, i, open, Index) /\ Course(val, tokens, at) = Meant
<1>1. at <= Len(tokens)
  BY DEF OnCourse, ListInv, OnWord
<1>2. pc = "outer" => open = None
  BY DEF WalkInv, IndexedInv, IndexInv
<1>3. pc = "inner" => open \in Quotes /\ open # None
  BY SymbolsApart DEF WalkInv, IndexedInv, IndexInv
<1>4. AtScan(Str, i, open, Index) /\ Course(val, tokens, at) = Meant
  BY DEF OnCourse, StageInv, CourseInv
<1>5. /\ Str \in String /\ Len(Str) \in Nat /\ i \in Nat /\ i > 0 /\ i \in Places
      /\ Index \in Seq(Places) /\ (i <= Len(Str) => i \in 1..Len(Str))
  BY <1>1, Here
<1>6. i <= Len(Str) => Str[i] # None
  BY <1>5, StringIs, SymbolsApart
<1>7. i <= Len(Str) + 1
  <2>1. PICK l, o : Counted(Str, i, room, l, o)
    BY DEF WalkInv, IndexedInv, IndexInv
  <2> QED BY <1>5, <2>1, CountedBounds
<1> QED BY <1>1, <1>2, <1>3, <1>4, <1>5, <1>6, <1>7

(* indexes one that opens or closes, *)
LEMMA ScanTurnMeant ==
  ASSUME WalkInv, RegularLine, OnCourse, OpenQuote \/ CloseQuote
  PROVE  OnCourse'
<1>1. /\ pc \in {"outer", "inner"} /\ i <= Len(Str) /\ AddIndex /\ i' = i + 1
      /\ pc' \in {"outer", "inner"} /\ UNCHANGED <<val, at>>
  BY DEF OpenQuote, CloseQuote
<1>2. Meant' = Meant /\ ListInv'
  BY WordStepKeeps DEF WordStep
<1>3. /\ at <= Len(tokens) /\ Str \in String /\ Len(Str) \in Nat /\ i \in 1..Len(Str)
      /\ Index \in Seq(Places) /\ Str[i] # None
      /\ AtScan(Str, i, open, Index) /\ Course(val, tokens, at) = Meant
  BY <1>1, ScanMeans
<1>4. Str' = Str /\ Index' = Append(Index, i)
  <2>1. TypeInv
    BY DEF WalkInv, IndexedInv
  <2> QED BY <1>1, <1>3, <2>1, AddIndexIs
<1>5. Str[i] \in Quotes /\ open' # open /\ open' = Next1(Str, i, open)
  <2>1. CASE OpenQuote
    <3>1. open = None /\ open' = Str[i] /\ Str[i] \in Quotes
      BY <2>1, ScanMeans DEF OpenQuote
    <3> QED BY <1>3, <3>1 DEF Next1
  <2>2. CASE CloseQuote
    <3>1. open \in Quotes /\ open # None /\ open' = None /\ Str[i] = open
      BY <2>2, ScanMeans DEF CloseQuote
    <3> QED BY <3>1 DEF Next1
  <2> QED BY <2>1, <2>2
<1>6. AtScan(Str, i + 1, open', Append(Index, i))
  <2> DEFINE q == open'
             s == Str
             p == i
             x == Index
             o == open
  <2>1. /\ s \in String /\ p \in 1..Len(s) /\ x \in Seq(Places) /\ AtScan(s, p, o, x)
        /\ s[p] \in Quotes /\ q = Next1(s, p, o) /\ q # o
    BY <1>3, <1>5
  <2> HIDE DEF q, s, p, x, o
  <2>2. AtScan(s, p + 1, q, Append(x, p))
    BY <2>1, ScanTurn
  <2> QED BY <2>2 DEF q, s, p, x
<1>7. StageInv'
  BY <1>1, <1>4, <1>6 DEF StageInv
<1>8. Course(val, tokens', at) = Meant
  BY <1>3, <1>4, SameTextMeant DEF WordStep
<1>9. CourseInv'
  BY <1>1, <1>2, <1>8 DEF CourseInv
<1> QED BY <1>2, <1>7, <1>9 DEF OnCourse

(* passes another symbol, *)
LEMMA ScanStayMeant ==
  ASSUME WalkInv, RegularLine, OnCourse, OuterSymbol \/ InnerSymbol
  PROVE  OnCourse'
<1>1. /\ pc \in {"outer", "inner"} /\ i <= Len(Str) /\ i' = i + 1 /\ pc' = pc
      /\ UNCHANGED <<val, tokens, at, open>>
  BY DEF OuterSymbol, InnerSymbol
<1>2. Meant' = Meant /\ ListInv'
  BY WordStepKeeps DEF WordStep
<1>3. /\ Str \in String /\ Len(Str) \in Nat /\ i \in 1..Len(Str) /\ Str[i] # None
      /\ AtScan(Str, i, open, Index) /\ Course(val, tokens, at) = Meant
  BY <1>1, ScanMeans
<1>4. Str' = Str /\ Index' = Index
  BY <1>1, Unmoved
<1>5. Next1(Str, i, open) = open /\ (Str[i] \in Refs => open # Double)
  <2>1. CASE OuterSymbol
    <3>1. open = None /\ Str[i] \notin Quotes
      BY <2>1, ScanMeans DEF OuterSymbol
    <3> QED BY <1>3, <3>1, SymbolsApart DEF Next1
  <2>2. CASE InnerSymbol
    <3>1. open # None /\ Str[i] # open /\ (open = Double => Str[i] \notin Refs)
      BY <2>2, ScanMeans DEF InnerSymbol
    <3> QED BY <3>1 DEF Next1
  <2> QED BY <2>1, <2>2
<1>6. AtScan(Str, i + 1, open, Index)
  BY <1>3, <1>5, ScanStay
<1>7. StageInv'
  BY <1>1, <1>4, <1>6 DEF StageInv
<1>8. CourseInv'
  BY <1>1, <1>2, <1>3 DEF CourseInv
<1> QED BY <1>2, <1>7, <1>8 DEF OnCourse

(* comes to the end, *)
LEMMA IndexEndMeant ==
  ASSUME WalkInv, RegularLine, OnCourse, IndexEnd
  PROVE  OnCourse'
<1>1. pc = "outer" /\ i > Len(Str) /\ pc' = "handle" /\ UNCHANGED <<val, tokens, at>>
  BY DEF IndexEnd, Go
<1>2. Meant' = Meant /\ ListInv'
  BY WordStepKeeps DEF WordStep
<1>3. /\ Len(Str) \in Nat /\ i \in Nat /\ i <= Len(Str) + 1
      /\ AtScan(Str, i, open, Index) /\ Course(val, tokens, at) = Meant
  BY <1>1, ScanMeans
<1>4. i = Len(Str) + 1
  BY <1>1, <1>3
<1>5. AtHandle(Str, Index)
  BY <1>3, <1>4 DEF AtScan, AtHandle, Ready
<1>6. Str' = Str /\ Index' = Index
  BY <1>1, Unmoved
<1>7. StageInv'
  BY <1>1, <1>5, <1>6 DEF StageInv
<1>8. CourseInv'
  BY <1>1, <1>2, <1>3 DEF CourseInv
<1> QED BY <1>2, <1>7, <1>8 DEF OnCourse

(* or replaces a reference between double quotes. *)
LEMMA InnerReferenceMeant ==
  ASSUME WalkInv, RegularLine, OnCourse, InnerReference
  PROVE  OnCourse'
<1> DEFINE w == val[Str[i]]
           r == Substitute(Str, i)
<1>1. /\ pc = "inner" /\ pc' = "inner" /\ i <= Len(Str) /\ open = Double /\ Str[i] \in Refs
      /\ SetStr(r) /\ i' = i + Len(w) /\ UNCHANGED <<val, typed, at, open>>
  BY DEF InnerReference, BehindValue
<1>2. Meant' = Meant /\ ListInv' /\ ~tokens[at].op
  BY WordStepKeeps DEF WordStep
<1>3. /\ at <= Len(tokens) /\ Str \in String /\ Len(Str) \in Nat /\ i \in 1..Len(Str)
      /\ AtScan(Str, i, Double, Index) /\ Course(val, tokens, at) = Meant
  BY <1>1, ScanMeans
<1>4. Plain(w)
  BY <1>1, RegularIs DEF WalkInv, IndexedInv
<1>5. OpenAt(Str, i) = Double
  BY <1>3 DEF AtScan
<1>6. Str' = r /\ Index' = Index /\ Course(val, tokens', at) = Meant
  BY <1>1, <1>2, <1>3, <1>4, <1>5, ReplacedMeant
<1>7. w \in String /\ r \in String /\ Replaced(Str, w, i, r)
  BY <1>1, <1>3, SubstituteIs DEF WalkInv, IndexedInv
<1>8. AtScan(r, i + Len(w), Double, Index)
  <2> DEFINE s == Str
             p == i
             x == Index
  <2>1. /\ s \in String /\ p \in 1..Len(s) /\ AtScan(s, p, Double, x) /\ w \in String /\ Plain(w)
        /\ s[p] \in Refs /\ r \in String /\ Replaced(s, w, p, r)
    BY <1>1, <1>3, <1>4, <1>7
  <2> HIDE DEF s, p, x, w, r
  <2>2. AtScan(r, p + Len(w), Double, x)
    BY <2>1, ScanReplace
  <2> QED BY <2>2 DEF p, x
<1> HIDE DEF r, w
<1>9. StageInv'
  BY <1>1, <1>6, <1>8 DEF StageInv
<1>10. CourseInv'
  BY <1>1, <1>2, <1>6 DEF CourseInv
<1> QED BY <1>2, <1>9, <1>10 DEF OnCourse

(* quote_handling starts with a word that has only its quotes to lose, *)
LEMMA HandleWordMeant ==
  ASSUME WalkInv, RegularLine, OnCourse, HandleWord
  PROVE  OnCourse'
<1>1. /\ pc = "handle" /\ ~tokens[at].op /\ pc' = "strip" /\ i' = 1 /\ j' = 0
      /\ UNCHANGED <<val, tokens, at>>
  BY DEF HandleWord, Go
<1>2. Meant' = Meant /\ ListInv' /\ at <= Len(tokens)
  BY WordStepKeeps DEF WordStep
<1>3. /\ at \in 1..Len(tokens) /\ tokens \in Seq(Token) /\ Str \in String /\ val \in [Refs -> String]
      /\ Str = tokens[at].str /\ Index \in Seq(Places)
  BY <1>2, Here
<1>4. AtHandle(Str, Index) /\ Course(val, tokens, at) = Meant
  BY <1>1 DEF OnCourse, StageInv, CourseInv
<1>5. \A m \in 1..Len(Index) - 1 : Index[m] < Index[m + 1]
  <2>1. CASE Index = <<>>
    <3>1. Len(Index) = 0
      BY <2>1
    <3> QED BY <3>1
  <2>2. CASE Index # <<>>
    <3>1. Outside(Str, Index, Len(Str) + 1)
      BY <1>1, <1>2, <2>2 DEF WalkInv, IndexedInv, IndexInv
    <3>2. 0 + 1 = 1
      OBVIOUS
    <3> QED BY <3>1, <3>2 DEF Outside, Marks
  <2> QED BY <2>1, <2>2
<1>6. Stripped(val, Str, Str, 1, 0, Index)
  <2> DEFINE s == Str
             x == Index
  <2>1. s \in String /\ AtHandle(s, x) /\ \A m \in 1..Len(x) - 1 : x[m] < x[m + 1]
    BY <1>3, <1>4, <1>5
  <2> HIDE DEF s, x
  <2>2. Stripped(val, s, s, 1, 0, x)
    BY <1>3, <2>1, StripStart
  <2> QED BY <2>2 DEF s, x
<1>7. StripCourse(val, tokens, at, Str) = Meant
  BY <1>1, <1>3, <1>4, StripCourseStart
<1>8. Str' = Str /\ Index' = Index
  BY <1>1, Unmoved
<1>9. StageInv'
  BY <1>1 DEF StageInv
<1>10. CourseInv'
  BY <1>1, <1>2, <1>3, <1>6, <1>7, <1>8 DEF CourseInv
<1> QED BY <1>2, <1>9, <1>10 DEF OnCourse

(* removes a pair of them, *)
LEMMA RemovePairMeant ==
  ASSUME WalkInv, RegularLine, OnCourse, RemovePair
  PROVE  OnCourse'
<1>1. /\ pc = "strip" /\ pc' = "strip" /\ AtQuote /\ i <= Len(Str) /\ Str[i] \in Quotes
      /\ j + 1 < Len(Index) /\ j' = j + 2 /\ i' = EndOfPair - 1 /\ UNCHANGED val
  BY DEF RemovePair, AtIndexed, AtQuote, BehindPair
<1>2. /\ Meant' = Meant /\ ListInv' /\ at <= Len(tokens) /\ tokens' \in Seq(Token)
      /\ SameBut(tokens, tokens', at) /\ UNCHANGED at
  BY WordStepKeeps DEF WordStep
<1>3. /\ at \in 1..Len(tokens) /\ tokens \in Seq(Token) /\ Str \in String /\ val \in [Refs -> String]
      /\ i \in 1..Len(Str) /\ j \in Nat /\ Index \in Seq(Places)
  BY <1>1, <1>2, Here
<1>4. EndOfPair \in i + 1..Len(Str) /\ Str[EndOfPair] = Str[i] /\ Index[j + 1] - j = i
  BY <1>1, AtQuoteIs DEF WalkInv
<1>5. Index' = Index /\ Str' = RemoveAt(RemoveAt(Str, EndOfPair), i)
  BY RemovePairIs DEF WalkInv
<1>6. PICK t \in String : /\ Stripped(val, t, Str, i, j, Index)
                          /\ StripCourse(val, tokens, at, t) = Meant
  BY <1>1 DEF OnCourse, CourseInv
<1>7. Stripped(val, t, Str', EndOfPair - 1, j + 2, Index)
  <2> DEFINE s == Str
             p == i
             b == j
             x == Index
             e == EndOfPair
             r == Str'
             v == val
  <2>1. /\ v \in [Refs -> String] /\ s \in String /\ p \in 1..Len(s) /\ b \in Nat /\ x \in Seq(Places)
        /\ Stripped(v, t, s, p, b, x) /\ s[p] \in Quotes /\ b + 1 < Len(x) /\ x[b + 1] - b = p
        /\ e \in p + 1..Len(s) /\ s[e] = s[p] /\ r = RemoveAt(RemoveAt(s, e), p)
    BY <1>1, <1>3, <1>4, <1>5, <1>6
  <2>2. e = x[b + 2] - b
    BY DEF EndOfPair
  <2> HIDE DEF s, p, b, x, e, r, v
  <2>3. Stripped(v, t, r, e - 1, b + 2, x)
    BY <1>6, <2>1, <2>2, StripPair
  <2> QED BY <2>3 DEF v, r, e, b, x
<1>8. StripCourse(val, tokens', at, t) = Meant
  <2> DEFINE us == tokens'
  <2>1. us \in Seq(Token) /\ SameBut(tokens, us, at)
    BY <1>2
  <2> HIDE DEF us
  <2>2. StripCourse(val, us, at, t) = StripCourse(val, tokens, at, t)
    BY <1>3, <2>1, StripCourseKept
  <2> QED BY <1>6, <2>2 DEF us
<1>9. StageInv'
  BY <1>1 DEF StageInv
<1>10. CourseInv'
  BY <1>1, <1>2, <1>5, <1>6, <1>7, <1>8 DEF CourseInv
<1> QED BY <1>2, <1>9, <1>10 DEF OnCourse

(* keeps what is no quote of the user, *)
LEMMA KeepSymbolMeant ==
  ASSUME WalkInv, RegularLine, OnCourse, KeepSymbol
  PROVE  OnCourse'
<1>1. /\ pc = "strip" /\ pc' = "strip" /\ i <= Len(Str) /\ ~AtIndexed /\ i' = i + 1
      /\ UNCHANGED <<val, tokens, at, j>>
  BY DEF KeepSymbol
<1>2. Meant' = Meant /\ ListInv' /\ at <= Len(tokens)
  BY WordStepKeeps DEF WordStep
<1>3. /\ Str \in String /\ val \in [Refs -> String] /\ i \in 1..Len(Str) /\ j \in Nat
  BY <1>1, <1>2, Here
<1>4. PICK t \in String : /\ Stripped(val, t, Str, i, j, Index)
                          /\ StripCourse(val, tokens, at, t) = Meant
  BY <1>1 DEF OnCourse, CourseInv
<1>5. Str[i] \notin Quotes
  <2>1. SUFFICES ASSUME Str[i] \in Quotes PROVE FALSE
    OBVIOUS
  <2>2. Index # <<>>
    BY <1>3, <1>4, <2>1, StripQuote
  <2>3. AtQuote
    BY <1>1, <2>1, <2>2 DEF AtQuote
  <2> QED BY <1>1, <2>3, AtQuoteIs DEF WalkInv
<1>6. Stripped(val, t, Str, i + 1, j, Index)
  BY <1>3, <1>4, <1>5, StripKeep
<1>7. Str' = Str /\ Index' = Index
  BY <1>1, Unmoved
<1>8. StageInv'
  BY <1>1 DEF StageInv
<1>9. CourseInv'
  BY <1>1, <1>2, <1>4, <1>6, <1>7 DEF CourseInv
<1> QED BY <1>2, <1>8, <1>9 DEF OnCourse

(* and leaves what the word means, or nothing. *)
LEMMA WordDoneMeant ==
  ASSUME WalkInv, RegularLine, OnCourse, WordDone
  PROVE  OnCourse'
<1>1. /\ pc = "strip" /\ pc' = "visit" /\ i > Len(Str) /\ UNCHANGED <<val, typed>>
      /\ \/ Str = <<>> /\ tokens' = RemoveAt(tokens, at) /\ at' = at
         \/ Str # <<>> /\ tokens' = tokens /\ at' = at + 1
  BY DEF WordDone, Go
<1>2. at <= Len(tokens) /\ ~tokens[at].op /\ Meant' = Meant
  BY <1>1, RegularStays DEF OnCourse, ListInv, OnWord
<1>3. /\ at \in 1..Len(tokens) /\ tokens \in Seq(Token) /\ Str \in String /\ val \in [Refs -> String]
      /\ Str = tokens[at].str /\ i \in Places /\ j \in Nat
  BY <1>2, Here
<1>4. /\ tokens' \in Seq(Token) /\ Len(tokens') \in Nat /\ at' \in Places
      /\ \A k \in at' .. Len(tokens') : \E m \in at + 1..Len(tokens) : tokens'[k] = tokens[m]
  BY WordDoneIs DEF WalkInv, IndexedInv
<1>5. ListInv'
  <2>1. at' <= Len(tokens') + 1
    <3>1. CASE tokens' = RemoveAt(tokens, at) /\ at' = at
      <4>1. Len(tokens') = Len(tokens) - 1
        BY <1>3, <3>1, RemoveIs
      <4> QED BY <1>3, <3>1, <4>1
    <3>2. CASE tokens' = tokens /\ at' = at + 1
      BY <1>3, <3>2
    <3> QED BY <1>1, <3>1, <3>2
  <2>2. \A m \in at + 1..Len(tokens) : Fit(tokens[m], val)
    BY DEF OnCourse, ListInv
  <2>3. \A k \in at' .. Len(tokens') : Fit(tokens'[k], val)
    BY <1>4, <2>2
  <2>4. /\ \A k \in at' + 1..Len(tokens') : k \in at' .. Len(tokens')
        /\ at' <= Len(tokens') => at' \in at' .. Len(tokens')
    BY <1>4 DEF Places
  <2> QED BY <1>1, <2>1, <2>3, <2>4 DEF ListInv, OnWord
<1>6. PICK t \in String : /\ Stripped(val, t, Str, i, j, Index)
                          /\ StripCourse(val, tokens, at, t) = Meant
  BY <1>1 DEF OnCourse, CourseInv
<1>7. Fields(val, t) = OneWord(Str)
  BY <1>1, <1>3, <1>6, StripEnd
<1>8. Course(val, tokens', at') = Meant
  <2>1. CASE Str = <<>> /\ tokens' = RemoveAt(tokens, at) /\ at' = at
    <3>1. Fields(val, t) = <<>>
      BY <1>7, <2>1 DEF OneWord
    <3> DEFINE us == tokens'
    <3>2. us = RemoveAt(tokens, at)
      BY <2>1
    <3> HIDE DEF us
    <3>3. Course(val, us, at) = StripCourse(val, tokens, at, t)
      BY <1>3, <3>1, <3>2, StripCourseEmpty
    <3> QED BY <1>6, <2>1, <3>3 DEF us
  <2>2. CASE Str # <<>> /\ tokens' = tokens /\ at' = at + 1
    <3>1. Fields(val, t) = <<tokens[at].str>>
      BY <1>3, <1>7, <2>2 DEF OneWord
    <3>2. Course(val, tokens, at + 1) = StripCourse(val, tokens, at, t)
      BY <1>2, <1>3, <3>1, StripCourseWord
    <3> QED BY <1>6, <2>2, <3>2
  <2> QED BY <1>1, <2>1, <2>2
<1>9. StageInv'
  BY <1>1 DEF StageInv
<1>10. CourseInv'
  BY <1>1, <1>2, <1>8 DEF CourseInv
<1> QED BY <1>5, <1>9, <1>10 DEF OnCourse

LEMMA MeantStays ==
  ASSUME OnCourse, UNCHANGED vars
  PROVE  OnCourse'
<1>1. UNCHANGED <<val, typed, tokens, at, pc, i, j, open, toDele>>
  BY DEF vars
<1>2. Str' = Str /\ Index' = Index /\ Meant' = Meant /\ Resulting' = Resulting
  BY <1>1, Unmoved, RegularStays DEF Resulting
<1>3. ListInv'
  BY <1>1 DEF OnCourse, ListInv
<1>4. StageInv'
  BY <1>1, <1>2 DEF OnCourse, StageInv
<1>5. CourseInv'
  BY <1>1, <1>2 DEF OnCourse, CourseInv
<1> QED BY <1>3, <1>4, <1>5 DEF OnCourse

LEMMA MeantInit == Init => MeantInv
<1> SUFFICES ASSUME Init, RegularLine PROVE OnCourse
  BY DEF MeantInv
<1>1. /\ typed \in Seq([op : BOOLEAN, str : String]) /\ typed \in Lines
      /\ val \in [Refs -> String] /\ tokens \in Seq(Token)
  BY LinesAssumption, InvInit DEF Init, String, TypeInv
<1>2. ASSUME NEW k \in 1..Len(typed)
      PROVE  typed[k].op \in BOOLEAN /\ typed[k].str \in String
  <2> DEFINE A == [op : BOOLEAN, str : String]
  <2>1. typed \in Seq(A)
    BY <1>1
  <2> HIDE DEF A
  <2>2. typed[k] \in A
    BY <2>1
  <2> QED BY <2>2 DEF A
<1>3. /\ Len(tokens) = Len(typed) /\ Len(typed) \in Nat
      /\ \A k \in 1..Len(typed) : tokens[k].op = typed[k].op /\ tokens[k].str = typed[k].str
      /\ at = 1 /\ pc = "visit"
  BY <1>1 DEF Init
<1>4. ASSUME NEW k \in 1..Len(typed) PROVE Fit(tokens[k], val)
  <2> DEFINE t == tokens[k]
             w == typed[k].str
  <2>1. t.str = w /\ (t.op <=> typed[k].op)
    BY <1>3
  <2>2. SUFFICES ASSUME ~typed[k].op PROVE Fit(t, val)
    BY <2>1 DEF Fit
  <2>3. ~HasFreeBlank(w)
    BY <1>1, <2>2, LinesAssumption, Zenon
  <2>4. w \in TypedWords
    BY <2>2 DEF TypedWords
  <2>5. Regular(w)
    BY <2>4 DEF RegularLine
  <2> HIDE DEF t, w
  <2>6. ~KeepsQuotes(w) /\ ~BlankWord(w, val)
    BY <2>5 DEF Regular, AllBlank, BlankWord
  <2> QED BY <2>1, <2>3, <2>6 DEF Fit
<1>5. ListInv
  <2>1. /\ 1 <= Len(tokens) + 1 /\ \A k \in 1 + 1..Len(tokens) : k \in 1..Len(typed)
        /\ 1 <= Len(tokens) => 1 \in 1..Len(typed)
    BY <1>3
  <2> QED BY <1>3, <1>4, <2>1 DEF ListInv, OnWord
<1>6. StageInv
  BY <1>3 DEF StageInv
<1>7. ASSUME NEW k \in 1..Len(typed)
      PROVE  Words(val, typed[k]) = Words(val, tokens[k]) /\ Words(val, typed[k]) \in Seq(Item)
  <2> DEFINE t == typed[k]
             u == tokens[k]
  <2>1. t.op \in BOOLEAN /\ t.str \in String /\ u.op = t.op /\ u.str = t.str
    BY <1>2, <1>3
  <2> HIDE DEF t, u
  <2>2. Words(val, t) = Words(val, u)
    BY <2>1 DEF Words
  <2>3. Words(val, t) \in Seq(Item)
    BY <1>1, <2>1, WordsIs
  <2> QED BY <2>2, <2>3 DEF t, u
<1>8. Course(val, tokens, at) = Meant
  <2>1. WordList(val, typed) /\ WordList(val, tokens)
    BY <1>3, <1>7 DEF WordList
  <2>2. EndAlike(val, tokens, typed, Len(typed))
    <3>1. \A k \in 0..Len(typed) - 1 : Len(typed) - k \in 1..Len(typed)
      BY <1>3
    <3>2. \A k \in 0..Len(typed) - 1 :
            Words(val, tokens[Len(tokens) - k]) = Words(val, typed[Len(typed) - k])
      BY <1>3, <1>7, <3>1
    <3>3. Len(typed) <= Len(typed) /\ Len(typed) <= Len(tokens)
      BY <1>3
    <3> QED BY <1>3, <3>2, <3>3 DEF EndAlike
  <2>3. LastMeant(val, tokens)[Len(typed)] = LastMeant(val, typed)[Len(typed)]
    BY <2>1, <2>2, MeantAlike
  <2>4. Meant = LastMeant(val, typed)[Len(typed)]
    BY <1>3, <1>7, MeantStep DEF Meant
  <2>5. Ahead(val, tokens, 1) = Meant
    <3>1. Len(tokens) + 1 - 1 = Len(typed)
      BY <1>3
    <3> QED BY <2>3, <2>4, <3>1 DEF Ahead
  <2>6. Ahead(val, tokens, 1) \in Seq(Item)
    <3>1. 1 \in 1..Len(tokens) + 1
      BY <1>3
    <3> QED BY <1>1, <3>1, AheadIs
  <2>7. Items(tokens, 1 - 1) = <<>>
    <3>1. 0 \in 0..Len(tokens) /\ 1 - 1 = 0
      BY <1>3
    <3>2. Items(tokens, 0) \in Seq(Item) /\ Len(Items(tokens, 0)) = 0
      BY <1>1, <3>1, ItemsIs
    <3> QED BY <3>1, <3>2
  <2>8. <<>> \o Ahead(val, tokens, 1) = Ahead(val, tokens, 1)
    BY <2>6, ConcatEmptySeq
  <2> QED BY <1>3, <2>5, <2>7, <2>8 DEF Course
<1>9. CourseInv
  BY <1>3, <1>8 DEF CourseInv
<1> QED BY <1>5, <1>6, <1>9 DEF OnCourse

LEMMA MeantNext == WalkInv /\ MeantInv /\ [Next]_vars => MeantInv'
<1> SUFFICES ASSUME WalkInv, MeantInv, [Next]_vars, RegularLine' PROVE OnCourse'
  BY DEF MeantInv
<1>1. UNCHANGED <<val, typed>>
  BY DEF Next, Step, Stopped, vars, Visit, VisitOperator, Done, PlainQuoted, PlainSymbol,
     PlainReference, PlainEnd, NoSplit, Split, SplitOverrun, CountQuotes, OpenQuote, OuterSymbol,
     IndexEnd, CloseQuote, InnerSymbol, InnerReference, HandleNull, HandleOperator, HandleWord,
     RemovePair, KeepSymbol, WordDone
<1>2. RegularLine /\ OnCourse
  BY <1>1, RegularStays DEF MeantInv
<1>3. CASE UNCHANGED vars
  BY <1>2, <1>3, MeantStays
<1>4. CASE Next
  BY <1>2, <1>3, <1>4, VisitMeant, OperatorMeant, EndMeant, PlainLookMeant, PlainReferenceMeant,
     UnsplitMeant, SplitMeant, CountQuotesMeant, ScanTurnMeant, ScanStayMeant, IndexEndMeant,
     InnerReferenceMeant, HandleWordMeant, RemovePairMeant, KeepSymbolMeant, WordDoneMeant
     DEF Next, Step, Stopped
<1> QED BY <1>3, <1>4

LEMMA MeantSuffices == MeantInv => MeantLine
BY DEF MeantInv, RegularLine, OnCourse, CourseInv, MeantLine

(* For words, values and lines of any length: unless a value holds a quote *)
(* or a reference, or a word is one of those that Regular excepts, the     *)
(* line that comes out of expanding is the line that was meant.            *)
THEOREM OnlyMeantWords == Spec => []MeantLine
<1>1. Init => WalkInv /\ MeantInv
  BY InvInit, WalkInit, MeantInit DEF WalkInv, IndexedInv
<1>2. WalkInv /\ MeantInv /\ [Next]_vars => WalkInv' /\ MeantInv'
  BY WalkStep, MeantNext
<1> QED BY <1>1, <1>2, MeantSuffices, PTL DEF Spec

=============================================================================
