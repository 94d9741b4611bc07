------------------------------ MODULE EnvProofs ------------------------------
(***************************************************************************)
(* The list of Env is what EnvAbs promises, for any names, directories and *)
(* envp: each step of the list is a step of one value per name.            *)
(***************************************************************************)
EXTENDS Env, SequenceTheorems, FiniteSetTheorems, WellFoundedInduction, TLAPS

Vals   == Dirs \cup {Empty, NoValue}
Nodes  == [name : Names, value : Vals]

IInv == TypeOK /\ PwdAndOldPwd

-----------------------------------------------------------------------------
(* Every set of natural numbers that is not empty has a least element, and *)
(* what is true of 0 and of the successor of each is true of all up to L.  *)
LEMMA LessThanWellFounded == IsWellFoundedOn({p \in Nat \X Nat : p[1] < p[2]}, Nat)
<1>1. OpToRel(<, Nat) = {p \in Nat \X Nat : p[1] < p[2]}
  BY DEF OpToRel
<1> QED BY <1>1, NatLessThanWellFounded, Zenon

LEMMA LeastExists ==
  ASSUME NEW S \in SUBSET Nat, S # {}
  PROVE  \E m \in S : \A n \in S : m <= n
<1>1. PICK m \in S : \A n \in S : <<n, m>> \notin {p \in Nat \X Nat : p[1] < p[2]}
  BY LessThanWellFounded, WFMin
<1>2. ASSUME NEW n \in S, n < m PROVE FALSE
  <2>1. <<n, m>> \in {p \in Nat \X Nat : p[1] < p[2]}
    BY <1>2
  <2> QED BY <1>1, <2>1
<1>3. \A n \in S : m <= n
  BY <1>2
<1> QED BY <1>3

LEMMA MinIsLeast ==
  ASSUME NEW S \in SUBSET Nat, S # {}
  PROVE  Min(S) \in S /\ \A n \in S : Min(S) <= n
<1>1. \E m \in S : \A n \in S : m <= n
  BY LeastExists
<1> QED BY <1>1 DEF Min

LEMMA Upward ==
  ASSUME NEW L \in Nat, NEW S, 0 \in S, \A m \in 0..L - 1 : m \in S => m + 1 \in S
  PROVE  \A m \in 0..L : m \in S
<1> SUFFICES ASSUME \E m \in 0..L : m \notin S PROVE FALSE
  OBVIOUS
<1> DEFINE bad == 0..L \ S
<1>1. PICK m \in bad : \A k \in bad : m <= k
  <2>1. bad \in SUBSET Nat /\ bad # {}
    OBVIOUS
  <2> HIDE DEF bad
  <2> QED BY <2>1, LeastExists
<1>2. m - 1 \in 0..L - 1 /\ m - 1 \notin bad
  BY <1>1
<1>3. m - 1 \in S /\ (m - 1) + 1 = m
  BY <1>2
<1> QED BY <1>2, <1>3, <1>1

-----------------------------------------------------------------------------
(* The recursive function that collects the values of a name from a node   *)
(* on satisfies its equation.                                              *)
LEMMA ValuesFromDef ==
  ASSUME NEW V, NEW e \in Seq(V), NEW n
  PROVE  ValuesFrom(e, n) =
           [k \in 1..Len(e) + 1 |->
              IF k = Len(e) + 1 THEN <<>>
              ELSE IF e[k].name = n THEN <<e[k].value>> \o ValuesFrom(e, n)[k + 1]
              ELSE ValuesFrom(e, n)[k + 1]]
<1> DEFINE L == Len(e)
           Body(g, k) == IF k = L + 1 THEN <<>>
                         ELSE IF e[k].name = n THEN <<e[k].value>> \o g[k + 1] ELSE g[k + 1]
           Upto(m) == (L + 1 - m)..(L + 1)
           S == {m \in 0..L : \E g : g = [k \in Upto(m) |-> Body(g, k)]}
<1>0. L \in Nat
  OBVIOUS
<1>1. 0 \in S
  <2> DEFINE g == [k \in Upto(0) |-> <<>>]
  <2>1. g = [k \in Upto(0) |-> Body(g, k)]
    <3>1. \A k \in Upto(0) : k = L + 1
      BY <1>0
    <3>2. \A k \in Upto(0) : Body(g, k) = <<>>
      BY <3>1
    <3> QED BY <3>2
  <2> HIDE DEF Body, Upto, g
  <2> QED BY <2>1, <1>0
<1>2. ASSUME NEW m \in 0..L - 1, m \in S PROVE m + 1 \in S
  <2>1. PICK g : g = [k \in Upto(m) |-> Body(g, k)]
    BY <1>2
  <2> DEFINE h == [k \in Upto(m + 1) |-> IF k \in Upto(m) THEN g[k] ELSE Body(g, k)]
  <2>2. ASSUME NEW k \in Upto(m + 1) PROVE h[k] = Body(h, k)
    <3>1. k \in Upto(m) => k = L + 1 \/ k + 1 \in Upto(m)
      BY <1>0
    <3>2. k \notin Upto(m) => k = L - m /\ k + 1 \in Upto(m)
      BY <1>0
    <3>3. k + 1 \in Upto(m) => h[k + 1] = g[k + 1]
      BY <1>0
    <3>4. k = L + 1 \/ k + 1 \in Upto(m)
      BY <3>1, <3>2
    <3>5. Body(h, k) = Body(g, k)
      BY <3>4, <3>3
    <3>6. h[k] = Body(g, k)
      <4>1. CASE k \in Upto(m)
        <5> HIDE DEF Body, Upto
        <5> QED BY <2>1, <4>1
      <4>2. CASE k \notin Upto(m)
        <5> HIDE DEF Body, Upto
        <5> QED BY <4>2
      <4> QED BY <4>1, <4>2
    <3> QED BY <3>5, <3>6
  <2>3. h = [k \in Upto(m + 1) |-> Body(h, k)]
    <3> HIDE DEF Body, Upto
    <3> QED BY <2>2
  <2> HIDE DEF Body, Upto, h
  <2> QED BY <2>3, <1>0
<1>3. L \in S
  <2> HIDE DEF S, L
  <2>1. \A m \in 0..L - 1 : m \in S => m + 1 \in S
    BY <1>2
  <2>2. \A m \in 0..L : m \in S
    BY <1>0, <1>1, <2>1, Upward, Zenon
  <2> QED BY <1>0, <2>2
<1>4. PICK g : g = [k \in 1..Len(e) + 1 |-> Body(g, k)]
  BY <1>3, <1>0
<1> QED BY <1>4, Zenon DEF ValuesFrom

LEMMA ValuesFromStep ==
  ASSUME NEW V, NEW e \in Seq(V), NEW n
  PROVE  /\ ValuesFrom(e, n)[Len(e) + 1] = <<>>
         /\ \A k \in 1..Len(e) :
              ValuesFrom(e, n)[k] = IF e[k].name = n THEN <<e[k].value>> \o ValuesFrom(e, n)[k + 1]
                                    ELSE ValuesFrom(e, n)[k + 1]
<1> DEFINE F == ValuesFrom(e, n)
           D == 1..Len(e) + 1
<1>1. F = [k \in D |-> IF k = Len(e) + 1 THEN <<>>
                       ELSE IF e[k].name = n THEN <<e[k].value>> \o F[k + 1] ELSE F[k + 1]]
  BY ValuesFromDef
<1>2. Len(e) + 1 \in D /\ \A k \in 1..Len(e) : k \in D /\ k # Len(e) + 1
  OBVIOUS
<1> HIDE DEF F, D
<1>3. \A k \in D : F[k] = IF k = Len(e) + 1 THEN <<>>
                          ELSE IF e[k].name = n THEN <<e[k].value>> \o F[k + 1] ELSE F[k + 1]
  BY <1>1
<1>4. F[Len(e) + 1] = <<>>
  BY <1>2, <1>3
<1>5. \A k \in 1..Len(e) : F[k] = IF e[k].name = n THEN <<e[k].value>> \o F[k + 1] ELSE F[k + 1]
  BY <1>2, <1>3
<1> QED BY <1>4, <1>5 DEF F

(* The same node by node: at the end, anywhere, at a node of the name and  *)
(* at a node of another.                                                   *)
LEMMA ValuesAtEnd ==
  ASSUME NEW V, NEW e \in Seq(V), NEW n
  PROVE  ValuesFrom(e, n)[Len(e) + 1] = <<>>
BY ValuesFromStep

LEMMA ValuesAt ==
  ASSUME NEW V, NEW e \in Seq(V), NEW n, NEW k \in 1..Len(e)
  PROVE  ValuesFrom(e, n)[k] = IF e[k].name = n THEN <<e[k].value>> \o ValuesFrom(e, n)[k + 1]
                               ELSE ValuesFrom(e, n)[k + 1]
BY ValuesFromStep

LEMMA ValuesHere ==
  ASSUME NEW V, NEW e \in Seq(V), NEW n, NEW k \in 1..Len(e), e[k].name = n
  PROVE  ValuesFrom(e, n)[k] = <<e[k].value>> \o ValuesFrom(e, n)[k + 1]
<1>1. ValuesFrom(e, n)[k] = IF e[k].name = n THEN <<e[k].value>> \o ValuesFrom(e, n)[k + 1]
                            ELSE ValuesFrom(e, n)[k + 1]
  BY ONLY e \in Seq(V), k \in 1..Len(e), ValuesAt
<1> QED BY <1>1, Zenon

LEMMA ValuesBehind ==
  ASSUME NEW V, NEW e \in Seq(V), NEW n, NEW k \in 1..Len(e), e[k].name # n
  PROVE  ValuesFrom(e, n)[k] = ValuesFrom(e, n)[k + 1]
<1>1. ValuesFrom(e, n)[k] = IF e[k].name = n THEN <<e[k].value>> \o ValuesFrom(e, n)[k + 1]
                            ELSE ValuesFrom(e, n)[k + 1]
  BY ONLY e \in Seq(V), k \in 1..Len(e), ValuesAt
<1> QED BY <1>1, Zenon

(* From the end of a list towards its head. *)
LEMMA Downward ==
  ASSUME NEW L \in Nat, NEW S, L + 1 \in S, \A k \in 1..L : k + 1 \in S => k \in S
  PROVE  \A k \in 1..L + 1 : k \in S
<1> DEFINE T == {m \in 0..L : L + 1 - m \in S}
<1>1. 0 \in T
  OBVIOUS
<1>2. ASSUME NEW m \in 0..L - 1, m \in T PROVE m + 1 \in T
  <2>1. L - m \in 1..L /\ (L - m) + 1 = L + 1 - m /\ L + 1 - (m + 1) = L - m
    OBVIOUS
  <2>2. L - m \in S
    BY <1>2, <2>1
  <2> QED BY <2>1, <2>2
<1>3. \A m \in 0..L : m \in T
  <2> HIDE DEF T
  <2>1. \A m \in 0..L - 1 : m \in T => m + 1 \in T
    BY <1>2
  <2> QED BY <1>1, <2>1, Upward, Zenon
<1>4. ASSUME NEW k \in 1..L + 1 PROVE k \in S
  <2>1. L + 1 - k \in 0..L /\ L + 1 - (L + 1 - k) = k
    OBVIOUS
  <2>2. L + 1 - k \in T
    BY <1>3, <2>1
  <2> QED BY <2>1, <2>2
<1> QED BY <1>4

(* The first value of a name, and those underneath. *)
LEMMA OnTop ==
  ASSUME NEW V, NEW v \in V, NEW s \in Seq(V)
  PROVE  /\ <<v>> \o s \in Seq(V) /\ <<v>> \o s # <<>>
         /\ Head(<<v>> \o s) = v /\ Tail(<<v>> \o s) = s
<1> DEFINE c == <<v>> \o s
<1>1. <<v>> \in Seq(V) /\ Len(<<v>>) = 1 /\ <<v>>[1] = v
  OBVIOUS
<1>2. c \in Seq(V) /\ Len(c) = 1 + Len(s)
      /\ \A i \in 1..1 + Len(s) : c[i] = IF i <= 1 THEN <<v>>[i] ELSE s[i - 1]
  BY <1>1, ConcatProperties
<1>3. Len(s) \in Nat
  OBVIOUS
<1> HIDE DEF c
<1>4. c # <<>> /\ c[1] = v
  BY <1>1, <1>2, <1>3
<1>5. Head(c) = v
  BY <1>2, <1>4
<1>6. Tail(c) \in Seq(V) /\ Len(Tail(c)) = Len(s) /\ \A i \in 1..Len(s) : Tail(c)[i] = c[i + 1]
  BY <1>2, <1>3, <1>4, HeadTailProperties
<1>7. \A i \in 1..Len(s) : Tail(c)[i] = s[i]
  BY <1>2, <1>3, <1>6
<1>8. Tail(c) = s
  BY <1>6, <1>7, SeqEqual
<1> QED BY <1>2, <1>4, <1>5, <1>8 DEF c

LEMMA ValuesFromType ==
  ASSUME NEW V, NEW e \in Seq([name : Names, value : V]), NEW n
  PROVE  \A k \in 1..Len(e) + 1 : ValuesFrom(e, n)[k] \in Seq(V)
<1> DEFINE F == ValuesFrom(e, n)
           S == {k \in 1..Len(e) + 1 : F[k] \in Seq(V)}
<1>0. Len(e) \in Nat
  OBVIOUS
<1>1. Len(e) + 1 \in S
  <2>1. F[Len(e) + 1] = <<>>
    BY ValuesAtEnd
  <2>2. <<>> \in Seq(V) /\ Len(e) + 1 \in 1..Len(e) + 1
    BY <1>0
  <2> HIDE DEF F
  <2> QED BY <2>1, <2>2
<1>2. ASSUME NEW k \in 1..Len(e), k + 1 \in S PROVE k \in S
  <2>1. F[k] = IF e[k].name = n THEN <<e[k].value>> \o F[k + 1] ELSE F[k + 1]
    BY ValuesAt
  <2>2. e[k] \in [name : Names, value : V]
    BY ElementOfSeq
  <2>3. e[k].value \in V
    BY <2>2
  <2>4. F[k + 1] \in Seq(V)
    BY <1>2
  <2> HIDE DEF F
  <2>5. <<e[k].value>> \o F[k + 1] \in Seq(V)
    BY <2>3, <2>4, OnTop
  <2>6. F[k] \in Seq(V)
    BY <2>1, <2>4, <2>5
  <2> QED BY <1>0, <2>6
<1>3. \A k \in 1..Len(e) + 1 : k \in S
  <2> HIDE DEF S
  <2>1. \A k \in 1..Len(e) : k + 1 \in S => k \in S
    BY <1>2
  <2> QED BY <1>0, <1>1, <2>1, Downward, Zenon
<1> QED BY <1>3

(* The list e from a on is the list f from b on.                            *)
SameNodes(e, a, f, b) ==
  Len(e) - a = Len(f) - b /\ \A j \in 0..Len(e) - a : e[a + j] = f[b + j]

LEMMA SameRest ==
  ASSUME NEW V, NEW e \in Seq(V), NEW f \in Seq(V), NEW n,
         NEW a \in 1..Len(e) + 1, NEW b \in 1..Len(f) + 1, SameNodes(e, a, f, b)
  PROVE  ValuesFrom(e, n)[a] = ValuesFrom(f, n)[b]
<1> DEFINE E == ValuesFrom(e, n)
           F == ValuesFrom(f, n)
           L == Len(e) + 1 - a
           S == {m \in 0..L : E[Len(e) + 1 - m] = F[Len(f) + 1 - m]}
<1>0. Len(e) \in Nat /\ Len(f) \in Nat /\ L \in Nat /\ L = Len(f) + 1 - b
      /\ \A j \in 0..Len(e) - a : e[a + j] = f[b + j]
  BY DEF SameNodes
<1>1. 0 \in S
  <2>1. E[Len(e) + 1] = <<>> /\ F[Len(f) + 1] = <<>>
    BY ValuesAtEnd
  <2> HIDE DEF E, F
  <2> QED BY <1>0, <2>1
<1>2. ASSUME NEW m \in 0..L - 1, m \in S PROVE m + 1 \in S
  <2> DEFINE i == Len(e) - m
             k == Len(f) - m
  <2>1. i \in 1..Len(e) /\ k \in 1..Len(f) /\ i + 1 = Len(e) + 1 - m /\ k + 1 = Len(f) + 1 - m
        /\ i = Len(e) + 1 - (m + 1) /\ k = Len(f) + 1 - (m + 1) /\ m + 1 \in 0..L
    BY <1>0
  <2>2. i \in 1..Len(e)
    BY <2>1
  <2>3. k \in 1..Len(f)
    BY <2>1
  <2> HIDE DEF S, i, k
  <2>4. E[i] = IF e[i].name = n THEN <<e[i].value>> \o E[i + 1] ELSE E[i + 1]
    BY ONLY e \in Seq(V), <2>2, ValuesAt
  <2>5. F[k] = IF f[k].name = n THEN <<f[k].value>> \o F[k + 1] ELSE F[k + 1]
    BY ONLY f \in Seq(V), <2>3, ValuesAt
  <2> USE DEF S, i, k
  <2>6. e[i] = f[k]
    <3>1. i - a \in 0..Len(e) - a /\ a + (i - a) = i /\ b + (i - a) = k
      BY <1>0
    <3> HIDE DEF i, k
    <3> QED BY <1>0, <3>1
  <2>7. E[i + 1] = F[k + 1]
    BY <1>2, <2>1
  <2> HIDE DEF E, F, i, k
  <2>8. E[i] = F[k]
    BY <2>4, <2>5, <2>6, <2>7
  <2> QED BY <2>1, <2>8
<1>3. \A m \in 0..L : m \in S
  <2> HIDE DEF S, L
  <2>1. \A m \in 0..L - 1 : m \in S => m + 1 \in S
    BY <1>2
  <2> QED BY <1>0, <1>1, <2>1, Upward, Zenon
<1>4. L \in S /\ Len(e) + 1 - L = a /\ Len(f) + 1 - L = b
  <2>1. L \in 0..L
    BY <1>0
  <2>2. L \in S
    <3> HIDE DEF S, L
    <3> QED BY <1>3, <2>1
  <2> QED BY <1>0, <2>2
<1> HIDE DEF E, F, L
<1>5. E[a] = F[b]
  BY <1>4
<1> QED BY <1>5 DEF E, F

(* Two lists that agree before p and have the same values from p on.        *)
LEMMA SameFront ==
  ASSUME NEW V, NEW e \in Seq(V), NEW f \in Seq(V), NEW n,
         NEW p \in 1..Len(e) + 1, p <= Len(f) + 1,
         \A j \in 1..p - 1 : e[j] = f[j],
         ValuesFrom(e, n)[p] = ValuesFrom(f, n)[p]
  PROVE  ValuesFrom(e, n)[1] = ValuesFrom(f, n)[1]
<1> DEFINE E == ValuesFrom(e, n)
           F == ValuesFrom(f, n)
           S == {k \in 1..p : E[k] = F[k]}
           L == p - 1
<1>0. Len(e) \in Nat /\ Len(f) \in Nat /\ L \in Nat
  OBVIOUS
<1>1. L + 1 \in S
  BY <1>0
<1>2. ASSUME NEW k \in 1..L, k + 1 \in S PROVE k \in S
  <2>1. k \in 1..Len(e) /\ k \in 1..Len(f) /\ k \in 1..p - 1
    BY <1>0
  <2>2. E[k] = IF e[k].name = n THEN <<e[k].value>> \o E[k + 1] ELSE E[k + 1]
    BY <2>1, ValuesAt
  <2>3. F[k] = IF f[k].name = n THEN <<f[k].value>> \o F[k + 1] ELSE F[k + 1]
    BY <2>1, ValuesAt
  <2>4. e[k] = f[k] /\ E[k + 1] = F[k + 1]
    BY <1>2, <2>1
  <2> HIDE DEF E, F
  <2>5. E[k] = F[k]
    BY <2>2, <2>3, <2>4
  <2> QED BY <2>1, <2>5
<1>3. \A k \in 1..L + 1 : k \in S
  <2> HIDE DEF S, L
  <2>1. \A k \in 1..L : k + 1 \in S => k \in S
    BY <1>2
  <2> QED BY <1>0, <1>1, <2>1, Downward, Zenon
<1>4. 1 \in S
  <2>1. 1 \in 1..L + 1
    BY <1>0
  <2> HIDE DEF S, L
  <2> QED BY <1>3, <2>1
<1> QED BY <1>4

(* Nodes of other names make no difference. *)
LEMMA Skip ==
  ASSUME NEW V, NEW e \in Seq(V), NEW n, NEW p \in 1..Len(e) + 1,
         \A j \in 1..p - 1 : e[j].name # n
  PROVE  ValuesFrom(e, n)[1] = ValuesFrom(e, n)[p]
<1> DEFINE F == ValuesFrom(e, n)
           L == p - 1
           S == {k \in 1..p : F[k] = F[p]}
<1>0. Len(e) \in Nat /\ L \in Nat
  OBVIOUS
<1>1. L + 1 \in S
  BY <1>0
<1>2. ASSUME NEW k \in 1..L, k + 1 \in S PROVE k \in S
  <2>1. k \in 1..Len(e) /\ k \in 1..p - 1
    BY <1>0
  <2>2. F[k] = IF e[k].name = n THEN <<e[k].value>> \o F[k + 1] ELSE F[k + 1]
    BY <2>1, ValuesAt
  <2>3. e[k].name # n /\ F[k + 1] = F[p]
    BY <1>2, <2>1
  <2> HIDE DEF F
  <2>4. F[k] = F[p]
    BY <2>2, <2>3
  <2> QED BY <2>1, <2>4
<1>3. \A k \in 1..L + 1 : k \in S
  <2> HIDE DEF S, L
  <2>1. \A k \in 1..L : k + 1 \in S => k \in S
    BY <1>2
  <2> QED BY <1>0, <1>1, <2>1, Downward, Zenon
<1>4. 1 \in S
  <2>1. 1 \in 1..L + 1
    BY <1>0
  <2> HIDE DEF S, L
  <2> QED BY <1>3, <2>1
<1> QED BY <1>4

(* The first node of a name. *)
LEMMA FirstNode ==
  ASSUME NEW V, NEW e \in Seq(V), NEW n, HasName(e, n)
  PROVE  /\ First(e, n) \in 1..Len(e) /\ e[First(e, n)].name = n
         /\ \A j \in 1..First(e, n) - 1 : e[j].name # n
<1> DEFINE at == {k \in DOMAIN e : e[k].name = n}
<1>1. DOMAIN e = 1..Len(e) /\ Len(e) \in Nat
  OBVIOUS
<1>2. at \in SUBSET Nat /\ at # {}
  BY <1>1 DEF HasName
<1>3. Min(at) \in at /\ \A k \in at : Min(at) <= k
  <2> HIDE DEF at
  <2> QED BY <1>2, MinIsLeast
<1>4. ASSUME NEW j \in 1..Min(at) - 1 PROVE e[j].name # n
  <2>1. j \in 1..Len(e) /\ ~(Min(at) <= j)
    <3> HIDE DEF at
    <3>1. Min(at) \in 1..Len(e)
      BY <1>1, <1>3 DEF at
    <3> QED BY <3>1, <1>1
  <2> QED BY <1>1, <1>3, <2>1
<1>5. Min(at) \in 1..Len(e) /\ e[Min(at)].name = n
  BY <1>1, <1>3
<1> QED BY <1>4, <1>5 DEF First

(* The values of a name, by its first node. *)
LEMMA ValuesSplit ==
  ASSUME NEW V, NEW e \in Seq([name : Names, value : V]), NEW n
  PROVE  /\ ~HasName(e, n) => ValuesFrom(e, n)[1] = <<>>
         /\ HasName(e, n) =>
              ValuesFrom(e, n)[1] = <<e[First(e, n)].value>> \o ValuesFrom(e, n)[First(e, n) + 1]
<1> DEFINE F == ValuesFrom(e, n)
<1>0. Len(e) \in Nat /\ DOMAIN e = 1..Len(e)
  OBVIOUS
<1>1. ASSUME ~HasName(e, n) PROVE F[1] = <<>>
  <2>1. \A j \in 1..(Len(e) + 1) - 1 : e[j].name # n
    BY <1>0, <1>1 DEF HasName
  <2>2. Len(e) + 1 \in 1..Len(e) + 1
    BY <1>0
  <2>3. F[1] = F[Len(e) + 1]
    BY <2>1, <2>2, Skip
  <2> QED BY <2>3, ValuesAtEnd
<1>2. ASSUME HasName(e, n) PROVE F[1] = <<e[First(e, n)].value>> \o F[First(e, n) + 1]
  <2> DEFINE p == First(e, n)
  <2>1. p \in 1..Len(e) /\ e[p].name = n /\ \A j \in 1..p - 1 : e[j].name # n
    BY <1>2, FirstNode
  <2> HIDE DEF p
  <2>2. p \in 1..Len(e) + 1
    BY <1>0, <2>1
  <2>3. F[1] = F[p]
    BY <2>1, <2>2, Skip
  <2>4. F[p] = <<e[p].value>> \o F[p + 1]
    BY <2>1, ValuesAt
  <2> QED BY <2>3, <2>4 DEF p
<1> QED BY <1>1, <1>2

(* A lookup finds the first of the values. *)
LEMMA GetIsHead ==
  ASSUME NEW V, NEW e \in Seq([name : Names, value : V]), NEW n
  PROVE  /\ ValuesFrom(e, n)[1] \in Seq(V)
         /\ HasName(e, n) <=> ValuesFrom(e, n)[1] # <<>>
         /\ HasName(e, n) => Get(e, n) \in V /\ Get(e, n) = Head(ValuesFrom(e, n)[1])
         /\ ~HasName(e, n) => Get(e, n) = Absent
<1> DEFINE F == ValuesFrom(e, n)
           p == First(e, n)
<1>0. Len(e) \in Nat
  OBVIOUS
<1>1. \A k \in 1..Len(e) + 1 : F[k] \in Seq(V)
  BY ValuesFromType
<1>2. F[1] \in Seq(V)
  BY <1>0, <1>1
<1>3. ASSUME HasName(e, n)
      PROVE  F[1] # <<>> /\ Get(e, n) \in V /\ Get(e, n) = Head(F[1])
  <2>1. p \in 1..Len(e)
    BY <1>3, FirstNode
  <2>2. F[1] = <<e[p].value>> \o F[p + 1]
    BY <1>3, ValuesSplit
  <2>3. e[p] \in [name : Names, value : V]
    BY <2>1, ElementOfSeq
  <2>4. Get(e, n) = e[p].value
    BY <1>3 DEF Get
  <2>5. F[p + 1] \in Seq(V)
    BY <1>0, <1>1, <2>1
  <2> HIDE DEF F, p
  <2>6. e[p].value \in V
    BY <2>3
  <2> QED BY <2>2, <2>4, <2>5, <2>6, OnTop
<1>4. ~HasName(e, n) => F[1] = <<>> /\ Get(e, n) = Absent
  BY ValuesSplit DEF Get
<1> QED BY <1>2, <1>3, <1>4

-----------------------------------------------------------------------------
(* What an insertion and a removal do to the nodes. *)
LEMMA InsertAtNodes ==
  ASSUME NEW S, NEW e \in Seq(S), NEW p \in 1..Len(e) + 1, NEW x \in S
  PROVE  /\ InsertAt(e, p, x) \in Seq(S) /\ Len(InsertAt(e, p, x)) = Len(e) + 1
         /\ InsertAt(e, p, x)[p] = x
         /\ \A j \in 1..p - 1 : InsertAt(e, p, x)[j] = e[j]
         /\ \A j \in p..Len(e) : InsertAt(e, p, x)[j + 1] = e[j]
<1> DEFINE a == SubSeq(e, 1, p - 1)
           b == SubSeq(e, p, Len(e))
           m == a \o <<x>>
           f == m \o b
<1>0. Len(e) \in Nat /\ p \in Nat /\ <<x>> \in Seq(S) /\ Len(<<x>>) = 1 /\ <<x>>[1] = x
  OBVIOUS
<1>1. a \in Seq(S) /\ Len(a) = p - 1 /\ \A j \in 1..p - 1 : a[j] = e[j]
  BY <1>0, SubSeqProperties
<1>2. b \in Seq(S) /\ Len(b) = Len(e) + 1 - p /\ \A j \in 1..Len(e) + 1 - p : b[j] = e[p + j - 1]
  BY <1>0, SubSeqProperties
<1> HIDE DEF a, b
<1>3. m \in Seq(S) /\ Len(m) = p /\ \A j \in 1..p : m[j] = IF j <= p - 1 THEN a[j] ELSE <<x>>[j - (p - 1)]
  <2>1. Len(a) + Len(<<x>>) = p
    BY <1>0, <1>1
  <2> QED BY <1>0, <1>1, <2>1, ConcatProperties
<1>4. m[p] = x /\ \A j \in 1..p - 1 : m[j] = e[j]
  BY <1>0, <1>1, <1>3
<1> HIDE DEF m
<1>5. f \in Seq(S) /\ Len(f) = Len(e) + 1
      /\ \A j \in 1..Len(e) + 1 : f[j] = IF j <= p THEN m[j] ELSE b[j - p]
  <2>1. Len(m) + Len(b) = Len(e) + 1
    BY <1>0, <1>2, <1>3
  <2>2. f \in Seq(S) /\ Len(f) = Len(m) + Len(b)
        /\ \A j \in 1..Len(m) + Len(b) : f[j] = IF j <= Len(m) THEN m[j] ELSE b[j - Len(m)]
    BY <1>2, <1>3, ConcatProperties
  <2> HIDE DEF f
  <2> QED BY <1>3, <2>1, <2>2
<1> HIDE DEF f
<1>6. f[p] = x /\ \A j \in 1..p - 1 : f[j] = e[j]
  BY <1>0, <1>4, <1>5
<1>7. ASSUME NEW j \in p..Len(e) PROVE f[j + 1] = e[j]
  <2>1. j + 1 \in 1..Len(e) + 1 /\ ~(j + 1 <= p) /\ (j + 1) - p \in 1..Len(e) + 1 - p
        /\ p + ((j + 1) - p) - 1 = j
    BY <1>0
  <2> QED BY <1>2, <1>5, <2>1
<1>8. f = InsertAt(e, p, x)
  BY DEF f, m, a, b, InsertAt
<1> QED BY <1>5, <1>6, <1>7, <1>8

LEMMA RemoveAtNodes ==
  ASSUME NEW S, NEW e \in Seq(S), NEW p \in 1..Len(e)
  PROVE  /\ RemoveAt(e, p) \in Seq(S) /\ Len(RemoveAt(e, p)) = Len(e) - 1
         /\ \A j \in 1..p - 1 : RemoveAt(e, p)[j] = e[j]
         /\ \A j \in p..Len(e) - 1 : RemoveAt(e, p)[j] = e[j + 1]
<1> DEFINE a == SubSeq(e, 1, p - 1)
           b == SubSeq(e, p + 1, Len(e))
           f == a \o b
<1>0. Len(e) \in Nat /\ p \in Nat
  OBVIOUS
<1>1. a \in Seq(S) /\ Len(a) = p - 1 /\ \A j \in 1..p - 1 : a[j] = e[j]
  BY <1>0, SubSeqProperties
<1>2. b \in Seq(S) /\ Len(b) = Len(e) - p /\ \A j \in 1..Len(e) - p : b[j] = e[p + j]
  BY <1>0, SubSeqProperties
<1> HIDE DEF a, b
<1>3. f \in Seq(S) /\ Len(f) = Len(e) - 1
      /\ \A j \in 1..Len(e) - 1 : f[j] = IF j <= p - 1 THEN a[j] ELSE b[j - (p - 1)]
  <2>1. Len(a) + Len(b) = Len(e) - 1
    BY <1>0, <1>1, <1>2
  <2>2. f \in Seq(S) /\ Len(f) = Len(a) + Len(b)
        /\ \A j \in 1..Len(a) + Len(b) : f[j] = IF j <= Len(a) THEN a[j] ELSE b[j - Len(a)]
    BY <1>1, <1>2, ConcatProperties
  <2> HIDE DEF f
  <2> QED BY <1>1, <2>1, <2>2
<1> HIDE DEF f
<1>4. \A j \in 1..p - 1 : f[j] = e[j]
  BY <1>0, <1>1, <1>3
<1>5. ASSUME NEW j \in p..Len(e) - 1 PROVE f[j] = e[j + 1]
  <2>1. j \in 1..Len(e) - 1 /\ ~(j <= p - 1) /\ j - (p - 1) \in 1..Len(e) - p
        /\ p + (j - (p - 1)) = j + 1
    BY <1>0
  <2> QED BY <1>2, <1>3, <2>1
<1>6. f = RemoveAt(e, p)
  BY DEF f, a, b, RemoveAt
<1> QED BY <1>3, <1>4, <1>5, <1>6

-----------------------------------------------------------------------------
(* update_env_var and insert_env_node give the name its value, on top of    *)
(* what it has underneath, and leave the other names alone.                 *)
LEMMA UpdateValues ==
  ASSUME NEW e \in Seq(Nodes), NEW n \in Names, NEW v \in Vals, v # NoValue, HasName(e, n)
  PROVE  /\ Update(e, n, v) \in Seq(Nodes)
         /\ ValuesFrom(Update(e, n, v), n)[1] = <<v>> \o Tail(ValuesFrom(e, n)[1])
         /\ \A m : m # n => ValuesFrom(Update(e, n, v), m)[1] = ValuesFrom(e, m)[1]
<1> DEFINE p == First(e, n)
           x == [e[p] EXCEPT !.value = v]
           f == [e EXCEPT ![p] = x]
<1>0. e \in Seq([name : Names, value : Vals]) /\ Len(e) \in Nat
  BY DEF Nodes
<1>1. p \in 1..Len(e) /\ e[p].name = n /\ \A j \in 1..p - 1 : e[j].name # n
  BY FirstNode
<1>2. ValuesFrom(e, n)[1] = <<e[p].value>> \o ValuesFrom(e, n)[p + 1]
  BY <1>0, ValuesSplit
<1>3. f = Update(e, n, v)
  BY DEF Update
<1> HIDE DEF p
<1>4. e[p] \in Nodes
  BY <1>1, ElementOfSeq
<1>5. x \in Nodes /\ x.name = n /\ x.value = v
  BY <1>1, <1>4 DEF Nodes
<1>6. e[p].value \in Vals
  BY <1>4 DEF Nodes
<1> HIDE DEF x
<1>7. f \in Seq(Nodes) /\ Len(f) = Len(e) /\ \A j \in 1..Len(e) : f[j] = IF j = p THEN x ELSE e[j]
  BY <1>1, <1>5, ExceptSeq
<1> HIDE DEF f
<1>8. p + 1 \in 1..Len(e) + 1 /\ p \in 1..Len(e) + 1 /\ p \in 1..Len(f)
  BY <1>0, <1>1, <1>7
<1>9. \A j \in 1..p - 1 : f[j] = e[j]
  BY <1>0, <1>1, <1>7
<1>10. ASSUME NEW m PROVE ValuesFrom(f, m)[p + 1] = ValuesFrom(e, m)[p + 1]
  <2> DEFINE a == p + 1
  <2>1. \A j \in 0..Len(e) - a : e[a + j] = f[a + j]
    BY <1>0, <1>1, <1>7
  <2>2. a \in 1..Len(e) + 1 /\ a \in 1..Len(f) + 1 /\ Len(e) - a = Len(f) - a
    BY <1>7, <1>8
  <2> HIDE DEF a
  <2>3. ValuesFrom(e, m)[a] = ValuesFrom(f, m)[a]
    <3>1. SameNodes(e, a, f, a)
      BY <2>1, <2>2 DEF SameNodes
    <3> QED BY <1>7, <2>2, <3>1, SameRest
  <2> QED BY <2>3 DEF a
<1>11. ValuesFrom(f, n)[1] = <<v>> \o Tail(ValuesFrom(e, n)[1])
  <2>1. \A j \in 1..p - 1 : f[j].name # n
    BY <1>1, <1>9
  <2>2. p \in 1..Len(f) + 1
    BY <1>7, <1>8
  <2>3. ValuesFrom(f, n)[1] = ValuesFrom(f, n)[p]
    BY <1>7, <2>1, <2>2, Skip
  <2>4. ValuesFrom(f, n)[p] = <<f[p].value>> \o ValuesFrom(f, n)[p + 1]
    <3>1. f[p].name = n
      BY <1>1, <1>5, <1>7
    <3> QED BY <1>7, <1>8, <3>1, ValuesAt
  <2>5. f[p].value = v
    BY <1>1, <1>5, <1>7
  <2>6. ValuesFrom(e, n)[p + 1] \in Seq(Vals)
    BY <1>0, <1>8, ValuesFromType
  <2>7. Tail(ValuesFrom(e, n)[1]) = ValuesFrom(e, n)[p + 1]
    BY <1>2, <1>6, <2>6, OnTop
  <2> QED BY <1>10, <2>3, <2>4, <2>5, <2>7
<1>12. ASSUME NEW m, m # n PROVE ValuesFrom(f, m)[1] = ValuesFrom(e, m)[1]
  <2>1. e[p].name # m /\ f[p].name # m
    BY <1>1, <1>5, <1>7, <1>12
  <2>2. ValuesFrom(e, m)[p] = ValuesFrom(e, m)[p + 1]
    BY <1>1, <2>1, ValuesBehind
  <2>3. ValuesFrom(f, m)[p] = ValuesFrom(f, m)[p + 1]
    BY <1>7, <1>8, <2>1, ValuesBehind
  <2>4. ValuesFrom(e, m)[p] = ValuesFrom(f, m)[p]
    BY <1>10, <2>2, <2>3
  <2>5. p <= Len(f) + 1 /\ \A j \in 1..p - 1 : e[j] = f[j]
    BY <1>0, <1>7, <1>8, <1>9
  <2> QED BY <1>7, <1>8, <2>4, <2>5, SameFront
<1> QED BY <1>3, <1>7, <1>11, <1>12

LEMMA InsertValues ==
  ASSUME NEW e \in Seq(Nodes), NEW n \in Names, NEW v \in Vals, ~HasName(e, n),
         NEW p \in 1..Len(e) + 1
  PROVE  /\ InsertAt(e, p, [name |-> n, value |-> v]) \in Seq(Nodes)
         /\ ValuesFrom(InsertAt(e, p, [name |-> n, value |-> v]), n)[1] = <<v>>
         /\ \A m : m # n => ValuesFrom(InsertAt(e, p, [name |-> n, value |-> v]), m)[1]
                            = ValuesFrom(e, m)[1]
<1> DEFINE x == [name |-> n, value |-> v]
           f == InsertAt(e, p, x)
<1>0. e \in Seq([name : Names, value : Vals]) /\ Len(e) \in Nat /\ DOMAIN e = 1..Len(e) /\ p \in Nat
  BY DEF Nodes
<1>1. x \in Nodes /\ x.name = n /\ x.value = v
  BY DEF Nodes
<1> HIDE DEF x
<1>2. /\ f \in Seq(Nodes) /\ Len(f) = Len(e) + 1 /\ f[p] = x
      /\ \A j \in 1..p - 1 : f[j] = e[j]
      /\ \A j \in p..Len(e) : f[j + 1] = e[j]
  BY <1>1, InsertAtNodes
<1> HIDE DEF f
<1>3. p \in 1..Len(f) /\ p \in 1..Len(f) + 1 /\ p + 1 \in 1..Len(f) + 1
  BY <1>0, <1>2
<1>4. ASSUME NEW m PROVE ValuesFrom(f, m)[p + 1] = ValuesFrom(e, m)[p]
  <2> DEFINE b == p + 1
  <2>1. Len(e) - p = Len(f) - b /\ b \in 1..Len(f) + 1
    BY <1>0, <1>2
  <2>2. ASSUME NEW j \in 0..Len(e) - p PROVE e[p + j] = f[b + j]
    <3>1. p + j \in p..Len(e) /\ (p + j) + 1 = b + j
      BY <1>0
    <3> HIDE DEF b
    <3> QED BY <1>2, <3>1
  <2> HIDE DEF b
  <2>3. ValuesFrom(e, m)[p] = ValuesFrom(f, m)[b]
    <3>1. SameNodes(e, p, f, b)
      BY <2>1, <2>2 DEF SameNodes
    <3> QED BY <1>2, <2>1, <3>1, SameRest
  <2> QED BY <2>3 DEF b
<1>5. ValuesFrom(f, n)[1] = <<v>>
  <2>1. \A j \in 1..p - 1 : f[j].name # n
    <3>1. \A j \in 1..p - 1 : j \in DOMAIN e
      BY <1>0
    <3> QED BY <1>2, <3>1 DEF HasName
  <2>2. ValuesFrom(f, n)[1] = ValuesFrom(f, n)[p]
    BY <1>2, <1>3, <2>1, Skip
  <2>3. f[p].name = n /\ f[p].value = v
    BY <1>1, <1>2
  <2>4. ValuesFrom(f, n)[p] = <<v>> \o ValuesFrom(f, n)[p + 1]
    <3>1. ValuesFrom(f, n)[p] = <<f[p].value>> \o ValuesFrom(f, n)[p + 1]
      <4>1. f \in Seq(Nodes) /\ p \in 1..Len(f) /\ f[p].name = n
        BY <1>2, <1>3, <2>3
      <4> QED BY ONLY <4>1, ValuesHere
    <3> QED BY <2>3, <3>1
  <2>5. \A j \in 1..p - 1 : e[j].name # n
    <3>1. \A j \in 1..p - 1 : j \in DOMAIN e
      BY <1>0
    <3> QED BY <3>1 DEF HasName
  <2>6. ValuesFrom(e, n)[1] = ValuesFrom(e, n)[p]
    BY <2>5, Skip
  <2>7. ValuesFrom(e, n)[1] = <<>>
    BY <1>0, ValuesSplit
  <2>8. <<v>> \o <<>> = <<v>>
    OBVIOUS
  <2> QED BY <1>4, <2>2, <2>4, <2>6, <2>7, <2>8
<1>6. ASSUME NEW m, m # n PROVE ValuesFrom(f, m)[1] = ValuesFrom(e, m)[1]
  <2>1. f[p].name # m
    BY <1>1, <1>2, <1>6
  <2>2. ValuesFrom(f, m)[p] = ValuesFrom(f, m)[p + 1]
    BY <1>2, <1>3, <2>1, ValuesBehind
  <2>3. ValuesFrom(e, m)[p] = ValuesFrom(f, m)[p]
    BY <1>4, <2>2
  <2>4. p <= Len(f) + 1 /\ \A j \in 1..p - 1 : e[j] = f[j]
    BY <1>0, <1>2, <1>3
  <2> QED BY <1>2, <2>3, <2>4, SameFront
<1> QED BY <1>2, <1>5, <1>6 DEF x, f

(* update_env_var, else insert_env_node: what export and cd do to a name.   *)
LEMMA PutValues ==
  ASSUME NEW e \in Seq(Nodes), NEW n \in Names, NEW v \in Vals
  PROVE  /\ Put(e, n, v) \in Seq(Nodes)
         /\ ValuesFrom(Put(e, n, v), n)[1] = Abs!Assigned(ValuesFrom(e, n)[1], v)
         /\ \A m : m # n => ValuesFrom(Put(e, n, v), m)[1] = ValuesFrom(e, m)[1]
<1>0. e \in Seq([name : Names, value : Vals])
  BY DEF Nodes
<1>1. HasName(e, n) <=> ValuesFrom(e, n)[1] # <<>>
  BY <1>0, GetIsHead
<1>2. CASE HasName(e, n) /\ v = NoValue
  BY <1>1, <1>2 DEF Put, Update, Abs!Assigned
<1>3. CASE HasName(e, n) /\ v # NoValue
  <2>1. Put(e, n, v) = Update(e, n, v)
    BY <1>3 DEF Put
  <2>2. Abs!Assigned(ValuesFrom(e, n)[1], v) = <<v>> \o Tail(ValuesFrom(e, n)[1])
    BY <1>1, <1>3 DEF Abs!Assigned
  <2>3. v # NoValue /\ HasName(e, n)
    BY <1>3
  <2> QED BY <2>1, <2>2, <2>3, UpdateValues
<1>4. CASE ~HasName(e, n)
  <2> DEFINE after == {k \in DOMAIN e : n < e[k].name} \cup {Len(e) + 1}
  <2>1. Len(e) \in Nat /\ DOMAIN e = 1..Len(e)
    OBVIOUS
  <2>2. after \in SUBSET (1..Len(e) + 1) /\ after \in SUBSET Nat /\ after # {}
    BY <2>1
  <2> HIDE DEF after
  <2>3. Min(after) \in 1..Len(e) + 1
    BY <2>2, MinIsLeast
  <2>4. InsertPosition(e, n) \in 1..Len(e) + 1
    BY <2>3 DEF InsertPosition, after
  <2>5. Put(e, n, v) = InsertAt(e, InsertPosition(e, n), [name |-> n, value |-> v])
    BY <1>4 DEF Put
  <2>6. Abs!Assigned(ValuesFrom(e, n)[1], v) = <<v>>
    BY <1>1, <1>4 DEF Abs!Assigned
  <2> QED BY <1>4, <2>4, <2>5, <2>6, InsertValues
<1> QED BY <1>2, <1>3, <1>4

(* delete_env_var uncovers the value underneath. *)
LEMMA DeleteValues ==
  ASSUME NEW e \in Seq(Nodes), NEW n \in Names
  PROVE  /\ Delete(e, n) \in Seq(Nodes)
         /\ HasName(e, n) => ValuesFrom(Delete(e, n), n)[1] = Tail(ValuesFrom(e, n)[1])
         /\ ~HasName(e, n) => Delete(e, n) = e
         /\ \A m : m # n => ValuesFrom(Delete(e, n), m)[1] = ValuesFrom(e, m)[1]
<1>1. CASE ~HasName(e, n)
  BY <1>1 DEF Delete
<1>2. CASE HasName(e, n)
  <2> DEFINE p == First(e, n)
             f == RemoveAt(e, p)
  <2>0. e \in Seq([name : Names, value : Vals]) /\ Len(e) \in Nat
    BY DEF Nodes
  <2>1. p \in 1..Len(e) /\ e[p].name = n /\ \A j \in 1..p - 1 : e[j].name # n
    BY <1>2, FirstNode
  <2>2. ValuesFrom(e, n)[1] = <<e[p].value>> \o ValuesFrom(e, n)[p + 1]
    BY <1>2, <2>0, ValuesSplit
  <2>3. f = Delete(e, n)
    BY <1>2 DEF Delete
  <2> HIDE DEF p
  <2>4. /\ f \in Seq(Nodes) /\ Len(f) = Len(e) - 1
        /\ \A j \in 1..p - 1 : f[j] = e[j]
        /\ \A j \in p..Len(e) - 1 : f[j] = e[j + 1]
    BY <2>1, RemoveAtNodes
  <2> HIDE DEF f
  <2>5. p \in 1..Len(f) + 1 /\ p + 1 \in 1..Len(e) + 1 /\ p \in 1..Len(e) + 1 /\ p <= Len(f) + 1
    BY <2>0, <2>1, <2>4
  <2>6. ASSUME NEW m PROVE ValuesFrom(f, m)[p] = ValuesFrom(e, m)[p + 1]
    <3> DEFINE a == p + 1
    <3>1. Len(e) - a = Len(f) - p /\ a \in 1..Len(e) + 1
      BY <2>0, <2>1, <2>4
    <3>2. ASSUME NEW j \in 0..Len(e) - a PROVE e[a + j] = f[p + j]
      <4>1. p + j \in p..Len(e) - 1 /\ (p + j) + 1 = a + j
        BY <2>0, <2>1
      <4> HIDE DEF a
      <4> QED BY <2>4, <4>1
    <3> HIDE DEF a
    <3>3. ValuesFrom(e, m)[a] = ValuesFrom(f, m)[p]
      <4>1. SameNodes(e, a, f, p)
        BY <3>1, <3>2 DEF SameNodes
      <4> QED BY <2>4, <2>5, <3>1, <4>1, SameRest
    <3> QED BY <3>3 DEF a
  <2>7. ValuesFrom(f, n)[1] = Tail(ValuesFrom(e, n)[1])
    <3>1. \A j \in 1..p - 1 : f[j].name # n
      BY <2>1, <2>4
    <3>2. ValuesFrom(f, n)[1] = ValuesFrom(f, n)[p]
      BY <2>4, <2>5, <3>1, Skip
    <3>3. e[p] \in Nodes
      BY <2>1, ElementOfSeq
    <3>4. e[p].value \in Vals
      BY <3>3 DEF Nodes
    <3>5. ValuesFrom(e, n)[p + 1] \in Seq(Vals)
      BY <2>0, <2>5, ValuesFromType
    <3>6. Tail(ValuesFrom(e, n)[1]) = ValuesFrom(e, n)[p + 1]
      BY <2>2, <3>4, <3>5, OnTop
    <3> QED BY <2>6, <3>2, <3>6
  <2>8. ASSUME NEW m, m # n PROVE ValuesFrom(f, m)[1] = ValuesFrom(e, m)[1]
    <3>1. ValuesFrom(e, m)[p] = ValuesFrom(e, m)[p + 1]
      <4>1. e[p].name # m
        BY <2>1, <2>8
      <4> QED BY <2>1, <4>1, ValuesBehind
    <3>2. ValuesFrom(e, m)[p] = ValuesFrom(f, m)[p]
      BY <2>6, <3>1
    <3>3. \A j \in 1..p - 1 : e[j] = f[j]
      BY <2>4
    <3> QED BY <2>4, <2>5, <3>2, <3>3, SameFront
  <2> QED BY <1>2, <2>3, <2>4, <2>7, <2>8
<1> QED BY <1>1, <1>2

(* The environment through execve: a name without a value gets "".          *)
Given(v)  == IF v = NoValue THEN Empty ELSE v
Mapped(s) == [k \in DOMAIN s |-> Given(s[k])]

LEMMA MappedOnTop ==
  ASSUME NEW v \in Vals, NEW s \in Seq(Vals)
  PROVE  /\ Mapped(s) \in Seq(Vals)
         /\ Mapped(<<v>> \o s) = <<Given(v)>> \o Mapped(s)
<1>0. Len(s) \in Nat /\ DOMAIN s = 1..Len(s) /\ \A i \in 1..Len(s) : s[i] \in Vals
  BY ElementOfSeq
<1>1. \A w \in Vals : Given(w) \in Vals
  BY DEF Given, Vals
<1>2. Mapped(s) \in Seq(Vals) /\ Len(Mapped(s)) = Len(s) /\ \A i \in 1..Len(s) : Mapped(s)[i] = Given(s[i])
  BY <1>0, <1>1 DEF Mapped
<1>3. <<v>> \in Seq(Vals) /\ Len(<<v>>) = 1 /\ <<v>>[1] = v
  OBVIOUS
<1>4. <<Given(v)>> \in Seq(Vals) /\ Len(<<Given(v)>>) = 1 /\ <<Given(v)>>[1] = Given(v)
  BY <1>1
<1> DEFINE c == <<v>> \o s
           d == <<Given(v)>> \o Mapped(s)
<1>5. c \in Seq(Vals) /\ Len(c) = 1 + Len(s)
      /\ \A i \in 1..1 + Len(s) : c[i] = IF i <= 1 THEN <<v>>[i] ELSE s[i - 1]
  BY <1>3, ConcatProperties
<1>6. d \in Seq(Vals) /\ Len(d) = 1 + Len(s)
      /\ \A i \in 1..1 + Len(s) : d[i] = IF i <= 1 THEN <<Given(v)>>[i] ELSE Mapped(s)[i - 1]
  BY <1>2, <1>4, ConcatProperties
<1> HIDE DEF c, d
<1>7. DOMAIN c = 1..1 + Len(s) /\ \A i \in 1..1 + Len(s) : c[i] \in Vals
  BY <1>5, ElementOfSeq
<1>8. Mapped(c) \in Seq(Vals) /\ Len(Mapped(c)) = 1 + Len(s)
      /\ \A i \in 1..1 + Len(s) : Mapped(c)[i] = Given(c[i])
  BY <1>0, <1>1, <1>7 DEF Mapped
<1>9. ASSUME NEW i \in 1..1 + Len(s) PROVE Mapped(c)[i] = d[i]
  <2>1. CASE i = 1
    BY <1>3, <1>4, <1>5, <1>6, <1>8, <2>1
  <2>2. CASE i # 1
    <3>1. i - 1 \in 1..Len(s) /\ ~(i <= 1)
      BY <1>0, <2>2
    <3> QED BY <1>2, <1>5, <1>6, <1>8, <3>1
  <2> QED BY <2>1, <2>2
<1>10. Mapped(c) = d
  <2>1. \A i \in 1..Len(d) : Mapped(c)[i] = d[i]
    BY <1>6, <1>9
  <2> QED BY <1>6, <1>8, <2>1, SeqEqual
<1> QED BY <1>2, <1>10 DEF c, d

LEMMA SavedValues ==
  ASSUME NEW e \in Seq(Nodes)
  PROVE  /\ SaveEnv(EnvlistToArray(e)) \in Seq(Nodes)
         /\ \A n : ValuesFrom(SaveEnv(EnvlistToArray(e)), n)[1] = Mapped(ValuesFrom(e, n)[1])
<1> DEFINE f == SaveEnv(EnvlistToArray(e))
<1>0. e \in Seq([name : Names, value : Vals]) /\ Len(e) \in Nat /\ DOMAIN e = 1..Len(e)
  BY DEF Nodes
<1>1. f = [k \in 1..Len(e) |-> [name |-> e[k].name, value |-> Given(e[k].value)]]
  BY <1>0 DEF SaveEnv, EnvlistToArray, Given
<1> HIDE DEF f
<1>2. ASSUME NEW k \in 1..Len(e)
      PROVE  /\ e[k].value \in Vals
             /\ f[k] \in Nodes /\ f[k].name = e[k].name /\ f[k].value = Given(e[k].value)
  <2>1. e[k] \in Nodes
    BY ElementOfSeq
  <2>2. e[k].name \in Names /\ e[k].value \in Vals
    BY <2>1 DEF Nodes
  <2>3. Given(e[k].value) \in Vals
    BY <2>2 DEF Given, Vals
  <2> QED BY <1>1, <2>2, <2>3 DEF Nodes
<1>3. f \in Seq(Nodes) /\ Len(f) = Len(e)
  BY <1>0, <1>1, <1>2
<1>4. ASSUME NEW n PROVE ValuesFrom(f, n)[1] = Mapped(ValuesFrom(e, n)[1])
  <2> DEFINE E == ValuesFrom(e, n)
             F == ValuesFrom(f, n)
             S == {k \in 1..Len(e) + 1 : F[k] = Mapped(E[k])}
  <2>1. Len(e) + 1 \in S
    <3>1. E[Len(e) + 1] = <<>> /\ F[Len(e) + 1] = <<>>
      BY <1>3, ValuesAtEnd
    <3>2. Mapped(<<>>) = <<>>
      BY DEF Mapped
    <3> HIDE DEF E, F
    <3> QED BY <1>0, <3>1, <3>2
  <2>2. ASSUME NEW k \in 1..Len(e), k + 1 \in S PROVE k \in S
    <3>1. k \in 1..Len(f)
      BY <1>3
    <3>2. E[k] = IF e[k].name = n THEN <<e[k].value>> \o E[k + 1] ELSE E[k + 1]
      BY ONLY e \in Seq(Nodes), k \in 1..Len(e), ValuesAt
    <3>3. F[k] = IF f[k].name = n THEN <<f[k].value>> \o F[k + 1] ELSE F[k + 1]
      BY ONLY <1>3, <3>1, ValuesAt
    <3>4. E[k + 1] \in Seq(Vals)
      BY <1>0, ValuesFromType
    <3>5. F[k + 1] = Mapped(E[k + 1])
      BY <2>2
    <3> HIDE DEF E, F
    <3>6. Mapped(<<e[k].value>> \o E[k + 1]) = <<Given(e[k].value)>> \o Mapped(E[k + 1])
      BY <1>2, <3>4, MappedOnTop
    <3>7. F[k] = Mapped(E[k])
      BY <1>2, <3>2, <3>3, <3>5, <3>6
    <3> QED BY <1>0, <3>7
  <2>3. \A k \in 1..Len(e) + 1 : k \in S
    <3> HIDE DEF S
    <3>1. \A k \in 1..Len(e) : k + 1 \in S => k \in S
      BY <2>2
    <3> QED BY <1>0, <2>1, <3>1, Downward, Zenon
  <2>4. 1 \in S
    <3> HIDE DEF S
    <3> QED BY <1>0, <2>3
  <2> QED BY <2>4
<1> QED BY <1>3, <1>4 DEF f

-----------------------------------------------------------------------------
(* What a lookup finds after an assignment, and where nothing was assigned. *)
LEMMA GetValue ==
  ASSUME NEW e \in Seq(Nodes), NEW n
  PROVE  /\ Get(e, n) = IF ValuesFrom(e, n)[1] = <<>> THEN Absent ELSE Head(ValuesFrom(e, n)[1])
         /\ ValuesFrom(e, n)[1] \in Seq(Vals) /\ Get(e, n) \in Vals \cup {Absent}
<1>1. e \in Seq([name : Names, value : Vals])
  BY DEF Nodes
<1>2. /\ HasName(e, n) <=> ValuesFrom(e, n)[1] # <<>>
      /\ HasName(e, n) => Get(e, n) \in Vals /\ Get(e, n) = Head(ValuesFrom(e, n)[1])
      /\ ~HasName(e, n) => Get(e, n) = Absent
      /\ ValuesFrom(e, n)[1] \in Seq(Vals)
  BY <1>1, GetIsHead
<1> QED BY <1>2

LEMMA SameGet ==
  ASSUME NEW e \in Seq(Nodes), NEW f \in Seq(Nodes), NEW n,
         ValuesFrom(e, n)[1] = ValuesFrom(f, n)[1]
  PROVE  Get(e, n) = Get(f, n)
<1>1. Get(e, n) = IF ValuesFrom(e, n)[1] = <<>> THEN Absent ELSE Head(ValuesFrom(e, n)[1])
  BY GetValue
<1>2. Get(f, n) = IF ValuesFrom(f, n)[1] = <<>> THEN Absent ELSE Head(ValuesFrom(f, n)[1])
  BY GetValue
<1> QED BY <1>1, <1>2

LEMMA GetAssigned ==
  ASSUME NEW e \in Seq(Nodes), NEW n \in Names, NEW v \in Vals, v # NoValue
  PROVE  Get(Put(e, n, v), n) = v
<1> DEFINE f == Put(e, n, v)
           s == ValuesFrom(e, n)[1]
<1>0. f \in Seq(Nodes)
  BY PutValues
<1>1. ValuesFrom(f, n)[1] = Abs!Assigned(s, v)
  BY PutValues
<1>2. s \in Seq(Vals)
  BY GetValue
<1>5. Get(f, n) = IF ValuesFrom(f, n)[1] = <<>> THEN Absent ELSE Head(ValuesFrom(f, n)[1])
  BY <1>0, GetValue
<1> HIDE DEF f, s
<1>3. Abs!Assigned(s, v) # <<>> /\ Head(Abs!Assigned(s, v)) = v
  <2>1. CASE s = <<>>
    BY <2>1 DEF Abs!Assigned
  <2>2. CASE s # <<>>
    <3>1. Tail(s) \in Seq(Vals)
      BY <1>2, <2>2, HeadTailProperties
    <3>2. Abs!Assigned(s, v) = <<v>> \o Tail(s)
      BY <2>2 DEF Abs!Assigned
    <3> QED BY <3>1, <3>2, OnTop
  <2> QED BY <2>1, <2>2
<1>4. Get(f, n) = v
  BY <1>1, <1>3, <1>5
<1> QED BY <1>4 DEF f

LEMMA GetSaved ==
  ASSUME NEW e \in Seq(Nodes), NEW n, Get(e, n) \in Dirs
  PROVE  Get(SaveEnv(EnvlistToArray(e)), n) = Get(e, n)
<1> DEFINE f == SaveEnv(EnvlistToArray(e))
           s == ValuesFrom(e, n)[1]
<1>0. f \in Seq(Nodes)
  BY SavedValues
<1>1. ValuesFrom(f, n)[1] = Mapped(s)
  BY SavedValues
<1>2. Absent \notin Dirs /\ NoValue \notin Dirs
  BY EnvAssumption
<1>3. s \in Seq(Vals) /\ s # <<>> /\ Head(s) = Get(e, n)
  BY <1>2, GetValue
<1>7. Get(f, n) = IF ValuesFrom(f, n)[1] = <<>> THEN Absent ELSE Head(ValuesFrom(f, n)[1])
  BY <1>0, GetValue
<1> HIDE DEF s, f
<1>4. Mapped(s) # <<>> /\ Head(Mapped(s)) = Given(Head(s))
  <2>1. 1 \in DOMAIN s /\ Head(s) = s[1]
    BY <1>3
  <2>2. Mapped(s)[1] = Given(s[1]) /\ 1 \in DOMAIN Mapped(s)
    BY <2>1 DEF Mapped
  <2> QED BY <2>1, <2>2
<1>5. Given(Head(s)) = Get(e, n)
  BY <1>2, <1>3 DEF Given
<1>6. Get(f, n) = Get(e, n)
  BY <1>1, <1>4, <1>5, <1>7
<1> QED BY <1>6 DEF f

-----------------------------------------------------------------------------
(* The entries of an envp have names of Names.                              *)
LEMMA EnvpTypes == \A s \in EnvpNames : s \in Seq(Names)
<1> DEFINE once == UNION {SetToSeqs(S) : S \in SUBSET Names}
<1>1. ASSUME NEW s \in once PROVE s \in Seq(Names)
  <2>1. PICK S \in SUBSET Names : s \in SetToSeqs(S)
    BY <1>1
  <2>2. IsFiniteSet(S)
    BY EnvAssumption, FS_Subset
  <2>3. Cardinality(S) \in Nat
    BY <2>2, FS_CardinalityType
  <2>4. s \in [1..Cardinality(S) -> S]
    BY <2>1 DEF SetToSeqs
  <2>5. s \in [1..Cardinality(S) -> Names]
    BY <2>1, <2>4
  <2> QED BY <2>3, <2>5
<1>2. ASSUME NEW s \in once, NEW k \in DOMAIN s, NEW n \in Twice \cap ToSet(s)
      PROVE  InsertAt(s, k, n) \in Seq(Names)
  <2>1. s \in Seq(Names) /\ n \in Names
    BY <1>1, EnvAssumption
  <2>2. k \in 1..Len(s) + 1
    BY <2>1
  <2> QED BY <2>1, <2>2, InsertAtNodes
<1>3. ASSUME NEW s \in EnvpNames PROVE s \in Seq(Names)
  <2>1. s \in once \cup UNION {{InsertAt(t, k, n) : k \in DOMAIN t, n \in Twice \cap ToSet(t)} : t \in once}
    BY DEF EnvpNames
  <2>2. CASE s \in once
    BY <1>1, <2>2
  <2>3. CASE s \in UNION {{InsertAt(t, k, n) : k \in DOMAIN t, n \in Twice \cap ToSet(t)} : t \in once}
    <3> HIDE DEF once
    <3>1. PICK t \in once : s \in {InsertAt(t, k, n) : k \in DOMAIN t, n \in Twice \cap ToSet(t)}
      BY <2>3
    <3>2. PICK k \in DOMAIN t, n \in Twice \cap ToSet(t) : s = InsertAt(t, k, n)
      BY <3>1
    <3> QED BY <1>2, <3>2
  <2> QED BY <2>1, <2>2, <2>3
<1> QED BY <1>3

(* The values of an envp are directories; PWD, if it is there, is right.    *)
LEMMA InitEnv ==
  ASSUME Init
  PROVE  /\ env \in Seq([name : Names, value : Dirs \cup {Empty}])
         /\ env \in Seq(Nodes)
         /\ HasName(env, PWD) => Get(env, PWD) = cwd
<1>1. PICK s \in EnvpNames :
        env = SaveEnv([k \in DOMAIN s |-> [name |-> s[k], equals |-> TRUE,
                                          text |-> IF s[k] = PWD THEN cwd ELSE Root]])
  BY DEF Init
<1>2. s \in Seq(Names)
  BY EnvpTypes
<1>3. Len(s) \in Nat /\ DOMAIN s = 1..Len(s) /\ \A k \in 1..Len(s) : s[k] \in Names
  BY <1>2, ElementOfSeq
<1>4. env = [k \in 1..Len(s) |-> [name |-> s[k], value |-> IF s[k] = PWD THEN cwd ELSE Root]]
  BY <1>1, <1>3 DEF SaveEnv
<1>5. cwd \in Dirs /\ Root \in Dirs
  BY EnvAssumption DEF Init
<1>6. ASSUME NEW k \in 1..Len(s)
      PROVE  env[k] \in [name : Names, value : Dirs \cup {Empty}] /\ env[k] \in Nodes
             /\ (env[k].name = PWD => env[k].value = cwd)
  BY <1>3, <1>4, <1>5 DEF Nodes, Vals
<1>7. env \in Seq([name : Names, value : Dirs \cup {Empty}]) /\ env \in Seq(Nodes) /\ Len(env) = Len(s)
  <2> DEFINE Started == [name : Names, value : Dirs \cup {Empty}]
  <2>1. \A k \in 1..Len(s) : env[k] \in Started /\ env[k] \in Nodes
    BY <1>6
  <2>2. DOMAIN env = 1..Len(s) /\ env = [k \in 1..Len(s) |-> env[k]]
    BY <1>4
  <2> HIDE DEF Started
  <2>3. env \in [1..Len(s) -> Started] /\ env \in [1..Len(s) -> Nodes]
    BY <2>1, <2>2
  <2>4. env \in Seq(Started) /\ env \in Seq(Nodes) /\ Len(env) = Len(s)
    BY <1>3, <2>3
  <2> QED BY <2>4 DEF Started
<1>8. ASSUME HasName(env, PWD) PROVE Get(env, PWD) = cwd
  <2>1. First(env, PWD) \in 1..Len(env) /\ env[First(env, PWD)].name = PWD
    BY <1>7, <1>8, FirstNode
  <2>2. Get(env, PWD) = env[First(env, PWD)].value
    BY <1>8 DEF Get
  <2> HIDE DEF First
  <2> QED BY <1>6, <1>7, <2>1, <2>2
<1> QED BY <1>7, <1>8

(* The shell starts in the invariant. *)
LEMMA Initially == Init => IInv
<1> SUFFICES ASSUME Init PROVE IInv
  OBVIOUS
<1>1. env \in Seq(Nodes) /\ (HasName(env, PWD) => Get(env, PWD) = cwd)
  BY InitEnv
<1>2. cwd \in Dirs /\ exists = Dirs /\ prev = cwd /\ pwdOk = HasName(env, PWD) /\ oldOk = FALSE
  BY DEF Init
<1>3. pwdOk \in BOOLEAN
  BY <1>2 DEF HasName
<1>4. TypeOK
  BY <1>1, <1>2, <1>3, EnvAssumption DEF TypeOK, Nodes, Vals
<1>5. PwdAndOldPwd
  BY <1>1, <1>2 DEF PwdAndOldPwd
<1> QED BY <1>4, <1>5 DEF IInv

-----------------------------------------------------------------------------
(* What cd does to the list once chdir has succeeded: the list stays well   *)
(* formed, PWD has the new directory, OLDPWD what PWD had.                  *)
LEMMA NamesDiffer ==
  HOME \in Names /\ OLDPWD \in Names /\ PWD \in Names /\ OLDPWD # PWD
<1>1. HOME \in Names /\ OLDPWD \in Names /\ PWD \in Names /\ OLDPWD < PWD /\ Names \subseteq Int
  BY EnvAssumption
<1>2. OLDPWD \in Int /\ PWD \in Int
  BY <1>1
<1> QED BY <1>1, <1>2

LEMMA OldPwdValueType ==
  ASSUME TypeOK
  PROVE  OldPwdValue \in Vals /\ OldPwdValue # NoValue
<1>1. env \in Seq(Nodes)
  BY DEF TypeOK, Nodes, Vals
<1>2. Get(env, PWD) \in Vals \cup {Absent}
  BY <1>1, GetValue
<1> QED BY <1>2, EnvAssumption DEF OldPwdValue, IsNull, Vals

LEMMA MovedList ==
  ASSUME TypeOK, NEW d \in Dirs, NEW left, left = Put(env, OLDPWD, OldPwdValue),
         NEW both, both = Put(left, PWD, d)
  PROVE  /\ left \in Seq(Nodes) /\ both \in Seq(Nodes)
         /\ Get(left, OLDPWD) = OldPwdValue /\ Get(both, OLDPWD) = OldPwdValue
         /\ Get(both, PWD) = d
<1>1. env \in Seq(Nodes)
  BY DEF TypeOK, Nodes, Vals
<1>2. OldPwdValue \in Vals /\ OldPwdValue # NoValue
  BY OldPwdValueType
<1>3. d \in Vals /\ d # NoValue
  BY EnvAssumption DEF Vals
<1>4. left \in Seq(Nodes)
  BY <1>1, <1>2, NamesDiffer, PutValues
<1>5. both \in Seq(Nodes)
  BY <1>3, <1>4, NamesDiffer, PutValues
<1>6. Get(left, OLDPWD) = OldPwdValue
  BY <1>1, <1>2, NamesDiffer, GetAssigned
<1>7. Get(both, PWD) = d
  BY <1>3, <1>4, NamesDiffer, GetAssigned
<1>8. ValuesFrom(both, OLDPWD)[1] = ValuesFrom(left, OLDPWD)[1]
  BY <1>3, <1>4, NamesDiffer, PutValues
<1>9. Get(both, OLDPWD) = Get(left, OLDPWD)
  BY <1>4, <1>5, <1>8, SameGet
<1> QED BY <1>4, <1>5, <1>6, <1>7, <1>9

(* Once chdir has succeeded the environment follows, whether getcwd then    *)
(* succeeds or not.                                                         *)
LEMMA MovedKeeps ==
  ASSUME IInv, NEW d \in Dirs, Moved(d) \/ (MovedPwdStale(d) /\ d # Root)
  PROVE  IInv'
<1> USE DEF IInv
<1> DEFINE left == Put(env, OLDPWD, OldPwdValue)
           both == Put(left, PWD, d)
<1>1. /\ left \in Seq(Nodes) /\ both \in Seq(Nodes)
      /\ Get(left, OLDPWD) = OldPwdValue /\ Get(both, OLDPWD) = OldPwdValue
      /\ Get(both, PWD) = d
  <2> HIDE DEF IInv
  <2>1. TypeOK
    BY DEF IInv
  <2>2. \A l, b : l = left /\ b = Put(l, PWD, d) =>
          /\ l \in Seq(Nodes) /\ b \in Seq(Nodes)
          /\ Get(l, OLDPWD) = OldPwdValue /\ Get(b, OLDPWD) = OldPwdValue /\ Get(b, PWD) = d
    BY <2>1, MovedList
  <2> QED BY <2>2
<1>2. pwdOk => OldPwdValue = cwd
  <2>1. cwd \notin {NoValue, Absent}
    BY EnvAssumption DEF TypeOK
  <2> QED BY <2>1 DEF PwdAndOldPwd, OldPwdValue, IsNull
<1>3. /\ env' \in {left, both} /\ cwd' = d /\ prev' = cwd /\ oldOk' = pwdOk
      /\ pwdOk' \in BOOLEAN /\ (pwdOk' => env' = both)
      /\ exists' \subseteq Dirs /\ Root \in exists'
  BY DEF Moved, MovedPwdStale, TypeOK
<1> HIDE DEF left, both
<1>4. env' \in Seq(Nodes)
  BY <1>1, <1>3
<1>5. TypeOK'
  BY <1>3, <1>4 DEF TypeOK, Nodes, Vals
<1>6. Get(env', OLDPWD) = OldPwdValue
  BY <1>1, <1>3
<1>7. pwdOk' => Get(env', PWD) = cwd'
  BY <1>1, <1>3
<1>8. oldOk' => Get(env', OLDPWD) = prev'
  BY <1>2, <1>3, <1>6
<1> QED BY <1>5, <1>7, <1>8 DEF PwdAndOldPwd

(* The directories that cd goes to. *)
LEMMA ChangeDirectoryKeeps ==
  ASSUME IInv, NEW path, ChangeDirectory(path)
  PROVE  path \in Dirs /\ IInv'
<1>1. path \in Dirs
  BY DEF ChangeDirectory, IInv, TypeOK
<1>2. Moved(path) \/ (MovedPwdStale(path) /\ path # Root)
  BY DEF ChangeDirectory
<1> QED BY <1>1, <1>2, MovedKeeps

(* cd . in a removed directory, which is not the root.                      *)
LEMMA CdDotMoves ==
  ASSUME IInv, CdDot
  PROVE  cwd \in Dirs /\ (Moved(cwd) \/ (MovedPwdStale(cwd) /\ cwd # Root))
  BY DEF CdDot, IInv, TypeOK

(* An assignment or a removal by the user leaves the other names alone. *)
LEMMA OthersKept ==
  ASSUME IInv, env' \in Seq(Nodes), NEW n,
         \A m : m # n => ValuesFrom(env', m)[1] = ValuesFrom(env, m)[1],
         pwdOk' = (pwdOk /\ n # PWD) /\ oldOk' = (oldOk /\ n # OLDPWD),
         UNCHANGED <<cwd, exists, prev>>
  PROVE  IInv'
<1>1. env \in Seq(Nodes)
  BY DEF IInv, TypeOK, Nodes, Vals
<1>2. \A m : m # n => Get(env', m) = Get(env, m)
  BY <1>1, SameGet
<1>3. TypeOK'
  BY DEF IInv, TypeOK, Nodes, Vals
<1>4. pwdOk' => Get(env', PWD) = cwd'
  BY <1>2 DEF IInv, PwdAndOldPwd
<1>5. oldOk' => Get(env', OLDPWD) = prev'
  BY <1>2 DEF IInv, PwdAndOldPwd
<1> QED BY <1>3, <1>4, <1>5 DEF IInv, PwdAndOldPwd

(* Every step of the shell and of the other processes preserves it. *)
LEMMA Step == IInv /\ [Next]_vars => IInv'
<1> SUFFICES ASSUME IInv, [Next]_vars PROVE IInv'
  OBVIOUS
<1>0. env \in Seq(Nodes)
  BY DEF IInv, TypeOK, Nodes, Vals
<1>1. ASSUME NEW n \in Names, NEW v \in Dirs \cup {NoValue}, Export(n, v) PROVE IInv'
  <2>1. v \in Vals /\ env' = Put(env, n, v)
    BY <1>1 DEF Vals, Export
  <2>2. /\ env' \in Seq(Nodes)
        /\ \A m : m # n => ValuesFrom(env', m)[1] = ValuesFrom(env, m)[1]
    BY <1>0, <2>1, PutValues
  <2>3. /\ pwdOk' = (pwdOk /\ n # PWD) /\ oldOk' = (oldOk /\ n # OLDPWD)
        /\ UNCHANGED <<cwd, exists, prev>>
    BY <1>1 DEF Export
  <2> QED BY <2>2, <2>3, OthersKept
<1>2. ASSUME NEW n \in Names, Unset(n) PROVE IInv'
  <2>1. /\ env' \in Seq(Nodes)
        /\ \A m : m # n => ValuesFrom(env', m)[1] = ValuesFrom(env, m)[1]
    BY <1>0, <1>2, DeleteValues DEF Unset
  <2>2. /\ pwdOk' = (pwdOk /\ n # PWD) /\ oldOk' = (oldOk /\ n # OLDPWD)
        /\ UNCHANGED <<cwd, exists, prev>>
    BY <1>2 DEF Unset
  <2> QED BY <2>1, <2>2, OthersKept
<1>3. CASE CdWithArg
  BY <1>3, ChangeDirectoryKeeps DEF CdWithArg
<1>4. CASE CdDot
  BY <1>4, CdDotMoves, MovedKeeps
<1>5. CASE CdDash
  BY <1>5, ChangeDirectoryKeeps DEF CdDash
<1>6. CASE CdHome
  BY <1>6, ChangeDirectoryKeeps DEF CdHome
<1>7. CASE NestedShell
  <2>1. env' \in Seq(Nodes)
    BY <1>0, <1>7, SavedValues DEF NestedShell
  <2>2. UNCHANGED <<cwd, exists, prev, pwdOk, oldOk>>
    BY <1>7 DEF NestedShell, ghostVars
  <2>3. \A n : Get(env, n) \in Dirs => Get(env', n) = Get(env, n)
    BY <1>0, <1>7, GetSaved DEF NestedShell
  <2>4. TypeOK'
    BY <2>1, <2>2 DEF IInv, TypeOK, Nodes, Vals
  <2>5. PwdAndOldPwd'
    BY <2>2, <2>3 DEF IInv, TypeOK, PwdAndOldPwd
  <2> QED BY <2>4, <2>5 DEF IInv
<1>8. ASSUME NEW d \in Dirs, RemoveDir(d) \/ MakeDir(d) PROVE IInv'
  <2>1. UNCHANGED <<env, cwd, prev, pwdOk, oldOk>> /\ exists' \subseteq Dirs /\ Root \in exists'
    BY <1>8 DEF RemoveDir, MakeDir, ghostVars, IInv, TypeOK
  <2> QED BY <2>1 DEF IInv, TypeOK, PwdAndOldPwd
<1>9. CASE UNCHANGED vars
  BY <1>9 DEF vars, IInv, TypeOK, PwdAndOldPwd
<1> QED BY <1>1, <1>2, <1>3, <1>4, <1>5, <1>6, <1>7, <1>8, <1>9 DEF Next

(* The list, the directories and the two variables that cd keeps are always *)
(* in the inductive invariant.                                              *)
THEOREM Invariance == Spec => []IInv
<1>1. Init => IInv
  BY Initially
<1>2. IInv /\ [Next]_vars => IInv'
  BY Step
<1> QED BY <1>1, <1>2, PTL DEF Spec

(* The list always holds names and values, and the shell is in a directory. *)
THEOREM TypeCorrect == Spec => []TypeOK
<1>1. IInv => TypeOK
  BY DEF IInv
<1> QED BY <1>1, Invariance, PTL

(* cd keeps PWD on the working directory and OLDPWD on where it came from,  *)
(* until the user assigns them or getcwd fails (update_oldpwd, update_pwd). *)
THEOREM CdKeepsItsVariables == Spec => []PwdAndOldPwd
<1>1. IInv => PwdAndOldPwd
  BY DEF IInv
<1> QED BY <1>1, Invariance, PTL

-----------------------------------------------------------------------------
(* The one value per name that a list stands for. *)
AbsValue(e) == [n \in Names |-> ValuesFrom(e, n)[1]]

LEMMA PutAbs ==
  ASSUME NEW e \in Seq(Nodes), NEW n \in Names, NEW v \in Vals
  PROVE  AbsValue(Put(e, n, v)) = [AbsValue(e) EXCEPT ![n] = Abs!Assigned(@, v)]
<1>1. /\ ValuesFrom(Put(e, n, v), n)[1] = Abs!Assigned(ValuesFrom(e, n)[1], v)
      /\ \A m : m # n => ValuesFrom(Put(e, n, v), m)[1] = ValuesFrom(e, m)[1]
  BY PutValues
<1> QED BY <1>1 DEF AbsValue

LEMMA DeleteAbs ==
  ASSUME NEW e \in Seq(Nodes), NEW n \in Names, HasName(e, n)
  PROVE  AbsValue(Delete(e, n)) = [AbsValue(e) EXCEPT ![n] = Tail(@)]
<1>1. /\ ValuesFrom(Delete(e, n), n)[1] = Tail(ValuesFrom(e, n)[1])
      /\ \A m : m # n => ValuesFrom(Delete(e, n), m)[1] = ValuesFrom(e, m)[1]
  BY DeleteValues
<1> QED BY <1>1 DEF AbsValue

(* The shell starts where the abstract one may start. *)
LEMMA AbsInitially == Init => Abs!Init
<1> SUFFICES ASSUME Init PROVE Abs!Init
  OBVIOUS
<1> DEFINE V == Dirs \cup {Empty}
<1>1. env \in Seq([name : Names, value : V])
  BY InitEnv
<1>2. \A n \in Names : ValuesFrom(env, n)[1] \in Seq(V)
  <2> HIDE DEF V
  <2> QED BY <1>1, GetIsHead
<1>3. cwd \in Dirs
  BY DEF Init
<1> QED BY <1>2, <1>3 DEF Abs!Init, Values

(* export and unset of a name. *)
LEMMA ExportRefines ==
  ASSUME IInv, NEW n \in Names, NEW v \in Dirs \cup {NoValue}, Export(n, v)
  PROVE  Abs!Export(n, v)
<1>1. env \in Seq(Nodes) /\ v \in Vals
  BY DEF IInv, TypeOK, Nodes, Vals
<1>2. env' = Put(env, n, v) /\ cwd' = cwd
  BY DEF Export
<1>3. AbsValue(env') = [AbsValue(env) EXCEPT ![n] = Abs!Assigned(@, v)]
  BY <1>1, <1>2, PutAbs
<1> QED BY <1>2, <1>3 DEF Abs!Export, AbsValue, Values

LEMMA UnsetRefines ==
  ASSUME IInv, NEW n \in Names, Unset(n)
  PROVE  Abs!Unset(n) \/ UNCHANGED <<env, cwd>>
<1>1. env \in Seq(Nodes)
  BY DEF IInv, TypeOK, Nodes, Vals
<1>2. env' = Delete(env, n) /\ cwd' = cwd
  BY DEF Unset
<1>3. CASE HasName(env, n)
  <2>1. AbsValue(env') = [AbsValue(env) EXCEPT ![n] = Tail(@)]
    BY <1>1, <1>2, <1>3, DeleteAbs
  <2>2. env \in Seq([name : Names, value : Vals])
    BY <1>1 DEF Nodes
  <2>3. ValuesFrom(env, n)[1] # <<>>
    BY <1>3, <2>2, GetIsHead
  <2> QED BY <1>2, <2>1, <2>3 DEF Abs!Unset, AbsValue, Values
<1>4. CASE ~HasName(env, n)
  BY <1>1, <1>2, <1>4, DeleteValues
<1> QED BY <1>3, <1>4

(* What update_oldpwd stores is the value of PWD, "" without one.           *)
LEMMA LeavingIsOldPwdValue ==
  ASSUME IInv
  PROVE  Abs!Leaving = OldPwdValue
<1>1. env \in Seq(Nodes)
  BY DEF IInv, TypeOK, Nodes, Vals
<1>2. /\ Get(env, PWD) = IF ValuesFrom(env, PWD)[1] = <<>> THEN Absent
                         ELSE Head(ValuesFrom(env, PWD)[1])
      /\ ValuesFrom(env, PWD)[1] \in Seq(Vals)
  BY <1>1, GetValue
<1>3. ValuesFrom(env, PWD)[1] # <<>> => Head(ValuesFrom(env, PWD)[1]) # Absent
  <2>1. ASSUME ValuesFrom(env, PWD)[1] # <<>> PROVE Head(ValuesFrom(env, PWD)[1]) \in Vals
    BY <1>2, <2>1, HeadTailProperties
  <2> QED BY <2>1, EnvAssumption DEF Vals
<1> QED BY <1>2, <1>3, NamesDiffer DEF Abs!Leaving, Abs!IsSet, OldPwdValue, IsNull, Values

(* cd, whether getcwd succeeds or not. *)
LEMMA MoveRefines ==
  ASSUME IInv, NEW d \in Dirs, Moved(d) \/ MovedPwdStale(d)
  PROVE  Abs!Move(d)
<1> DEFINE left == Put(env, OLDPWD, OldPwdValue)
           both == Put(left, PWD, d)
<1>1. env \in Seq(Nodes) /\ TypeOK
  BY DEF IInv, TypeOK, Nodes, Vals
<1>2. OldPwdValue \in Vals /\ d \in Vals
  BY <1>1, OldPwdValueType DEF Vals
<1>3. left \in Seq(Nodes)
  BY <1>1, <1>2, NamesDiffer, PutValues
<1>4. AbsValue(left) = [AbsValue(env) EXCEPT ![OLDPWD] = Abs!Assigned(@, OldPwdValue)]
  BY <1>1, <1>2, NamesDiffer, PutAbs
<1>5. AbsValue(both) = [AbsValue(left) EXCEPT ![PWD] = Abs!Assigned(@, d)]
  <2> HIDE DEF left
  <2> QED BY <1>2, <1>3, NamesDiffer, PutAbs
<1>6. cwd' = d /\ (env' = left \/ env' = both)
  BY DEF Moved, MovedPwdStale
<1> HIDE DEF left, both
<1>7. AbsValue(env') \in {AbsValue(left), AbsValue(both)}
  BY <1>6
<1>8. LET l == [AbsValue(env) EXCEPT ![OLDPWD] = Abs!Assigned(@, Abs!Leaving)]
      IN  AbsValue(env') \in {l, [l EXCEPT ![PWD] = Abs!Assigned(@, d)]}
  BY <1>4, <1>5, <1>7, LeavingIsOldPwdValue
<1> QED BY <1>6, <1>8 DEF Abs!Move, AbsValue, Values

(* The shell started in itself. *)
LEMMA NestedShellRefines ==
  ASSUME IInv, NestedShell
  PROVE  Abs!NestedShell
<1>1. env \in Seq(Nodes)
  BY DEF IInv, TypeOK, Nodes, Vals
<1>2. \A n : ValuesFrom(env', n)[1] = Mapped(ValuesFrom(env, n)[1])
  BY <1>1, SavedValues DEF NestedShell
<1>3. cwd' = cwd
  BY DEF NestedShell
<1> QED BY <1>2, <1>3 DEF Abs!NestedShell, Values, Mapped, Given

(* Each step of the shell is one of the abstract shell, or is not seen.     *)
LEMMA StepRefines == IInv /\ [Next]_vars => [Abs!Next]_<<[n \in Names |-> Values(n)], cwd>>
<1> SUFFICES ASSUME IInv, [Next]_vars
             PROVE  Abs!Next \/ UNCHANGED <<[n \in Names |-> Values(n)], cwd>>
  OBVIOUS
<1>0. ASSUME UNCHANGED <<env, cwd>> PROVE UNCHANGED <<[n \in Names |-> Values(n)], cwd>>
  BY <1>0 DEF Values
<1>1. ASSUME NEW n \in Names, NEW v \in Dirs \cup {NoValue}, Export(n, v) PROVE Abs!Next
  BY <1>1, ExportRefines DEF Abs!Next
<1>2. ASSUME NEW n \in Names, Unset(n) PROVE Abs!Next \/ UNCHANGED <<env, cwd>>
  BY <1>2, UnsetRefines DEF Abs!Next
<1>3. ASSUME NEW path, ChangeDirectory(path) PROVE Abs!Next
  <2>1. path \in Dirs
    BY <1>3, ChangeDirectoryKeeps
  <2>2. Abs!Move(path)
    BY <1>3, <2>1, MoveRefines DEF ChangeDirectory
  <2> QED BY <2>1, <2>2 DEF Abs!Next
<1>4. CASE CdDot
  <2>1. cwd \in Dirs /\ Abs!Move(cwd)
    BY <1>4, CdDotMoves, MoveRefines
  <2> QED BY <2>1 DEF Abs!Next
<1>5. CASE CdWithArg \/ CdDash \/ CdHome
  BY <1>3, <1>5 DEF CdWithArg, CdDash, CdHome
<1>6. CASE NestedShell
  BY <1>6, NestedShellRefines DEF Abs!Next
<1>7. ASSUME NEW d \in Dirs, RemoveDir(d) \/ MakeDir(d) PROVE UNCHANGED <<env, cwd>>
  BY <1>7 DEF RemoveDir, MakeDir
<1>8. ASSUME UNCHANGED vars PROVE UNCHANGED <<env, cwd>>
  BY <1>8 DEF vars
<1> QED BY <1>0, <1>1, <1>2, <1>4, <1>5, <1>6, <1>7, <1>8 DEF Next

(* The list of the shell is one value per name to every command, for any    *)
(* envp: a command changes the values of the names it was given and of no   *)
(* other, and a shell started in this one has the same values.              *)
THEOREM Refinement == Spec => ImplementsAbs
<1>1. Init => Abs!Init
  BY AbsInitially
<1>2. IInv /\ [Next]_vars => [Abs!Next]_<<[n \in Names |-> Values(n)], cwd>>
  BY StepRefines
<1> QED BY <1>1, <1>2, Invariance, PTL DEF Spec, ImplementsAbs, Abs!Spec
=============================================================================
