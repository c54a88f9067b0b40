-------------------------- MODULE AvatarPose_proofs --------------------------
(***************************************************************************)
(* For every avatar, every clip and every set of swings: the pose is made  *)
(* of rotations; the springs of AvatarPose have no memory but their own;   *)
(* a swing is drawn as the physics left it; and the loader's flat lists    *)
(* are read as they were written.                                          *)
(*                                                                         *)
(* The rotations are a group, the kinematics goes up the hierarchy from a  *)
(* node, and a clip made from a well-formed file has rotations for keys:   *)
(* the lemmas say so, and the invariant PoseType rests on them.            *)
(***************************************************************************)
EXTENDS AvatarPose, FiniteSetTheorems, SequenceTheorems, TLAPS

----------------------------------------------------------------------------
(* Numbers and indices.                                                    *)

\* The least element of a set of numbers, without an operator for a parameter.
LEMMA Least ==
  ASSUME NEW T \in SUBSET Nat, T # {}
  PROVE  \E n \in T : \A m \in T : n <= m
<1> DEFINE Less == {ss \in Nat \X Nat : ss[1] < ss[2]}
<1>1. IsWellFoundedOn(Less, Nat)
  BY NatLessThanWellFounded DEF OpToRel
<1> HIDE DEF Less
<1>2. PICK n \in T : \A m \in T : ~(<<m, n>> \in Less)
  BY <1>1, WFMin
<1>3. \A m \in T : <<m, n>> \in Nat \X Nat /\ m \in Nat /\ n \in Nat
  OBVIOUS
<1>4. \A m \in T : ~(m < n)
  BY <1>2, <1>3 DEF Less
<1> QED
  BY <1>3, <1>4

\* The greatest element of a finite one.
LEMMA FiniteMax ==
  ASSUME NEW T \in SUBSET Nat, IsFiniteSet(T), T # {}
  PROVE  Max(T) \in T /\ \A m \in T : m <= Max(T)
<1> DEFINE HasMax(U) == \E x \in U : \A y \in U : y <= x
           Bad == {n \in Nat : \E U \in SUBSET T : U # {} /\ Cardinality(U) = n /\ ~HasMax(U)}
<1>1. Bad = {}
  <2>1. SUFFICES ASSUME Bad # {} PROVE FALSE
    OBVIOUS
  <2> HIDE DEF HasMax
  <2>2. PICK n \in Bad : \A m \in Bad : n <= m
    BY <2>1, Least
  <2>3. PICK U \in SUBSET T : U # {} /\ Cardinality(U) = n /\ ~HasMax(U)
    BY <2>2
  <2>4. PICK x \in U : TRUE
    BY <2>3
  <2> DEFINE V == U \ {x}
  <2>5. /\ IsFiniteSet(U) /\ Cardinality(U) \in Nat
        /\ Cardinality(V) = n - 1 /\ Cardinality(V) \in Nat
    BY <2>3, <2>4, FS_Subset, FS_RemoveElement, FS_CardinalityType
  <2>6. n - 1 \notin Bad
    BY <2>2, <2>5
  <2>7. V \in SUBSET T
    OBVIOUS
  <2>8. V = {} \/ HasMax(V)
    BY <2>5, <2>6, <2>7
  <2>9. CASE V = {}
    <3>1. \A y \in U : y = x
      BY <2>4, <2>9
    <3> QED
      BY <2>3, <2>4, <3>1 DEF HasMax
  <2>10. CASE HasMax(V)
    <3>1. PICK v \in V : \A y \in V : y <= v
      BY <2>10 DEF HasMax
    <3>2. \A y \in U : y \in Nat /\ (y = x \/ y \in V)
      OBVIOUS
    <3>3. v \in U /\ x \in U /\ v \in Nat /\ x \in Nat
      BY <2>4, <3>1
    <3> HIDE DEF V
    <3>4. HasMax(U)
      BY <3>1, <3>2, <3>3 DEF HasMax
    <3> QED
      BY <2>3, <3>4
  <2> QED
    BY <2>8, <2>9, <2>10
<1>2. Cardinality(T) \in Nat
  BY FS_CardinalityType
<1>3. HasMax(T)
  <2> HIDE DEF HasMax
  <2> QED
    BY <1>1, <1>2
<1>4. \E x \in T : \A y \in T : x >= y
  BY <1>3
<1>5. Max(T) \in T /\ \A y \in T : Max(T) >= y
  BY <1>4 DEF Max
<1> QED
  BY <1>5

\* The least of some numbers is one of them.
LEMMA FiniteMin ==
  ASSUME NEW T \in SUBSET Nat, T # {}
  PROVE  Min(T) \in T
<1>1. \E x \in T : \A y \in T : x <= y
  BY Least
<1> QED
  BY <1>1 DEF Min

\* A sequence has its members under the numbers up to its length.
LEMMA SequenceDomain ==
  ASSUME NEW S, NEW s \in Seq(S)
  PROVE  /\ \E k \in Nat : DOMAIN s = 1..k
         /\ \A i \in DOMAIN s : s[i] \in S
OBVIOUS

\* Of some indices of a sequence, the last.
LEMMA GreatestIndex ==
  ASSUME NEW S, NEW s \in Seq(S), NEW J \in SUBSET (DOMAIN s), J # {}
  PROVE  Max(J) \in J /\ \A i \in J : i <= Max(J)
<1>1. PICK k \in Nat : DOMAIN s = 1..k
  BY SequenceDomain
<1>2. IsFiniteSet(1..k)
  BY FS_Interval
<1>3. IsFiniteSet(J) /\ J \in SUBSET Nat
  BY <1>1, <1>2, FS_Subset
<1> QED
  BY <1>3, FiniteMax

\* The greatest of the numbers a function gives a finite set, and 0.
LEMMA ImageMax ==
  ASSUME NEW S, IsFiniteSet(S), NEW f \in [S -> Nat]
  PROVE  LET top == Max({0} \cup {f[x] : x \in S})
         IN  top \in Nat /\ \A x \in S : f[x] <= top
<1> DEFINE T == {f[x] : x \in S}
<1>1. f \in Surjection(S, T)
  BY DEF Surjection
<1>2. IsFiniteSet(T)
  BY <1>1, FS_Surjection
<1>3. IsFiniteSet({0} \cup T) /\ {0} \cup T \in SUBSET Nat
  <2>1. {0} \cup T = T \cup {0} /\ T \subseteq Nat
    OBVIOUS
  <2> HIDE DEF T
  <2> QED
    BY <1>2, <2>1, FS_AddElement
<1> QED
  BY <1>3, FiniteMax

----------------------------------------------------------------------------
(* Lists laid end to end.                                                  *)

\* The equation of the function in FlattenSeq, for the first n sequences.
Flattens(f, ss, n) == f = [i \in 1..n |-> IF i = 1 THEN ss[i] ELSE f[i - 1] \o ss[i]]

Concatenates(f, ss, n) ==
  \A i \in 1..n : (i = 1 => f[i] = ss[i]) /\ (i # 1 => f[i] = f[i - 1] \o ss[i])

\* It says that each prefix is concatenated from the one before.
LEMMA FlattensAt == \A ss, n, f : Flattens(f, ss, n) => Concatenates(f, ss, n)
BY DEF Flattens, Concatenates

\* Its values are sequences.
LEMMA FlattensSeq ==
  ASSUME NEW S, NEW n \in Nat, NEW ss \in [1..n -> Seq(S)], NEW f, Flattens(f, ss, n)
  PROVE  f \in [1..n -> Seq(S)]
<1> DEFINE Bad == {i \in 1..n : f[i] \notin Seq(S)}
<1>1. DOMAIN f = 1..n /\ f = [i \in 1..n |-> f[i]]
  BY DEF Flattens
<1>2. SUFFICES ASSUME Bad # {} PROVE FALSE
  BY <1>1
<1>3. Bad \in SUBSET Nat
  OBVIOUS
<1>4. PICK i \in Bad : \A j \in Bad : i <= j
  <2> HIDE DEF Bad
  <2> QED
    BY <1>2, <1>3, Least
<1>5. i \in 1..n /\ ss[i] \in Seq(S) /\ f[i] \notin Seq(S)
  BY <1>4
<1>6. (i = 1 => f[i] = ss[i]) /\ (i # 1 => f[i] = f[i - 1] \o ss[i])
  <2>1. Concatenates(f, ss, n)
    BY FlattensAt
  <2> QED
    BY <1>5, <2>1 DEF Concatenates
<1>7. i # 1 /\ f[i] = f[i - 1] \o ss[i]
  BY <1>5, <1>6
<1>8. i - 1 \in 1..n /\ i - 1 \notin Bad
  BY <1>4, <1>5, <1>7
<1>9. f[i - 1] \in Seq(S)
  BY <1>8
<1> QED
  BY <1>5, <1>7, <1>9, ConcatProperties

\* It has a solution for every number of sequences.
LEMMA FlattenExists ==
  ASSUME NEW S, NEW n \in Nat, NEW ss \in [1..n -> Seq(S)]
  PROVE  \E f : Flattens(f, ss, n)
<1> DEFINE Solved(m) == \E f : Flattens(f, ss, m)
           Bad == {m \in 0..n : ~Solved(m)}
<1> HIDE DEF Solved
<1>1. SUFFICES ASSUME Bad # {} PROVE FALSE
  <2>1. n \in 0..n
    OBVIOUS
  <2>2. Bad = {} => Solved(n)
    BY <2>1
  <2> QED
    BY <2>2 DEF Solved
<1>2. Bad \in SUBSET Nat
  OBVIOUS
<1>3. PICK m \in Bad : \A k \in Bad : m <= k
  <2> HIDE DEF Bad
  <2> QED
    BY <1>1, <1>2, Least
<1>4. m \in 0..n
  OBVIOUS
<1>5. m # 0
  <2>1. Flattens([i \in 1..0 |-> 0], ss, 0)
    BY DEF Flattens
  <2> QED
    BY <1>3, <2>1 DEF Solved
<1>6. m - 1 \in 0..n /\ m - 1 \notin Bad
  BY <1>3, <1>4, <1>5
<1>7. PICK f : Flattens(f, ss, m - 1)
  BY <1>6 DEF Solved
<1> DEFINE g == [i \in 1..m |-> IF i < m THEN f[i] ELSE IF m = 1 THEN ss[1] ELSE f[m - 1] \o ss[m]]
           h == [i \in 1..m |-> IF i = 1 THEN ss[i] ELSE g[i - 1] \o ss[i]]
<1>8. ASSUME NEW i \in 1..m
      PROVE  g[i] = h[i]
  <2>1. CASE i < m
    <3>1. i \in 1..m - 1 /\ g[i] = f[i]
      BY <1>4, <2>1
    <3>2. (i = 1 => f[i] = ss[i]) /\ (i # 1 => f[i] = f[i - 1] \o ss[i])
      <4>1. Concatenates(f, ss, m - 1)
        BY <1>7, FlattensAt
      <4> QED
        BY <3>1, <4>1 DEF Concatenates
    <3>3. i # 1 => g[i - 1] = f[i - 1]
      BY <1>4, <2>1
    <3> QED
      BY <3>1, <3>2, <3>3
  <2>2. CASE i = m
    <3>1. m # 1 => g[m - 1] = f[m - 1]
      BY <1>4, <1>5
    <3> QED
      BY <2>2, <3>1
  <2> QED
    BY <1>4, <2>1, <2>2
<1>9. g = h
  BY <1>8
<1>10. Flattens(g, ss, m)
  <2> HIDE DEF g
  <2> QED
    BY <1>9 DEF Flattens
<1> QED
  BY <1>3, <1>10 DEF Solved

\* FlattenSeq of sequences over S is one.
LEMMA FlattenType ==
  ASSUME NEW S, NEW ss \in Seq(Seq(S))
  PROVE  FlattenSeq(ss) \in Seq(S)
<1>1. CASE Len(ss) = 0
  <2>1. ss = <<>>
    BY <1>1
  <2> QED
    BY <1>1, <2>1 DEF FlattenSeq
<1>2. CASE Len(ss) # 0
  <2> DEFINE n == Len(ss)
             F == CHOOSE f : Flattens(f, ss, n)
  <2>1. FlattenSeq(ss) = F[n]
    BY <1>2 DEF FlattenSeq, Flattens
  <2>2. n \in Nat /\ ss \in [1..n -> Seq(S)] /\ n \in 1..n
    BY <1>2
  <2> HIDE DEF n
  <2>3. Flattens(F, ss, n)
    BY <2>2, FlattenExists
  <2> HIDE DEF F
  <2>4. F \in [1..n -> Seq(S)]
    BY <2>2, <2>3, FlattensSeq
  <2> QED
    BY <2>1, <2>2, <2>4
<1> QED
  BY <1>1, <1>2

\* Sizes that add up, and a list t of the lists of ss laid end to end: the g-th
\* of them comes after at[g] members.
Adds(at, sizes, n) ==
  /\ at \in [1..n + 1 -> Nat] /\ at[1] = 0
  /\ \A g \in 1..n : at[g + 1] = at[g] + sizes[g]

Places(at, ss, n, t) ==
  /\ DOMAIN t = 1..at[n + 1]
  /\ \A g \in 1..n : \A j \in 1..Len(ss[g]) :
       at[g] + j \in 1..at[n + 1] /\ t[at[g] + j] = ss[g][j]
  /\ \A i \in 1..at[n + 1] : \E g \in 1..n : \E j \in 1..Len(ss[g]) : i = at[g] + j

\* One more list.
LEMMA PlacesStep ==
  ASSUME NEW S, NEW n \in Nat, NEW ss, NEW at, NEW t \in Seq(S), NEW u \in Seq(S),
         n >= 1, ss[n] = u, \A g \in 1..n : ss[g] \in Seq(S),
         Places(at, ss, n - 1, t), \A g \in 1..n + 1 : at[g] \in Nat,
         at[n + 1] = at[n] + Len(u)
  PROVE  Places(at, ss, n, t \o u)
<1>1. DOMAIN t = 1..at[n] /\ Len(t) = at[n] /\ at[n] \in Nat /\ Len(u) \in Nat /\ (n - 1) + 1 = n
      /\ at[n + 1] \in Nat
  BY DEF Places
<1>2. /\ t \o u \in Seq(S) /\ Len(t \o u) = at[n + 1]
      /\ \A i \in 1..at[n + 1] : (t \o u)[i] = IF i <= at[n] THEN t[i] ELSE u[i - at[n]]
  <2>1. Len(t) + Len(u) = at[n + 1]
    BY <1>1
  <2>2. /\ t \o u \in Seq(S) /\ Len(t \o u) = Len(t) + Len(u)
        /\ \A i \in 1..Len(t) + Len(u) : (t \o u)[i] = IF i <= Len(t) THEN t[i] ELSE u[i - Len(t)]
    BY ConcatProperties
  <2> QED
    BY <1>1, <2>1, <2>2
<1>3. DOMAIN (t \o u) = 1..at[n + 1]
  BY <1>2
<1>6. \A i \in 1..at[n] : i \in 1..at[n + 1] /\ i <= at[n]
  BY <1>1
<1>4. ASSUME NEW g \in 1..n, NEW j \in 1..Len(ss[g])
      PROVE  at[g] + j \in 1..at[n + 1] /\ (t \o u)[at[g] + j] = ss[g][j]
  <2>1. CASE g = n
    <3>1. at[n] + j \in 1..at[n + 1] /\ ~(at[n] + j <= at[n]) /\ (at[n] + j) - at[n] = j
      BY <1>1, <2>1
    <3> QED
      BY <1>2, <2>1, <3>1
  <2>2. CASE g # n
    <3>1. g \in 1..n - 1 /\ Len(ss[g]) \in Nat
      BY <2>2
    <3>2. at[g] + j \in 1..at[n] /\ t[at[g] + j] = ss[g][j]
      BY <1>1, <3>1 DEF Places
    <3>3. at[g] + j \in 1..at[n + 1] /\ at[g] + j <= at[n]
      BY <1>6, <3>2
    <3> QED
      BY <1>2, <3>2, <3>3
  <2> QED
    BY <2>1, <2>2
<1>5. ASSUME NEW i \in 1..at[n + 1]
      PROVE  \E g \in 1..n : \E j \in 1..Len(ss[g]) : i = at[g] + j
  <2>1. CASE i <= at[n]
    <3>1. i \in 1..at[n]
      BY <1>1, <2>1
    <3>2. PICK g \in 1..n - 1 : \E j \in 1..Len(ss[g]) : i = at[g] + j
      BY <1>1, <3>1 DEF Places
    <3> QED
      BY <3>2
  <2>2. CASE ~(i <= at[n])
    <3>1. i - at[n] \in 1..Len(ss[n]) /\ i = at[n] + (i - at[n]) /\ n \in 1..n
      BY <1>1, <2>2
    <3> QED
      BY <3>1
  <2> QED
    BY <2>1, <2>2
<1> QED
  BY <1>3, <1>4, <1>5 DEF Places

\* FlattenSeq lays its lists end to end.
LEMMA FlattenPlaces ==
  ASSUME NEW S, NEW n \in Nat, NEW ss \in [1..n -> Seq(S)],
         NEW at, NEW sizes, Adds(at, sizes, n), \A g \in 1..n : sizes[g] = Len(ss[g])
  PROVE  Places(at, ss, n, FlattenSeq(ss))
<1>1. /\ at \in [1..n + 1 -> Nat] /\ at[1] = 0
      /\ \A g \in 1..n : at[g + 1] = at[g] + Len(ss[g])
  BY DEF Adds
<1>2. CASE n = 0
  <2>1. Len(ss) = 0 /\ ss = <<>>
    BY <1>2
  <2>2. FlattenSeq(ss) = <<>>
    BY <2>1 DEF FlattenSeq
  <2> QED
    BY <1>1, <1>2, <2>2 DEF Places
<1>3. CASE n # 0
  <2> DEFINE F == CHOOSE f : Flattens(f, ss, n)
             Bad == {m \in 1..n : ~Places(at, ss, m, F[m])}
  <2>1. FlattenSeq(ss) = F[n]
    <3>1. Len(ss) = n
      OBVIOUS
    <3> QED
      BY <1>3, <3>1 DEF FlattenSeq, Flattens
  <2>2. Flattens(F, ss, n)
    BY FlattenExists
  <2> HIDE DEF F
  <2>3. F \in [1..n -> Seq(S)] /\ Concatenates(F, ss, n)
    BY <2>2, FlattensSeq, FlattensAt
  <2>4. Bad = {}
    <3>1. SUFFICES ASSUME Bad # {} PROVE FALSE
      OBVIOUS
    <3>2. Bad \in SUBSET Nat
      OBVIOUS
    <3>3. PICK m \in Bad : \A k \in Bad : m <= k
      <4> HIDE DEF Bad
      <4> QED
        BY <3>1, <3>2, Least
    <3>4. m \in 1..n /\ ~Places(at, ss, m, F[m]) /\ m >= 1 /\ m \in Nat
      BY <3>3
    <3>5. /\ ss[m] \in Seq(S) /\ at[m + 1] = at[m] + Len(ss[m])
          /\ \A g \in 1..m : ss[g] \in Seq(S)
          /\ \A g \in 1..m + 1 : at[g] \in Nat
      BY <1>1, <3>4
    <3>6. CASE m = 1
      <4>1. Places(at, ss, 0, <<>>)
        BY <1>1 DEF Places
      <4>2. Places(at, ss, 1, <<>> \o ss[1])
        <5>1. <<>> \in Seq(S) /\ 1 - 1 = 0 /\ 1 \in Nat /\ 1 >= 1
          OBVIOUS
        <5> QED
          BY <3>5, <3>6, <4>1, <5>1, PlacesStep
      <4>3. F[1] = ss[1] /\ <<>> \o ss[1] = ss[1]
        BY <2>3, <3>4, <3>5, <3>6, ConcatEmptySeq DEF Concatenates
      <4> QED
        BY <3>4, <3>6, <4>2, <4>3
    <3>7. CASE m # 1
      <4>1. m - 1 \in 1..n /\ m - 1 \notin Bad
        BY <3>3, <3>4, <3>7
      <4>2. Places(at, ss, m - 1, F[m - 1]) /\ F[m - 1] \in Seq(S)
        BY <2>3, <4>1
      <4>3. Places(at, ss, m, F[m - 1] \o ss[m])
        <5> HIDE DEF Bad
        <5> QED
          BY <3>4, <3>5, <4>2, PlacesStep
      <4>4. F[m] = F[m - 1] \o ss[m]
        BY <2>3, <3>4, <3>7 DEF Concatenates
      <4> QED
        BY <3>4, <4>3, <4>4
    <3> QED
      BY <3>6, <3>7
  <2>5. n \in 1..n
    BY <1>3
  <2> QED
    BY <2>1, <2>4, <2>5
<1> QED
  BY <1>2, <1>3

\* The equation of the function in Starts.
Starting(f, sizes, n) == f = [i \in 1..n + 1 |-> IF i = 1 THEN 0 ELSE f[i - 1] + sizes[i - 1]]

\* What it says of its values.
CountsUp(f, sizes, n) ==
  /\ DOMAIN f = 1..n + 1 /\ f = [i \in 1..n + 1 |-> f[i]]
  /\ f[1] = 0 /\ \A i \in 2..n + 1 : f[i] = f[i - 1] + sizes[i - 1]

\* The recursive function of Starts adds up the sizes.
LEMMA StartingAt ==
  ASSUME NEW n \in Nat, NEW f, NEW sizes, Starting(f, sizes, n)
  PROVE  CountsUp(f, sizes, n)
<1> DEFINE h == [i \in 1..n + 1 |-> IF i = 1 THEN 0 ELSE f[i - 1] + sizes[i - 1]]
<1>1. f = h
  BY DEF Starting
<1>2. DOMAIN h = 1..n + 1 /\ h = [i \in 1..n + 1 |-> h[i]]
      /\ h[1] = 0 /\ \A i \in 2..n + 1 : h[i] = f[i - 1] + sizes[i - 1]
  OBVIOUS
<1> HIDE DEF h
<1> QED
  BY <1>1, <1>2 DEF CountsUp

\* It has a solution.
LEMMA StartingExists ==
  ASSUME NEW n \in Nat, NEW sizes
  PROVE  \E f : Starting(f, sizes, n)
<1> DEFINE Solved(m) == \E f : Starting(f, sizes, m)
           Bad == {m \in 0..n : ~Solved(m)}
<1> HIDE DEF Solved
<1>1. SUFFICES ASSUME Bad # {} PROVE FALSE
  <2>1. n \in 0..n
    OBVIOUS
  <2>2. Bad = {} => Solved(n)
    BY <2>1
  <2> QED
    BY <2>2 DEF Solved
<1>2. Bad \in SUBSET Nat
  OBVIOUS
<1>3. PICK m \in Bad : \A k \in Bad : m <= k
  <2> HIDE DEF Bad
  <2> QED
    BY <1>1, <1>2, Least
<1>4. m \in 0..n /\ ~Solved(m)
  BY <1>3
<1>5. m # 0
  <2>1. Starting([i \in 1..1 |-> 0], sizes, 0)
    BY DEF Starting
  <2> QED
    BY <1>4, <2>1 DEF Solved
<1>6. m - 1 \in 0..n /\ m - 1 \notin Bad
  BY <1>3, <1>4, <1>5
<1>7. PICK f : Starting(f, sizes, m - 1)
  BY <1>6 DEF Solved
<1>8. f[1] = 0 /\ \A i \in 2..m : f[i] = f[i - 1] + sizes[i - 1]
  <2>1. CountsUp(f, sizes, m - 1) /\ (m - 1) + 1 = m
    BY <1>4, <1>5, <1>7, StartingAt
  <2> QED
    BY <2>1 DEF CountsUp
<1> DEFINE g == [i \in 1..m + 1 |-> IF i <= m THEN f[i] ELSE f[m] + sizes[m]]
           h == [i \in 1..m + 1 |-> IF i = 1 THEN 0 ELSE g[i - 1] + sizes[i - 1]]
<1>9. ASSUME NEW i \in 1..m + 1
      PROVE  g[i] = h[i]
  <2>1. CASE i = 1
    BY <1>4, <1>5, <1>8, <2>1
  <2>2. CASE i # 1
    <3>1. i - 1 \in 1..m + 1 /\ i - 1 <= m
      BY <1>4, <2>2
    <3>2. g[i - 1] = f[i - 1]
      BY <3>1
    <3>3. h[i] = f[i - 1] + sizes[i - 1]
      BY <2>2, <3>2
    <3>4. CASE i <= m
      <4>1. i \in 2..m
        BY <1>4, <2>2, <3>4
      <4> QED
        BY <1>8, <3>3, <3>4, <4>1
    <3>5. CASE ~(i <= m)
      <4>1. i = m + 1 /\ i - 1 = m
        BY <1>4, <3>5
      <4> QED
        BY <3>3, <3>5, <4>1
    <3> QED
      BY <3>4, <3>5
  <2> QED
    BY <2>1, <2>2
<1>10. g = h
  <2>1. g = [i \in 1..m + 1 |-> g[i]] /\ h = [i \in 1..m + 1 |-> h[i]]
    OBVIOUS
  <2> HIDE DEF g, h
  <2> QED
    BY <1>9, <2>1
<1>11. Starting(g, sizes, m)
  <2> HIDE DEF g
  <2> QED
    BY <1>10 DEF Starting
<1> QED
  BY <1>4, <1>11 DEF Solved

\* Starts adds up the sizes.
LEMMA StartsAt ==
  ASSUME NEW n \in Nat, NEW sizes \in [1..n -> Nat]
  PROVE  Adds(Starts(sizes), sizes, n)
<1> DEFINE F == CHOOSE f : Starting(f, sizes, n)
           Bad == {i \in 1..n + 1 : F[i] \notin Nat}
<1>1. Starts(sizes) = F
  <2>1. Len(sizes) = n
    OBVIOUS
  <2> QED
    BY <2>1 DEF Starts, Starting
<1>2. Starting(F, sizes, n)
  BY StartingExists
<1> HIDE DEF F
<1>3. /\ F = [i \in 1..n + 1 |-> F[i]]
      /\ F[1] = 0 /\ \A i \in 2..n + 1 : F[i] = F[i - 1] + sizes[i - 1]
  <2>1. CountsUp(F, sizes, n)
    BY <1>2, StartingAt
  <2> QED
    BY <2>1 DEF CountsUp
<1>4. Bad = {}
  <2>1. SUFFICES ASSUME Bad # {} PROVE FALSE
    OBVIOUS
  <2>2. Bad \in SUBSET Nat
    OBVIOUS
  <2>3. PICK i \in Bad : \A k \in Bad : i <= k
    <3> HIDE DEF Bad
    <3> QED
      BY <2>1, <2>2, Least
  <2>4. i \in 2..n + 1 /\ F[i] \notin Nat
    BY <1>3, <2>3
  <2>5. i - 1 \in 1..n + 1 /\ i - 1 \notin Bad /\ i - 1 \in 1..n
    BY <2>3, <2>4
  <2>6. F[i - 1] \in Nat /\ sizes[i - 1] \in Nat
    BY <2>5
  <2>7. F[i] = F[i - 1] + sizes[i - 1]
    BY <1>3, <2>4
  <2>8. \A a, b \in Nat : a + b \in Nat
    OBVIOUS
  <2> HIDE DEF Bad
  <2> QED
    BY <2>4, <2>6, <2>7, <2>8
<1>5. \A g \in 1..n : F[g + 1] = F[g] + sizes[g]
  <2> TAKE g \in 1..n
  <2>1. g + 1 \in 2..n + 1 /\ (g + 1) - 1 = g
    OBVIOUS
  <2> QED
    BY <1>3, <2>1
<1>6. F \in [1..n + 1 -> Nat]
  BY <1>3, <1>4
<1> QED
  BY <1>1, <1>3, <1>5, <1>6 DEF Adds
\* Lists of the sizes that Starts is given lie where it says.
LEMMA LaidOut ==
  ASSUME NEW S, NEW n \in Nat, NEW ss \in [1..n -> Seq(S)],
         NEW sizes \in [1..n -> Nat], \A g \in 1..n : sizes[g] = Len(ss[g])
  PROVE  /\ Adds(Starts(sizes), sizes, n)
         /\ Places(Starts(sizes), ss, n, FlattenSeq(ss))
<1>1. Adds(Starts(sizes), sizes, n)
  BY StartsAt
<1> QED
  BY <1>1, FlattenPlaces

\* The members of the flattened list are those of its parts.
Gathers(t, ss, n) ==
  /\ \A g \in 1..n : \A j \in 1..Len(ss[g]) : ss[g][j] \in ToSet(t)
  /\ \A x \in ToSet(t) : \E g \in 1..n : \E j \in 1..Len(ss[g]) : x = ss[g][j]

\* The members of a concatenation are those of its lists.
LEMMA FlattenMembers ==
  ASSUME NEW S, NEW n \in Nat, NEW ss \in [1..n -> Seq(S)]
  PROVE  Gathers(FlattenSeq(ss), ss, n)
<1> DEFINE sizes == [g \in 1..n |-> Len(ss[g])]
           t == FlattenSeq(ss)
           at == Starts(sizes)
<1>1. sizes \in [1..n -> Nat] /\ \A g \in 1..n : sizes[g] = Len(ss[g])
  OBVIOUS
<1> HIDE DEF sizes
<1>2. Places(at, ss, n, t)
  BY <1>1, LaidOut
<1> HIDE DEF at, t
<1>3. ToSet(t) = {t[i] : i \in 1..at[n + 1]}
  BY <1>2 DEF Places, ToSet
<1>4. \A g \in 1..n : \A j \in 1..Len(ss[g]) : ss[g][j] \in ToSet(t)
  BY <1>2, <1>3 DEF Places
<1>5. \A x \in ToSet(t) : \E g \in 1..n : \E j \in 1..Len(ss[g]) : x = ss[g][j]
  <2> TAKE x \in ToSet(t)
  <2>1. PICK i \in 1..at[n + 1] : x = t[i]
    BY <1>3
  <2>2. PICK g \in 1..n : \E j \in 1..Len(ss[g]) : i = at[g] + j
    BY <1>2 DEF Places
  <2>3. PICK j \in 1..Len(ss[g]) : i = at[g] + j
    BY <2>2
  <2>4. x = ss[g][j]
    BY <1>2, <2>1, <2>3 DEF Places
  <2> QED
    BY <2>4
<1> QED
  BY <1>4, <1>5 DEF t, Gathers

----------------------------------------------------------------------------
(* The rotations are a group.                                              *)

\* The product of two rotations is one: q first, then p.
LEMMA ProductAt ==
  ASSUME NEW p \in Rotation, NEW q \in Rotation
  PROVE  /\ p ** q \in Rotation
         /\ \A d \in Diagonals : (p ** q)[d] = p[q[d]]
<1>1. p ** q = <<p[q[1]], p[q[2]], p[q[3]], p[q[4]]>>
  <2>1. \A f \in Rotation \X Rotation :
          Product[f] = <<f[1][f[2][1]], f[1][f[2][2]], f[1][f[2][3]], f[1][f[2][4]]>>
    BY DEF Product
  <2> QED
    BY <2>1 DEF **
<1>2. \A d \in Diagonals : d = 1 \/ d = 2 \/ d = 3 \/ d = 4
  BY DEF Diagonals
<1>3. \A d \in Diagonals : (p ** q)[d] = p[q[d]]
  BY <1>1, <1>2
<1>4. p ** q = [d \in Diagonals |-> p[q[d]]]
  BY <1>1, <1>2 DEF Diagonals
<1> QED
  BY <1>3, <1>4 DEF Rotation

\* It is associative, with Identity for its unit and an inverse on both sides.
LEMMA Associative ==
  ASSUME NEW p \in Rotation, NEW q \in Rotation, NEW r \in Rotation
  PROVE  (p ** q) ** r = p ** (q ** r)
<1>1. (p ** q) ** r \in [Diagonals -> Diagonals] /\ p ** (q ** r) \in [Diagonals -> Diagonals]
  BY ProductAt DEF Rotation
<1>2. ASSUME NEW d \in Diagonals
      PROVE  ((p ** q) ** r)[d] = (p ** (q ** r))[d]
  <2>1. p ** q \in Rotation /\ q ** r \in Rotation /\ r[d] \in Diagonals
    BY ProductAt DEF Rotation
  <2>2. ((p ** q) ** r)[d] = p[q[r[d]]]
    BY <2>1, ProductAt
  <2>3. (p ** (q ** r))[d] = p[q[r[d]]]
    BY <2>1, ProductAt
  <2> QED
    BY <2>2, <2>3
<1> QED
  BY <1>1, <1>2

\* The identity is a neutral element.
LEMMA IdentityAt == Identity \in Rotation /\ \A p \in Rotation : Identity ** p = p /\ p ** Identity = p
<1>1. Identity = [d \in Diagonals |-> d]
  BY DEF Identity, Diagonals
<1>2. Identity \in Rotation
  BY <1>1 DEF Rotation
<1>3. ASSUME NEW p \in Rotation PROVE Identity ** p = p /\ p ** Identity = p
  <2>1. p \in [Diagonals -> Diagonals] /\ \A d \in Diagonals : Identity[d] = d
    BY <1>1 DEF Rotation
  <2>2. Identity ** p \in [Diagonals -> Diagonals] /\ p ** Identity \in [Diagonals -> Diagonals]
    BY <1>2, ProductAt DEF Rotation
  <2>3. \A d \in Diagonals : (Identity ** p)[d] = p[d] /\ (p ** Identity)[d] = p[d]
    BY <1>2, <2>1, ProductAt
  <2> QED
    BY <2>1, <2>2, <2>3
<1> QED
  BY <1>2, <1>3

\* A rotation reaches every diagonal.
LEMMA Onto ==
  ASSUME NEW p \in Rotation, NEW d \in Diagonals
  PROVE  \E e \in Diagonals : p[e] = d
<1>1. /\ p[1] \in 1..4 /\ p[2] \in 1..4 /\ p[3] \in 1..4 /\ p[4] \in 1..4
      /\ p[1] # p[2] /\ p[1] # p[3] /\ p[1] # p[4] /\ p[2] # p[3] /\ p[2] # p[4] /\ p[3] # p[4]
  BY DEF Rotation, Diagonals
<1>2. d \in 1..4
  BY DEF Diagonals
<1>3. d = p[1] \/ d = p[2] \/ d = p[3] \/ d = p[4]
  BY <1>1, <1>2
<1> QED
  BY <1>3 DEF Diagonals

\* An inverse undoes its rotation.
LEMMA InverseAt ==
  ASSUME NEW p \in Rotation
  PROVE  Inv(p) \in Rotation /\ Inv(p) ** p = Identity /\ p ** Inv(p) = Identity
<1> DEFINE from(d) == CHOOSE e \in Diagonals : p[e] = d
<1>1. \A d \in Diagonals : from(d) \in Diagonals /\ p[from(d)] = d
  BY Onto
<1>2. Inv(p) = <<from(1), from(2), from(3), from(4)>>
  BY DEF Inv, Inverted
<1> HIDE DEF from
<1>3. Inv(p) = [d \in Diagonals |-> from(d)]
  BY <1>2 DEF Diagonals
<1>4. Inv(p) \in Rotation
  BY <1>1, <1>3 DEF Rotation
<1>5. /\ Inv(p) ** p \in [Diagonals -> Diagonals] /\ p ** Inv(p) \in [Diagonals -> Diagonals]
      /\ Identity = [d \in Diagonals |-> d]
  <2>1. Inv(p) ** p \in Rotation /\ p ** Inv(p) \in Rotation
    BY <1>4, ProductAt
  <2>2. Identity = [d \in Diagonals |-> d]
    BY DEF Identity, Diagonals
  <2> QED
    BY <2>1, <2>2 DEF Rotation
<1>6. \A d \in Diagonals : Inv(p)[p[d]] = d /\ p[Inv(p)[d]] = d
  BY <1>1, <1>3 DEF Rotation
<1>7. \A d \in Diagonals : (Inv(p) ** p)[d] = Identity[d] /\ (p ** Inv(p))[d] = Identity[d]
  BY <1>4, <1>5, <1>6, ProductAt
<1> QED
  BY <1>4, <1>5, <1>7

\* A number of quarter turns is a rotation.
Turned(f, r) == f = [k \in 0..3 |-> IF k = 0 THEN Identity ELSE r ** f[k - 1]]

\* Quarter turns are rotations, however many.
LEMMA TurnsType ==
  /\ TurnX \in Rotation /\ TurnY \in Rotation /\ TurnZ \in Rotation
  /\ \A r \in Rotation : \A n \in Int : Turns(r, n) \in Rotation
<1>1. TurnX \in Rotation /\ TurnY \in Rotation /\ TurnZ \in Rotation
  BY DEF TurnX, TurnY, TurnZ, Rotation, Diagonals
<1>2. ASSUME NEW r \in Rotation, NEW n \in Int
      PROVE  Turns(r, n) \in Rotation
  <2> DEFINE a == r ** Identity
             b == r ** a
             c == r ** b
             g == [k \in 0..3 |-> IF k = 0 THEN Identity ELSE IF k = 1 THEN a ELSE IF k = 2 THEN b ELSE c]
             h == [k \in 0..3 |-> IF k = 0 THEN Identity ELSE r ** g[k - 1]]
             F == CHOOSE f : Turned(f, r)
  <2>1. \A k \in 0..3 : k = 0 \/ k = 1 \/ k = 2 \/ k = 3
    OBVIOUS
  <2>2. g[0] = Identity /\ g[1] = a /\ g[2] = b /\ g[3] = c
    OBVIOUS
  <2>3. h[0] = Identity /\ h[1] = a /\ h[2] = b /\ h[3] = c
    <3> HIDE DEF g
    <3> QED
      BY <2>2
  <2>4. g = h
    <3>1. g = [k \in 0..3 |-> g[k]] /\ h = [k \in 0..3 |-> h[k]]
      OBVIOUS
    <3> HIDE DEF g, h, a, b, c
    <3> QED
      BY <2>1, <2>2, <2>3, <3>1
  <2>5. Turned(F, r)
    <3>1. Turned(g, r)
      <4> HIDE DEF g
      <4> QED
        BY <2>4 DEF Turned
    <3> HIDE DEF g
    <3> QED
      BY <3>1
  <2>6. Turns(r, n) = F[n % 4] /\ n % 4 \in 0..3
    BY DEF Turns, Turned
  <2> HIDE DEF F
  <2>7. F[0] = Identity /\ F[1] = r ** F[0] /\ F[2] = r ** F[1] /\ F[3] = r ** F[2]
    BY <2>5 DEF Turned
  <2>8. F[0] \in Rotation /\ F[1] \in Rotation /\ F[2] \in Rotation /\ F[3] \in Rotation
    BY <2>7, IdentityAt, ProductAt
  <2> QED
    BY <2>1, <2>6, <2>8
<1> QED
  BY <1>1, <1>2

----------------------------------------------------------------------------
(* The passes over a hierarchy.                                            *)

\* A parent for every node, or none; it may still be broken.
Hierarchy(parent, D) == IsFiniteSet(D) /\ NoNode \notin D /\ parent \in [D -> D \cup {NoNode}]

\* The equation of the function in Reached, for n passes.
PassOf(parent, before) == {NoNode} \cup {m \in DOMAIN parent : parent[m] \in before}

Passes(f, parent, n) ==
  f = [pass \in 0..n |-> IF pass = 0 THEN {NoNode} ELSE PassOf(parent, f[pass - 1])]

\* What it says of its values, and that it has a solution.
LEMMA PassesAt ==
  \A f, parent : \A n \in Nat : Passes(f, parent, n) =>
    f[0] = {NoNode} /\ \A pass \in 1..n : f[pass] = PassOf(parent, f[pass - 1])
BY DEF Passes

\* There are as many passes as asked for.
LEMMA PassesExist ==
  ASSUME NEW parent, NEW n \in Nat
  PROVE  \E f : Passes(f, parent, n)
<1> DEFINE Solved(m) == \E f : Passes(f, parent, m)
           Bad == {m \in 0..n : ~Solved(m)}
<1> HIDE DEF Solved
<1>1. SUFFICES ASSUME Bad # {} PROVE FALSE
  <2>1. n \in 0..n
    OBVIOUS
  <2>2. Bad = {} => Solved(n)
    BY <2>1
  <2> QED
    BY <2>2 DEF Solved
<1>2. PICK m \in Bad : \A k \in Bad : m <= k
  <2>1. Bad \in SUBSET Nat
    OBVIOUS
  <2> HIDE DEF Bad
  <2> QED
    BY <1>1, <2>1, Least
<1>3. m \in 0..n /\ ~Solved(m)
  BY <1>2
<1>4. m # 0
  <2>1. Passes([pass \in 0..0 |-> {NoNode}], parent, 0)
    BY DEF Passes
  <2> QED
    BY <1>3, <2>1 DEF Solved
<1>5. m - 1 \in 0..n /\ m - 1 \notin Bad
  BY <1>2, <1>3, <1>4
<1>6. PICK f : Passes(f, parent, m - 1)
  BY <1>5 DEF Solved
<1> DEFINE g == [pass \in 0..m |-> IF pass < m THEN f[pass] ELSE PassOf(parent, f[m - 1])]
           h == [pass \in 0..m |-> IF pass = 0 THEN {NoNode} ELSE PassOf(parent, g[pass - 1])]
<1>7. f[0] = {NoNode} /\ \A pass \in 1..m - 1 : f[pass] = PassOf(parent, f[pass - 1])
  BY <1>5, <1>6, PassesAt
<1>8. ASSUME NEW pass \in 0..m
      PROVE  g[pass] = h[pass]
  <2>1. CASE pass = 0
    BY <1>3, <1>4, <1>7, <2>1
  <2>2. CASE pass # 0
    <3>1. pass \in 1..m /\ pass - 1 \in 0..m /\ pass - 1 < m
      BY <1>3, <2>2
    <3>2. g[pass - 1] = f[pass - 1]
      BY <3>1
    <3>3. g[pass] = PassOf(parent, f[pass - 1])
      BY <1>3, <1>7, <3>1
    <3> QED
      BY <2>2, <3>2, <3>3
  <2> QED
    BY <2>1, <2>2
<1>9. g = h
  <2>1. DOMAIN g = 0..m /\ DOMAIN h = 0..m /\ g = [x \in 0..m |-> g[x]] /\ h = [x \in 0..m |-> h[x]]
    OBVIOUS
  <2> HIDE DEF g, h
  <2> QED
    BY <1>8, <2>1
<1>10. Passes(g, parent, m)
  <2> HIDE DEF g
  <2> QED
    BY <1>9 DEF Passes
<1> QED
  BY <1>3, <1>10 DEF Solved

\* Every node that is reached has a parent that was reached before it.
LEMMA Ranked ==
  ASSUME NEW D, NEW parent, Hierarchy(parent, D)
  PROVE  /\ NoNode \in Reached(parent) /\ Reached(parent) \subseteq D \cup {NoNode}
         /\ \E top \in Nat : \E rank \in [Reached(parent) -> 0..top] :
              \A n \in Reached(parent) \ {NoNode} :
                parent[n] \in Reached(parent) /\ rank[parent[n]] < rank[n]
<1> DEFINE N == Cardinality(D)
           F == CHOOSE f : Passes(f, parent, N)
           R == Reached(parent)
<1>1. N \in Nat /\ DOMAIN parent = D
  BY FS_CardinalityType DEF Hierarchy
<1>2. R = F[N]
  BY <1>1 DEF Reached, Passes, PassOf
<1>3. /\ F[0] = {NoNode}
      /\ \A k \in 1..N : F[k] = {NoNode} \cup {m \in D : parent[m] \in F[k - 1]}
  <2> HIDE DEF N
  <2>1. Passes(F, parent, N)
    BY <1>1, PassesExist
  <2>2. F[0] = {NoNode} /\ \A k \in 1..N : F[k] = PassOf(parent, F[k - 1])
    <3> HIDE DEF F
    <3> QED
      BY <1>1, <2>1, PassesAt
  <2> HIDE DEF F
  <2> QED
    BY <1>1, <2>2 DEF PassOf
<1> HIDE DEF F, N, R
<1>4. \A k \in 1..N : F[k - 1] \subseteq F[k]
  <2> DEFINE Bad == {k \in 1..N : ~(F[k - 1] \subseteq F[k])}
  <2>1. SUFFICES ASSUME Bad # {} PROVE FALSE
    OBVIOUS
  <2>2. PICK k \in Bad : \A j \in Bad : k <= j
    <3>1. Bad \in SUBSET Nat
      OBVIOUS
    <3> HIDE DEF Bad
    <3> QED
      BY <2>1, <3>1, Least
  <2>3. k \in 1..N /\ k # 1
    BY <1>1, <1>3, <2>2
  <2>4. k - 1 \in 1..N /\ k - 1 \notin Bad
    BY <1>1, <2>2, <2>3
  <2>5. F[(k - 1) - 1] \subseteq F[k - 1]
    BY <2>4
  <2> QED
    BY <1>3, <2>2, <2>3, <2>4, <2>5
<1>5. ASSUME NEW j \in 0..N, NEW m \in F[j]
      PROVE  m \in R
  <2> DEFINE T == {N - k : k \in {i \in 0..N : m \in F[i]}}
  <2>1. T \in SUBSET Nat /\ T # {}
    BY <1>1, <1>5
  <2>2. PICK t \in T : \A u \in T : t <= u
    <3> HIDE DEF T
    <3> QED
      BY <2>1, Least
  <2>3. PICK k \in 0..N : m \in F[k] /\ t = N - k
    BY <2>2
  <2>4. CASE k = N
    BY <1>2, <2>3, <2>4
  <2>5. CASE k # N
    <3>1. k + 1 \in 1..N /\ (k + 1) - 1 = k /\ k + 1 \in 0..N
      BY <1>1, <2>5
    <3>2. m \in F[k + 1]
      BY <1>4, <2>3, <3>1
    <3>3. N - (k + 1) \in T
      BY <3>1, <3>2
    <3>4. t <= N - (k + 1)
      BY <2>2, <3>3
    <3> HIDE DEF T
    <3> QED
      BY <1>1, <2>3, <3>1, <3>4
  <2> QED
    BY <2>4, <2>5
<1>6. NoNode \in R /\ R \subseteq D \cup {NoNode}
  <2>1. CASE N = 0
    BY <1>2, <1>3, <2>1
  <2>2. CASE N # 0
    BY <1>1, <1>2, <1>3, <2>2
  <2> QED
    BY <2>1, <2>2
<1> DEFINE First(m, k) == m \in F[k] /\ \A j \in 0..N : m \in F[j] => k <= j
           rank == [m \in R |-> CHOOSE k \in 0..N : First(m, k)]
<1>7. ASSUME NEW m \in R
      PROVE  rank[m] \in 0..N /\ First(m, rank[m])
  <2> DEFINE T == {k \in 0..N : m \in F[k]}
  <2>1. T \in SUBSET Nat /\ T # {}
    BY <1>1, <1>2
  <2>2. PICK t \in T : \A u \in T : t <= u
    <3> HIDE DEF T
    <3> QED
      BY <2>1, Least
  <2>3. t \in 0..N /\ First(m, t)
    BY <2>2
  <2> HIDE DEF First
  <2> QED
    BY <2>3
<1>8. ASSUME NEW n \in R \ {NoNode}
      PROVE  parent[n] \in R /\ rank[parent[n]] < rank[n]
  <2>1. rank[n] \in 0..N /\ n \in F[rank[n]] /\ rank[n] # 0
    BY <1>3, <1>7
  <2> HIDE DEF rank
  <2>2. rank[n] \in 1..N /\ rank[n] - 1 \in 0..N
    BY <1>1, <2>1
  <2>3. parent[n] \in F[rank[n] - 1]
    BY <1>3, <2>1, <2>2
  <2>4. parent[n] \in R
    BY <1>5, <2>2, <2>3
  <2>5. rank[parent[n]] \in 0..N /\ rank[parent[n]] <= rank[n] - 1
    BY <1>7, <2>2, <2>3, <2>4
  <2> QED
    BY <1>1, <2>1, <2>4, <2>5
<1>9. rank \in [R -> 0..N]
  BY <1>7
<1> HIDE DEF rank
<1>10. \E top \in Nat : \E r \in [R -> 0..top] :
         \A n \in R \ {NoNode} : parent[n] \in R /\ r[parent[n]] < r[n]
  BY <1>1, <1>8, <1>9
<1> QED
  BY <1>6, <1>10 DEF R

----------------------------------------------------------------------------
(* Forward kinematics.                                                     *)

\* The equation of the function in WorldRotations, for a set of reached nodes.
WorldOf(local, parent, reached, f, n) ==
  IF n \notin reached THEN Identity
  ELSE IF parent[n] = NoNode THEN local[n]
  ELSE f[parent[n]] ** local[n]

Kinematics(f, local, parent, reached) ==
  f = [n \in DOMAIN parent |-> WorldOf(local, parent, reached, f, n)]

\* It has a solution, however broken the hierarchy is.
LEMMA KinematicsExist ==
  ASSUME NEW D, NEW parent, Hierarchy(parent, D), NEW local
  PROVE  \E f : Kinematics(f, local, parent, Reached(parent))
<1> DEFINE R == Reached(parent)
<1>1. DOMAIN parent = D /\ NoNode \notin D /\ R \subseteq D \cup {NoNode}
  BY Ranked DEF Hierarchy
<1>2. PICK top \in Nat : \E rank \in [R -> 0..top] :
         \A n \in R \ {NoNode} : parent[n] \in R /\ rank[parent[n]] < rank[n]
  BY Ranked
<1>3. PICK rank \in [R -> 0..top] :
         \A n \in R \ {NoNode} : parent[n] \in R /\ rank[parent[n]] < rank[n]
  BY <1>2
<1> HIDE DEF R
<1> DEFINE Below(k) == {n \in D : n \in R => rank[n] <= k}
           Solved(k) == \E f : \A n \in Below(k) : f[n] = WorldOf(local, parent, R, f, n)
           Bad == {k \in 0..top : ~Solved(k)}
<1>4. Bad = {}
  <2>1. SUFFICES ASSUME Bad # {} PROVE FALSE
    OBVIOUS
  <2> HIDE DEF Solved
  <2>2. PICK k \in Bad : \A j \in Bad : k <= j
    <3>1. Bad \in SUBSET Nat
      OBVIOUS
    <3> HIDE DEF Bad
    <3> QED
      BY <2>1, <3>1, Least
  <2>3. k \in 0..top /\ ~Solved(k)
    BY <2>2
  <2>4. k # 0
    <3>1. \A n \in Below(0) : n \notin R
      <4>1. SUFFICES ASSUME NEW n \in D, n \in R, rank[n] <= 0 PROVE FALSE
        OBVIOUS
      <4>2. rank[n] \in 0..top /\ n \in R \ {NoNode}
        BY <1>1, <1>3, <4>1
      <4>3. rank[parent[n]] \in 0..top /\ rank[parent[n]] < rank[n]
        BY <1>3, <4>2
      <4> QED
        BY <4>1, <4>2, <4>3
    <3>2. \A n \in Below(0) : [m \in D |-> Identity][n] = WorldOf(local, parent, R, [m \in D |-> Identity], n)
      BY <3>1 DEF WorldOf
    <3>3. Solved(0)
      <4> DEFINE f == [m \in D |-> Identity]
      <4>1. \A n \in Below(0) : f[n] = WorldOf(local, parent, R, f, n)
        BY <3>2
      <4> HIDE DEF f, Below
      <4> QED
        BY <4>1 DEF Solved
    <3> QED
      BY <2>3, <3>3
  <2>5. k - 1 \in 0..top /\ k - 1 \notin Bad
    BY <2>2, <2>3, <2>4
  <2>6. PICK f : \A n \in Below(k - 1) : f[n] = WorldOf(local, parent, R, f, n)
    <3> HIDE DEF Below
    <3> QED
      BY <2>5 DEF Solved
  <2> DEFINE g == [n \in D |-> IF n \in Below(k - 1) THEN f[n] ELSE WorldOf(local, parent, R, f, n)]
  <2>7. ASSUME NEW n \in Below(k)
        PROVE  g[n] = WorldOf(local, parent, R, g, n)
    <3>1. g[n] = WorldOf(local, parent, R, f, n)
      BY <2>6
    <3>2. n \in R /\ parent[n] # NoNode => g[parent[n]] = f[parent[n]]
      <4>1. SUFFICES ASSUME n \in R, parent[n] # NoNode PROVE g[parent[n]] = f[parent[n]]
        OBVIOUS
      <4>2. n \in D /\ n \in R \ {NoNode} /\ rank[n] <= k /\ rank[n] \in 0..top
        BY <1>1, <1>3, <4>1
      <4>3. parent[n] \in R /\ parent[n] \in D /\ rank[parent[n]] < rank[n] /\ rank[parent[n]] \in 0..top
        BY <1>1, <1>3, <4>1, <4>2
      <4>4. parent[n] \in Below(k - 1)
        BY <2>3, <4>2, <4>3
      <4> QED
        BY <4>3, <4>4
    <3> HIDE DEF g
    <3> QED
      BY <3>1, <3>2 DEF WorldOf
  <2>8. Solved(k)
    <3> HIDE DEF g, Below
    <3> QED
      BY <2>7 DEF Solved
  <2> QED
    BY <2>3, <2>8
<1>5. top \in 0..top /\ \A n \in D : n \in Below(top)
  BY <1>3
<1>6. PICK f : \A n \in D : f[n] = WorldOf(local, parent, R, f, n)
  <2>1. Solved(top)
    <3> HIDE DEF Solved
    <3> QED
      BY <1>4, <1>5
  <2> HIDE DEF Below
  <2> QED
    BY <1>5, <2>1
<1> DEFINE g == [n \in D |-> WorldOf(local, parent, R, f, n)]
<1>7. \A n \in D : WorldOf(local, parent, R, f, n) = WorldOf(local, parent, R, g, n)
  <2>1. \A n \in D : n \in R /\ parent[n] # NoNode => parent[n] \in D
    BY <1>1, <1>3
  <2>2. \A n \in D : g[n] = f[n]
    BY <1>6
  <2> HIDE DEF g
  <2> QED
    BY <2>1, <2>2 DEF WorldOf
<1>8. g = [n \in D |-> WorldOf(local, parent, R, g, n)]
  <2> DEFINE h == [n \in D |-> WorldOf(local, parent, R, g, n)]
  <2>1. \A n \in D : g[n] = h[n]
    BY <1>7
  <2>2. g = [n \in D |-> g[n]] /\ h = [n \in D |-> h[n]]
    OBVIOUS
  <2>3. g = h
    <3> HIDE DEF g, h
    <3> QED
      BY <2>1, <2>2
  <2> QED
    BY <2>3
<1>9. Kinematics(g, local, parent, R)
  <2> HIDE DEF g
  <2> QED
    BY <1>1, <1>8 DEF Kinematics
<1> QED
  BY <1>9 DEF R

\* The world rotation of a node is its own under that of its parent.
LEMMA WorldAt ==
  ASSUME NEW D, NEW parent, Hierarchy(parent, D), NEW local
  PROVE  /\ WorldRotations(local, parent) = [n \in D |-> WorldRotations(local, parent)[n]]
         /\ \A n \in D : WorldRotations(local, parent)[n] =
                           WorldOf(local, parent, Reached(parent), WorldRotations(local, parent), n)
<1> DEFINE R == Reached(parent)
           W == CHOOSE f : Kinematics(f, local, parent, R)
<1>1. WorldRotations(local, parent) = W
  BY DEF WorldRotations, Kinematics, WorldOf
<1>2. Kinematics(W, local, parent, R)
  BY KinematicsExist
<1>3. DOMAIN parent = D
  BY DEF Hierarchy
<1> HIDE DEF W
<1>4. W = [n \in D |-> WorldOf(local, parent, R, W, n)]
  BY <1>2, <1>3 DEF Kinematics
<1>5. \A f, h : f = [n \in D |-> h[n]] => f = [n \in D |-> f[n]] /\ \A n \in D : f[n] = h[n]
  OBVIOUS
<1> DEFINE h == [n \in D |-> WorldOf(local, parent, R, W, n)]
<1>6. W = [n \in D |-> W[n]] /\ \A n \in D : W[n] = h[n]
  <2>1. h = [n \in D |-> h[n]] /\ W = h
    BY <1>4
  <2> HIDE DEF h
  <2> QED
    BY <1>5, <2>1
<1> QED
  BY <1>1, <1>6

\* It is a rotation if all of them are.
LEMMA WorldType ==
  ASSUME NEW D, NEW parent, Hierarchy(parent, D), NEW local \in [D -> Rotation]
  PROVE  WorldRotations(local, parent) \in [D -> Rotation]
<1> DEFINE R == Reached(parent)
           W == WorldRotations(local, parent)
<1>1. NoNode \notin D /\ R \subseteq D \cup {NoNode}
  BY Ranked DEF Hierarchy
<1>2. PICK top \in Nat : \E rank \in [R -> 0..top] :
         \A n \in R \ {NoNode} : parent[n] \in R /\ rank[parent[n]] < rank[n]
  BY Ranked
<1>3. PICK rank \in [R -> 0..top] :
         \A n \in R \ {NoNode} : parent[n] \in R /\ rank[parent[n]] < rank[n]
  BY <1>2
<1>4. W = [n \in D |-> W[n]] /\ \A n \in D : W[n] = WorldOf(local, parent, R, W, n)
  BY WorldAt
<1> HIDE DEF R, W
<1> DEFINE Bad == {rank[n] : n \in {m \in R \ {NoNode} : W[m] \notin Rotation}}
<1>5. Bad = {}
  <2>1. SUFFICES ASSUME Bad # {} PROVE FALSE
    OBVIOUS
  <2>2. PICK k \in Bad : \A j \in Bad : k <= j
    <3>1. Bad \in SUBSET Nat
      BY <1>3
    <3> HIDE DEF Bad
    <3> QED
      BY <2>1, <3>1, Least
  <2>3. PICK n \in R \ {NoNode} : W[n] \notin Rotation /\ k = rank[n]
    BY <2>2
  <2>4. n \in D /\ parent[n] \in R /\ rank[parent[n]] < rank[n]
        /\ rank[n] \in 0..top /\ rank[parent[n]] \in 0..top
    BY <1>1, <1>3, <2>3
  <2>5. CASE parent[n] = NoNode
    BY <1>4, <2>3, <2>4, <2>5 DEF WorldOf
  <2>6. CASE parent[n] # NoNode
    <3>1. W[parent[n]] \in Rotation
      <4>1. SUFFICES ASSUME W[parent[n]] \notin Rotation PROVE FALSE
        OBVIOUS
      <4>2. rank[parent[n]] \in Bad
        BY <2>4, <2>6, <4>1
      <4>3. k <= rank[parent[n]]
        BY <2>2, <4>2
      <4> QED
        BY <2>3, <2>4, <4>3
    <3>2. W[n] = W[parent[n]] ** local[n]
      BY <1>4, <2>3, <2>4, <2>6 DEF WorldOf
    <3> QED
      BY <2>3, <2>4, <3>1, <3>2, ProductAt
  <2> QED
    BY <2>5, <2>6
<1>6. ASSUME NEW n \in D PROVE W[n] \in Rotation
  <2>1. CASE n \in R
    BY <1>1, <1>5, <2>1
  <2>2. CASE n \notin R
    BY <1>4, <2>2, IdentityAt DEF WorldOf
  <2> QED
    BY <2>1, <2>2
<1>7. W \in [D -> Rotation]
  BY <1>4, <1>6
<1> QED
  BY <1>7 DEF W

\* It depends on the rotations of the nodes above only.
LEMMA WorldAgrees ==
  ASSUME NEW D, NEW parent, Hierarchy(parent, D), NEW local, NEW other,
         NEW A \in SUBSET D, \A n \in A : /\ local[n] = other[n]
                                          /\ parent[n] = NoNode \/ parent[n] \in A
  PROVE  \A n \in A : WorldRotations(local, parent)[n] = WorldRotations(other, parent)[n]
<1> DEFINE R == Reached(parent)
           V == WorldRotations(local, parent)
           W == WorldRotations(other, parent)
<1>1. NoNode \notin D /\ R \subseteq D \cup {NoNode}
  BY Ranked DEF Hierarchy
<1>2. PICK top \in Nat : \E rank \in [R -> 0..top] :
         \A n \in R \ {NoNode} : parent[n] \in R /\ rank[parent[n]] < rank[n]
  BY Ranked
<1>3. PICK rank \in [R -> 0..top] :
         \A n \in R \ {NoNode} : parent[n] \in R /\ rank[parent[n]] < rank[n]
  BY <1>2
<1>4. \A n \in D : /\ V[n] = WorldOf(local, parent, R, V, n)
                   /\ W[n] = WorldOf(other, parent, R, W, n)
  BY WorldAt
<1> HIDE DEF R, V, W
<1> DEFINE Bad == {rank[n] : n \in {m \in R \cap A : V[m] # W[m]}}
<1>5. Bad = {}
  <2>1. SUFFICES ASSUME Bad # {} PROVE FALSE
    OBVIOUS
  <2>2. PICK k \in Bad : \A j \in Bad : k <= j
    <3>1. Bad \in SUBSET Nat
      BY <1>3
    <3> HIDE DEF Bad
    <3> QED
      BY <2>1, <3>1, Least
  <2>3. PICK n \in R \cap A : V[n] # W[n] /\ k = rank[n]
    BY <2>2
  <2>4. n \in D /\ n \in R \ {NoNode} /\ parent[n] \in R /\ rank[parent[n]] < rank[n]
        /\ rank[n] \in 0..top /\ rank[parent[n]] \in 0..top
    BY <1>1, <1>3, <2>3
  <2>5. CASE parent[n] = NoNode
    BY <1>4, <2>3, <2>4, <2>5 DEF WorldOf
  <2>6. CASE parent[n] # NoNode
    <3>1. V[parent[n]] = W[parent[n]]
      <4>1. SUFFICES ASSUME V[parent[n]] # W[parent[n]] PROVE FALSE
        OBVIOUS
      <4>2. rank[parent[n]] \in Bad
        BY <2>3, <2>4, <2>6, <4>1
      <4>3. k <= rank[parent[n]]
        BY <2>2, <4>2
      <4> QED
        BY <2>3, <2>4, <4>3
    <3> QED
      BY <1>4, <2>3, <2>4, <2>6, <3>1 DEF WorldOf
  <2> QED
    BY <2>5, <2>6
<1>6. ASSUME NEW n \in A PROVE V[n] = W[n]
  <2>1. CASE n \in R
    BY <1>5, <2>1
  <2>2. CASE n \notin R
    BY <1>4, <2>2 DEF WorldOf
  <2> QED
    BY <2>1, <2>2
<1> QED
  BY <1>6 DEF V, W

----------------------------------------------------------------------------
(* The clips.                                                              *)

\* What the player needs of a channel, and of a clip.
GoodChannel(c) ==
  /\ c.times \in Seq(Nat) \ {<<>>} /\ c.rots \in Seq(Rotation)
  /\ Len(c.times) <= Len(c.rots)

GoodClip(clip) ==
  /\ clip.duration \in Nat
  /\ IsFiniteSet(DOMAIN clip.channels) /\ DOMAIN clip.channels \subseteq Nat
  /\ \A n \in DOMAIN clip.channels : GoodChannel(clip.channels[n])

\* No clip is one.
LEMMA NoClipType == GoodClip(NoClip)
<1>1. NoClip.duration = 0 /\ DOMAIN NoClip.channels = {}
  BY DEF NoClip
<1> QED
  BY <1>1, FS_EmptySet DEF GoodClip

\* A channel list with numbered nodes lasts as long as its last key.
LEMMA DurationType ==
  ASSUME NEW S, IsFiniteSet(S), NEW channels, DOMAIN channels = S,
         \A n \in S : channels[n].times \in Seq(Nat)
  PROVE  Duration(channels) \in Nat
<1> DEFINE U == {n \in S : channels[n].times # <<>>}
           f == [n \in U |-> Last(channels[n].times)]
<1>1. IsFiniteSet(U)
  BY FS_Subset
<1>2. f \in [U -> Nat]
  BY DEF Last
<1>3. {f[n] : n \in U} = {Last(channels[n].times) : n \in U}
  OBVIOUS
<1>4. Duration(channels) = Max({0} \cup {f[n] : n \in U})
  BY <1>3 DEF Duration
<1> HIDE DEF f, U
<1> QED
  BY <1>1, <1>2, <1>4, ImageMax

\* What a bone has turned is a rotation.
LEMMA DeltaType ==
  ASSUME NEW world \in Rotation, NEW rest \in Rotation
  PROVE  WorldDelta(world, rest) \in Rotation
<1>1. HalfY \in Rotation
  BY TurnsType DEF HalfY
<1>2. \A p, q \in Rotation : p ** q \in Rotation
  BY ProductAt
<1>3. Inv(rest) \in Rotation
  BY InverseAt
<1> QED
  BY <1>1, <1>2, <1>3 DEF WorldDelta, ConjugateY180

\* What retargeting is given: a skeleton and the channels of some of its nodes.
Source(skeleton, channels, D) ==
  /\ Hierarchy(skeleton.parent, D) /\ D \subseteq Nat
  /\ skeleton.rest \in [D -> Rotation]
  /\ DOMAIN channels \subseteq D
  /\ \A n \in DOMAIN channels : channels[n].times \in Seq(Nat) /\ channels[n].rots \in Seq(Rotation)

\* The skeleton has a rotation for each node in each frame.
LEMMA FrameLocalType ==
  ASSUME NEW skeleton, NEW channels, NEW D, Source(skeleton, channels, D), NEW k \in Nat \ {0}
  PROVE  FrameLocal(skeleton, channels, k) \in [D -> Rotation]
<1>1. DOMAIN skeleton.parent = D
  BY DEF Source, Hierarchy
<1>2. \A n \in DOMAIN channels : k <= Len(channels[n].rots) => channels[n].rots[k] \in Rotation
  BY DEF Source
<1>3. \A n \in D : skeleton.rest[n] \in Rotation
  BY DEF Source
<1> QED
  BY <1>1, <1>2, <1>3 DEF FrameLocal
\* The clip of such a skeleton and its channels is good.
LEMMA RetargetType ==
  ASSUME NEW skeleton, NEW channels, NEW D, Source(skeleton, channels, D), NEW duration \in Nat
  PROVE  GoodClip(Retarget(skeleton, channels, duration))
<1> DEFINE bones     == {n \in DOMAIN channels : skeleton.name[n] \in DOMAIN MixamoToVrm}
           bone(n)   == MixamoToVrm[skeleton.name[n]]
           above(n)  == LET ps == {p \in bones : /\ bone(n) \in DOMAIN VrmParent
                                                 /\ bone(p) = VrmParent[bone(n)]}
                        IN  IF ps = {} THEN NoNode ELSE Max(ps)
           frames    == Max({0} \cup {Len(channels[n].times) : n \in DOMAIN channels})
           worldRest == WorldRotations(skeleton.rest, skeleton.parent)
           world(k)  == WorldRotations(FrameLocal(skeleton, channels, k), skeleton.parent)
           deltas    == [k \in 1..frames |-> [n \in bones |-> WorldDelta(world(k)[n], worldRest[n])]]
           kept      == {m \in bones : channels[m].times # <<>>}
           made      == [n \in kept |-> [bone  |-> bone(n),
                                        times |-> channels[n].times,
                                        rots  |-> [k \in 1..frames |-> LocalDelta(deltas[k], above(n), n)]]]
<1>1. Retarget(skeleton, channels, duration) =
        IF frames = 0 THEN NoClip ELSE [channels |-> made, duration |-> duration]
  BY DEF Retarget
<1>2. /\ IsFiniteSet(D) /\ D \subseteq Nat /\ DOMAIN channels \subseteq D
      /\ \A n \in DOMAIN channels : channels[n].times \in Seq(Nat)
  BY DEF Source, Hierarchy
<1>3. IsFiniteSet(DOMAIN channels) /\ IsFiniteSet(bones) /\ IsFiniteSet(kept)
  <2>1. IsFiniteSet(DOMAIN channels)
    BY <1>2, FS_Subset
  <2> QED
    BY <2>1, FS_Subset
<1>4. frames \in Nat /\ \A n \in DOMAIN channels : Len(channels[n].times) <= frames
  <2> DEFINE f == [n \in DOMAIN channels |-> Len(channels[n].times)]
  <2>1. f \in [DOMAIN channels -> Nat]
    BY <1>2
  <2>2. frames = Max({0} \cup {f[n] : n \in DOMAIN channels})
    OBVIOUS
  <2>3. \A n \in DOMAIN channels : Len(channels[n].times) = f[n]
    OBVIOUS
  <2> HIDE DEF f, frames
  <2> QED
    BY <1>3, <2>1, <2>2, <2>3, ImageMax
<1>5. worldRest \in [D -> Rotation]
  BY WorldType DEF Source
<1>6. ASSUME NEW k \in 1..frames, NEW n \in bones
      PROVE  deltas[k][n] \in Rotation
  <2>1. k \in Nat \ {0}
    BY <1>4
  <2>2. FrameLocal(skeleton, channels, k) \in [D -> Rotation]
    BY <2>1, FrameLocalType
  <2>3. world(k) \in [D -> Rotation]
    BY <2>2, WorldType DEF Source
  <2>4. n \in D /\ deltas[k][n] = WorldDelta(world(k)[n], worldRest[n])
    BY <1>2
  <2> HIDE DEF world, worldRest, deltas
  <2> QED
    BY <1>5, <2>3, <2>4, DeltaType
<1>7. ASSUME NEW n \in bones
      PROVE  above(n) = NoNode \/ above(n) \in bones
  <2> DEFINE ps == {p \in bones : /\ bone(n) \in DOMAIN VrmParent
                                  /\ bone(p) = VrmParent[bone(n)]}
  <2>1. ps \subseteq bones /\ ps \subseteq Nat
    BY <1>2
  <2>2. above(n) = IF ps = {} THEN NoNode ELSE Max(ps)
    OBVIOUS
  <2> HIDE DEF ps, above, bones
  <2>3. IsFiniteSet(ps)
    BY <1>3, <2>1, FS_Subset
  <2> QED
    BY <2>1, <2>2, <2>3, FiniteMax
<1>8. ASSUME NEW n \in kept
      PROVE  GoodChannel(made[n])
  <2> DEFINE rots == [k \in 1..frames |-> LocalDelta(deltas[k], above(n), n)]
  <2>1. made[n].times = channels[n].times /\ made[n].rots = rots
    OBVIOUS
  <2>2. n \in bones /\ n \in DOMAIN channels /\ channels[n].times # <<>>
    OBVIOUS
  <2>3. ASSUME NEW k \in 1..frames
        PROVE  rots[k] \in Rotation
    <3>1. rots[k] = LocalDelta(deltas[k], above(n), n)
      OBVIOUS
    <3>2. \A p, q \in Rotation : Inv(p) ** q \in Rotation
      BY ProductAt, InverseAt
    <3> HIDE DEF rots, deltas, above, bones, frames
    <3> QED
      BY <1>6, <1>7, <2>2, <3>1, <3>2 DEF LocalDelta
  <2>4. rots = [k \in 1..frames |-> rots[k]]
    OBVIOUS
  <2> HIDE DEF rots, frames, made
  <2>5. rots \in Seq(Rotation) /\ Len(rots) = frames
    <3>1. rots \in [1..frames -> Rotation]
      BY <2>3, <2>4
    <3> QED
      BY <1>4, <3>1
  <2> QED
    BY <1>2, <1>4, <2>1, <2>2, <2>5 DEF GoodChannel
<1> DEFINE clip == [channels |-> made, duration |-> duration]
<1>9. GoodClip(clip)
  <2>1. clip.duration = duration /\ clip.channels = made
    OBVIOUS
  <2>2. DOMAIN made = kept /\ kept \subseteq Nat
    BY <1>2
  <2> HIDE DEF made, kept, clip
  <2> QED
    BY <1>3, <1>8, <2>1, <2>2 DEF GoodClip
<1>10. GoodClip(NoClip)
  BY NoClipType
<1> HIDE DEF clip, frames
<1>11. Retarget(skeleton, channels, duration) = IF frames = 0 THEN NoClip ELSE clip
  BY <1>1 DEF clip
<1> QED
  BY <1>9, <1>10, <1>11

\* A glTF file gives a good clip.
LEMMA GlbType ==
  ASSUME NEW file, GlbFile(file)
  PROVE  GoodClip(LoadGlb(file))
<1> DEFINE nodes    == DOMAIN file.rest
           turns    == {i \in DOMAIN file.channels : /\ file.channels[i].property = "rotation"
                                                     /\ file.channels[i].readable}
           turning  == {file.channels[i].node : i \in turns}
           channels == [n \in turning |-> file.channels[Max({i \in turns : file.channels[i].node = n})]]
           skeleton == [name |-> file.name, rest |-> file.rest, parent |-> file.parent]
           listed   == [i \in turns |-> file.channels[i]]
           Kind     == [property : STRING, node : nodes, readable : BOOLEAN,
                        times : Seq(Nat), rots : Seq(Rotation)]
<1>1. LoadGlb(file) = Retarget(skeleton, channels, Duration(listed))
  BY DEF LoadGlb
<1>2. Hierarchy(file.parent, nodes) /\ nodes \subseteq Nat /\ file.rest \in [nodes -> Rotation]
  BY DEF GlbFile, Hierarchy
<1>3. file.channels \in Seq(Kind)
  BY DEF GlbFile
<1>4. \A x \in Kind : x.node \in nodes /\ x.times \in Seq(Nat) /\ x.rots \in Seq(Rotation)
  OBVIOUS
<1> HIDE DEF Kind, nodes
<1>5. PICK k \in Nat : DOMAIN file.channels = 1..k /\ file.channels \in [1..k -> Kind]
  BY <1>3
<1>6. IsFiniteSet(turns) /\ turns \subseteq Nat /\ \A i \in turns : file.channels[i] \in Kind
  <2>1. turns \subseteq 1..k /\ IsFiniteSet(1..k)
    BY <1>5, FS_Interval
  <2> QED
    BY <1>5, <2>1, FS_Subset
<1>7. Duration(listed) \in Nat
  <2>1. DOMAIN listed = turns /\ \A i \in turns : listed[i].times \in Seq(Nat)
    BY <1>4, <1>6
  <2> HIDE DEF listed, turns
  <2> QED
    BY <1>6, <2>1, DurationType
<1>8. ASSUME NEW n \in turning
      PROVE  n \in nodes /\ channels[n] \in Kind
  <2> DEFINE mine == {i \in turns : file.channels[i].node = n}
  <2>1. n \in nodes /\ mine # {} /\ mine \subseteq turns
    BY <1>4, <1>6
  <2>2. channels[n] = file.channels[Max(mine)]
    OBVIOUS
  <2> HIDE DEF mine, channels, turns
  <2>3. Max(mine) \in turns
    BY <1>6, <2>1, FS_Subset, FiniteMax
  <2> QED
    BY <1>6, <2>1, <2>2, <2>3
<1>9. Source(skeleton, channels, nodes)
  <2>1. skeleton.parent = file.parent /\ skeleton.rest = file.rest /\ DOMAIN channels = turning
    OBVIOUS
  <2> HIDE DEF skeleton, channels, turning
  <2> QED
    BY <1>2, <1>4, <1>8, <2>1 DEF Source
<1> HIDE DEF skeleton, channels, listed
<1> QED
  BY <1>1, <1>7, <1>9, RetargetType

\* Angles in quarter turns are a rotation.
LEMMA EulerType ==
  ASSUME NEW e, e[1] \in Int, e[2] \in Int, e[3] \in Int
  PROVE  EulerXyz(e) \in Rotation
<1>1. Turns(TurnZ, e[3]) \in Rotation /\ Turns(TurnY, e[2]) \in Rotation /\ Turns(TurnX, e[1]) \in Rotation
  BY TurnsType
<1> QED
  BY <1>1, ProductAt DEF EulerXyz

\* The keys of a curve node: axes are some of the three axes, with curves.
LEMMA FbxChannelType ==
  ASSUME NEW file, FbxFile(file), NEW which \in DOMAIN file.models, NEW axes,
         DOMAIN axes # {}, DOMAIN axes \subseteq 1..3,
         \A a \in DOMAIN axes : axes[a] \in Curves(file)
  PROVE  LET c == FbxChannel(file, file.models[which], axes)
         IN  c.times \in Seq(Nat) /\ c.rots \in Seq(Rotation)
<1> DEFINE mo       == file.models[which]
           curve(a) == file.curves[axes[a]]
           has(k)   == {a \in DOMAIN axes : k <= Len(curve(a).values)}
           length   == [a \in DOMAIN axes |-> Len(curve(a).values)]
           lengths  == {Len(curve(a).values) : a \in DOMAIN axes}
           keys     == Max(lengths)
           lcl(k)   == [a \in 1..3 |-> IF a \in has(k) THEN curve(a).values[k] ELSE mo.lcl[a]]
           times    == [k \in 1..keys |-> curve(Min(has(k))).times[k]]
           rots     == [k \in 1..keys |-> FbxLocal(mo, lcl(k))]
<1>1. FbxChannel(file, mo, axes) = [times |-> times, rots |-> rots]
  BY DEF FbxChannel
<1>2. \A a \in DOMAIN axes : /\ curve(a).times \in Seq(Nat) /\ curve(a).values \in Seq(Int)
                             /\ Len(curve(a).times) = Len(curve(a).values)
  BY DEF FbxFile, Curves
<1>3. /\ mo.pre[1] \in Int /\ mo.pre[2] \in Int /\ mo.pre[3] \in Int
      /\ \A a \in 1..3 : mo.lcl[a] \in Int
  BY DEF FbxFile
<1>4. keys \in lengths /\ lengths \subseteq Nat
  <2>1. lengths \subseteq Nat /\ lengths # {}
    <3>1. \A a \in DOMAIN axes : Len(curve(a).values) \in Nat
      <4> HIDE DEF curve
      <4> QED
        BY <1>2
    <3> QED
      BY <3>1
  <2>2. IsFiniteSet(DOMAIN axes)
    <3>1. \A n \in Nat : IsFiniteSet(1..n)
      BY FS_Interval
    <3>2. PICK n \in Nat : DOMAIN axes \subseteq 1..n
      OBVIOUS
    <3> QED
      BY <3>1, <3>2, FS_Subset
  <2>3. length \in Surjection(DOMAIN axes, lengths)
    BY DEF Surjection
  <2> HIDE DEF length, lengths
  <2> QED
    BY <2>1, <2>2, <2>3, FS_Surjection, FiniteMax
<1>5. keys \in Nat /\ \E a \in DOMAIN axes : keys = Len(curve(a).values)
  <2> HIDE DEF keys
  <2> QED
    BY <1>4
<1> HIDE DEF keys, mo
<1>6. ASSUME NEW k \in 1..keys
      PROVE  times[k] \in Nat /\ rots[k] \in Rotation
  <2>1. has(k) # {} /\ has(k) \subseteq DOMAIN axes /\ has(k) \in SUBSET Nat /\ k \in Nat
    BY <1>5
  <2>2. Min(has(k)) \in has(k)
    <3> HIDE DEF has
    <3> QED
      BY <2>1, FiniteMin
  <2>3. ASSUME NEW a \in has(k)
        PROVE  curve(a).times[k] \in Nat /\ curve(a).values[k] \in Int
    <3>1. a \in DOMAIN axes /\ k <= Len(curve(a).values)
      OBVIOUS
    <3> HIDE DEF has, curve
    <3>2. k \in 1..Len(curve(a).values) /\ k \in 1..Len(curve(a).times)
      BY <1>2, <1>5, <3>1
    <3> QED
      BY <1>2, <3>1, <3>2
  <2>4. times[k] = curve(Min(has(k))).times[k] /\ rots[k] = FbxLocal(mo, lcl(k))
    OBVIOUS
  <2>5. \A a \in 1..3 : lcl(k)[a] \in Int
    <3> HIDE DEF has, curve
    <3> QED
      BY <1>3, <2>3
  <2> HIDE DEF has, curve, lcl
  <2>6. EulerXyz(mo.pre) \in Rotation /\ EulerXyz(lcl(k)) \in Rotation
    BY <1>3, <2>5, EulerType
  <2> HIDE DEF times, rots
  <2> QED
    BY <2>2, <2>3, <2>4, <2>6, ProductAt DEF FbxLocal
<1>7. times \in Seq(Nat) /\ rots \in Seq(Rotation)
  <2>1. times = [k \in 1..keys |-> times[k]] /\ rots = [k \in 1..keys |-> rots[k]]
    OBVIOUS
  <2> HIDE DEF times, rots
  <2>2. times \in [1..keys -> Nat] /\ rots \in [1..keys -> Rotation]
    BY <1>6, <2>1
  <2> QED
    BY <1>5, <2>2
<1> HIDE DEF times, rots
<1> QED
  BY <1>1, <1>7 DEF mo

\* The tables of the connections hold models, curve nodes and curves.
LEMMA LinksType ==
  ASSUME NEW file, FbxFile(file)
  PROVE  LET links == FbxLinks(file)
         IN  /\ DOMAIN links.parent \subseteq DOMAIN file.models
             /\ \A c \in DOMAIN links.parent : links.parent[c].parent \in DOMAIN file.models
             /\ DOMAIN links.ofModel \subseteq file.curveNodes
             /\ \A c \in DOMAIN links.ofModel : links.ofModel[c].parent \in DOMAIN file.models
             /\ DOMAIN links.ofNode \subseteq Curves(file)
<1> DEFINE ok(l, children, parents, kinds) == l.kind \in kinds /\ l.child \in children /\ l.parent \in parents
           mine(c, children, parents, kinds) ==
             {i \in DOMAIN file.links : ok(file.links[i], children, parents, kinds) /\ file.links[i].child = c}
           linked(children, parents, kinds) ==
             {c \in children : \E i \in DOMAIN file.links :
                 ok(file.links[i], children, parents, kinds) /\ file.links[i].child = c}
           pick(children, parents, kinds) ==
             [c \in linked(children, parents, kinds) |-> file.links[Max(mine(c, children, parents, kinds))]]
           models == DOMAIN file.models
           links  == FbxLinks(file)
<1>1. \A children, parents, kinds :
        /\ DOMAIN pick(children, parents, kinds) \subseteq children
        /\ \A c \in DOMAIN pick(children, parents, kinds) :
             pick(children, parents, kinds)[c].parent \in parents
  <2> TAKE children, parents, kinds
  <2>1. ASSUME NEW c \in linked(children, parents, kinds)
        PROVE  pick(children, parents, kinds)[c].parent \in parents
    <3> DEFINE J == mine(c, children, parents, kinds)
    <3>1. J # {} /\ J \subseteq DOMAIN file.links /\ \A i \in J : file.links[i].parent \in parents
      OBVIOUS
    <3>2. pick(children, parents, kinds)[c] = file.links[Max(J)]
      OBVIOUS
    <3> HIDE DEF J, pick
    <3> DEFINE Link == [kind : STRING, child : Nat, parent : Nat, label : STRING]
    <3>3. file.links \in Seq(Link)
      BY DEF FbxFile
    <3> HIDE DEF Link
    <3>4. Max(J) \in J
      BY <3>1, <3>3, GreatestIndex
    <3> QED
      BY <3>1, <3>2, <3>4
  <2> QED
    BY <2>1
<1>2. /\ links.parent = pick(models, models, {"OO"})
      /\ links.ofModel = pick(file.curveNodes, models, {"OP"})
      /\ links.ofNode = pick(Curves(file), file.curveNodes, {"OP", "OO"})
  BY DEF FbxLinks, LastWith
<1> HIDE DEF pick, links
<1> QED
  BY <1>1, <1>2 DEF links

\* The axes of a curve node, by their numbers.
AxesOf(links, cn) ==
  LET axisOf == [X |-> 1, Y |-> 2, Z |-> 3]
      mine   == {c \in DOMAIN links.ofNode : links.ofNode[c].parent = cn
                                             /\ links.ofNode[c].label \in DOMAIN axisOf}
  IN  Table({<<axisOf[links.ofNode[c].label], c>> : c \in mine})

\* What a table of pairs maps, and to what.
LEMMA TableAt ==
  ASSUME NEW pairs, NEW S, NEW T, pairs \subseteq S \X T
  PROVE  /\ DOMAIN Table(pairs) \subseteq S
         /\ \A key \in DOMAIN Table(pairs) : Table(pairs)[key] \in T
<1>1. \A p \in pairs : p[1] \in S /\ p[2] \in T
  OBVIOUS
<1>2. DOMAIN Table(pairs) = {p[1] : p \in pairs}
  BY DEF Table
<1>3. \A key \in DOMAIN Table(pairs) : \E p \in pairs : p[1] = key
  BY <1>2
<1>4. \A key \in DOMAIN Table(pairs) : Table(pairs)[key] = (CHOOSE p \in pairs : p[1] = key)[2]
  BY DEF Table
<1> QED
  BY <1>1, <1>2, <1>3, <1>4

\* They are some of the three axes, and have curves.
LEMMA AxesType ==
  ASSUME NEW links, NEW cn
  PROVE  /\ DOMAIN AxesOf(links, cn) \subseteq 1..3
         /\ \A a \in DOMAIN AxesOf(links, cn) : AxesOf(links, cn)[a] \in DOMAIN links.ofNode
<1> DEFINE axisOf == [X |-> 1, Y |-> 2, Z |-> 3]
           mine   == {c \in DOMAIN links.ofNode : links.ofNode[c].parent = cn
                                                  /\ links.ofNode[c].label \in DOMAIN axisOf}
           pairs  == {<<axisOf[links.ofNode[c].label], c>> : c \in mine}
<1>1. \A label \in DOMAIN axisOf : axisOf[label] \in 1..3
  OBVIOUS
<1>2. pairs \subseteq (1..3) \X (DOMAIN links.ofNode)
  <2> HIDE DEF axisOf
  <2> QED
    BY <1>1
<1>3. AxesOf(links, cn) = Table(pairs)
  BY DEF AxesOf
<1> HIDE DEF pairs
<1> QED
  BY <1>2, <1>3, TableAt

\* An FBX file gives a good clip.
LEMMA FbxType ==
  ASSUME NEW file, FbxFile(file)
  PROVE  GoodClip(LoadFbx(file))
<1> DEFINE links    == FbxLinks(file)
           models   == DOMAIN file.models
           rest     == [m \in models |-> FbxLocal(file.models[m], file.models[m].lcl)]
           parent   == [m \in models |-> IF m \in DOMAIN links.parent
                                         THEN links.parent[m].parent ELSE NoNode]
           skeleton == [name   |-> [m \in models |-> file.models[m].name],
                        rest   |-> rest,
                        parent |-> parent]
           turning  == {cn \in DOMAIN links.ofModel : links.ofModel[cn].label = "Rotation"
                                                      /\ DOMAIN AxesOf(links, cn) # {}}
           made     == [cn \in turning |->
                          FbxChannel(file, file.models[links.ofModel[cn].parent], AxesOf(links, cn))]
           turned   == {links.ofModel[cn].parent : cn \in turning}
           channels == [m \in turned |-> made[CHOOSE cn \in turning : links.ofModel[cn].parent = m]]
<1>1. LoadFbx(file) = Retarget(skeleton, channels, Duration(made))
  BY DEF LoadFbx, AxesOf
<1>2. /\ DOMAIN links.parent \subseteq models
      /\ \A c \in DOMAIN links.parent : links.parent[c].parent \in models
      /\ DOMAIN links.ofModel \subseteq file.curveNodes
      /\ \A c \in DOMAIN links.ofModel : links.ofModel[c].parent \in models
      /\ DOMAIN links.ofNode \subseteq Curves(file)
  BY LinksType
<1> HIDE DEF links
<1>3. IsFiniteSet(models) /\ models \subseteq Nat /\ NoNode \notin models
  BY DEF FbxFile
<1>4. Hierarchy(parent, models)
  BY <1>2, <1>3 DEF Hierarchy
<1>5. rest \in [models -> Rotation]
  <2>1. ASSUME NEW m \in models
        PROVE  FbxLocal(file.models[m], file.models[m].lcl) \in Rotation
    <3> DEFINE mo == file.models[m]
    <3>1. /\ mo.pre[1] \in Int /\ mo.pre[2] \in Int /\ mo.pre[3] \in Int
          /\ mo.lcl[1] \in Int /\ mo.lcl[2] \in Int /\ mo.lcl[3] \in Int
      <4> DEFINE euler == [1..3 -> Int]
      <4>1. \A x \in euler : x[1] \in Int /\ x[2] \in Int /\ x[3] \in Int
        OBVIOUS
      <4>2. mo.pre \in euler /\ mo.lcl \in euler
        BY DEF FbxFile
      <4> HIDE DEF euler, mo
      <4> QED
        BY <4>1, <4>2
    <3> HIDE DEF mo
    <3>2. EulerXyz(mo.pre) \in Rotation /\ EulerXyz(mo.lcl) \in Rotation
      BY <3>1, EulerType
    <3>3. FbxLocal(mo, mo.lcl) \in Rotation
      BY <3>2, ProductAt DEF FbxLocal
    <3> QED
      BY <3>3 DEF mo
  <2> QED
    BY <2>1
<1>6. ASSUME NEW cn \in turning
      PROVE  made[cn].times \in Seq(Nat) /\ made[cn].rots \in Seq(Rotation)
  <2> DEFINE axes == AxesOf(links, cn)
             m    == links.ofModel[cn].parent
  <2>1. /\ DOMAIN axes # {} /\ DOMAIN axes \subseteq 1..3
        /\ \A a \in DOMAIN axes : axes[a] \in Curves(file)
    BY <1>2, AxesType
  <2>2. m \in DOMAIN file.models
    BY <1>2
  <2>3. made[cn] = FbxChannel(file, file.models[m], axes)
    OBVIOUS
  <2> HIDE DEF axes, m, made
  <2> QED
    BY <2>1, <2>2, <2>3, FbxChannelType
<1>7. Duration(made) \in Nat
  <2>1. IsFiniteSet(turning)
    <3>1. IsFiniteSet(file.curveNodes) /\ turning \subseteq file.curveNodes
      BY <1>2 DEF FbxFile
    <3> QED
      BY <3>1, FS_Subset
  <2>2. DOMAIN made = turning
    OBVIOUS
  <2> HIDE DEF made, turning
  <2> QED
    BY <1>6, <2>1, <2>2, DurationType
<1>8. Source(skeleton, channels, models)
  <2>1. skeleton.parent = parent /\ skeleton.rest = rest /\ DOMAIN channels = turned
    OBVIOUS
  <2>2. ASSUME NEW m \in turned
        PROVE  m \in models /\ channels[m].times \in Seq(Nat) /\ channels[m].rots \in Seq(Rotation)
    <3> DEFINE it == CHOOSE cn \in turning : links.ofModel[cn].parent = m
    <3>1. it \in turning /\ m \in models /\ channels[m] = made[it]
      BY <1>2
    <3> HIDE DEF it, made, turning, channels
    <3> QED
      BY <1>6, <3>1
  <2> HIDE DEF skeleton, parent, rest, channels, turned
  <2> QED
    BY <1>3, <1>4, <1>5, <2>1, <2>2 DEF Source
<1> HIDE DEF skeleton, channels, made
<1> QED
  BY <1>1, <1>7, <1>8, RetargetType

\* So does every file, or none.
LEMMA ClipType ==
  ASSUME NEW f \in DOMAIN ClipFiles
  PROVE  GoodClip(LoadClip(ClipFiles[f]))
<1>1. GoodClip(NoClip)
  BY NoClipType
<1> DEFINE file == ClipFiles[f]
<1>2. (file.format = "glb" => GlbFile(file)) /\ (file.format = "fbx" => FbxFile(file))
  BY ClipFilesAssumption
<1> HIDE DEF file
<1>3. CASE file.format = "glb"
  BY <1>2, <1>3, GlbType DEF LoadClip, file
<1>4. CASE file.format = "fbx"
  BY <1>2, <1>4, FbxType DEF LoadClip, file
<1>5. CASE file.format # "glb" /\ file.format # "fbx"
  BY <1>1, <1>5 DEF LoadClip, file
<1> QED
  BY <1>3, <1>4, <1>5

\* What a player gives a bone is a rotation.
LEMMA SampleType ==
  ASSUME NEW c, GoodChannel(c), NEW t \in Nat
  PROVE  SampleRotation(c.times, c.rots, t) \subseteq Rotation
<1> DEFINE n == Len(c.times)
           L == Len(c.rots)
           times == c.times
           rots == c.rots
<1>1. /\ n \in Nat /\ n >= 1 /\ L \in Nat /\ n <= L
      /\ times \in [1..n -> Nat] /\ DOMAIN times = 1..n
      /\ rots \in [1..L -> Rotation]
      /\ Last(times) = times[n] /\ Last(rots) = rots[L]
  BY DEF GoodChannel, Last
<1> HIDE DEF n, L, times, rots
<1>2. SampleRotation(times, rots, t) =
        IF t <= times[1] THEN {rots[1]}
        ELSE IF t >= times[n] THEN {rots[L]}
        ELSE IF t \in ToSet(times) THEN {rots[k] : k \in {j \in 1..n : times[j] = t}}
        ELSE {rots[Max({j \in 1..n : times[j] < t})], rots[Max({j \in 1..n : times[j] < t}) + 1]}
  BY <1>1 DEF SampleRotation
<1>3. \A k \in 1..n : k \in 1..L
  BY <1>1
<1>4. ASSUME ~(t <= times[1]), ~(t >= times[n])
      PROVE  Max({j \in 1..n : times[j] < t}) \in 1..n /\ Max({j \in 1..n : times[j] < t}) + 1 \in 1..n
  <2> DEFINE J == {j \in 1..n : times[j] < t}
  <2>1. 1 \in J /\ n \notin J
    BY <1>1, <1>4
  <2>2. IsFiniteSet(J) /\ J \in SUBSET Nat
    <3>1. IsFiniteSet(1..n)
      BY <1>1, FS_Interval
    <3>2. J \subseteq 1..n /\ J \subseteq Nat
      BY <1>1
    <3> HIDE DEF J
    <3> QED
      BY <3>1, <3>2, FS_Subset
  <2> HIDE DEF J
  <2>3. Max(J) \in J
    BY <2>1, <2>2, FiniteMax
  <2>4. Max(J) \in 1..n /\ Max(J) # n
    BY <2>1, <2>3 DEF J
  <2>5. Max(J) + 1 \in 1..n
    BY <1>1, <2>4
  <2> QED
    BY <2>4, <2>5 DEF J
<1>5. rots[1] \in Rotation /\ rots[L] \in Rotation /\ \A k \in 1..n : rots[k] \in Rotation
  BY <1>1
<1>6. SampleRotation(times, rots, t) \subseteq Rotation
  <2> DEFINE top == Max({j \in 1..n : times[j] < t})
  <2>1. ~(t <= times[1]) /\ ~(t >= times[n]) => rots[top] \in Rotation /\ rots[top + 1] \in Rotation
    BY <1>4, <1>5
  <2> HIDE DEF top
  <2> QED
    BY <1>2, <1>5, <2>1 DEF top
<1> QED
  BY <1>6 DEF times, rots

\* A player whose clip is good.
GoodPlayer(p) ==
  /\ GoodClip(p.clip) /\ p.time \in Nat
  /\ \A b \in DOMAIN p.bind : p.bind[b] \in Rotation

\* It poses the bones with rotations.
LEMMA SamplesType ==
  ASSUME NEW p, GoodPlayer(p), NEW pose \in Samples(p), NEW b \in DOMAIN pose
  PROVE  pose[b] \in Rotation
<1> DEFINE channels == p.clip.channels
           bones    == {channels[n].bone : n \in DOMAIN channels}
           bind(x)  == IF x \in DOMAIN p.bind THEN p.bind[x] ELSE Identity
           mine(x)  == {n \in DOMAIN channels : channels[n].bone = x}
           poses(x) == LET c == channels[Max(mine(x))]
                       IN  {bind(x) ** r : r \in SampleRotation(c.times, c.rots, p.time)}
<1>1. CASE ~p.enabled
  <2>1. pose = <<>>
    BY <1>1 DEF Samples
  <2> QED
    BY <2>1
<1>2. CASE p.enabled
  <2>1. pose \in [bones -> UNION {poses(x) : x \in bones}] /\ \A x \in bones : pose[x] \in poses(x)
    BY <1>2 DEF Samples
  <2>2. b \in bones /\ pose[b] \in poses(b)
    <3> HIDE DEF bones, poses
    <3> QED
      BY <2>1
  <2> DEFINE c == channels[Max(mine(b))]
  <2>3. GoodChannel(c)
    <3>1. mine(b) # {} /\ mine(b) \subseteq DOMAIN channels
      BY <2>2
    <3>2. IsFiniteSet(DOMAIN channels) /\ DOMAIN channels \subseteq Nat
          /\ \A n \in DOMAIN channels : GoodChannel(channels[n])
      BY DEF GoodPlayer, GoodClip
    <3> HIDE DEF mine, channels
    <3> QED
      BY <3>1, <3>2, FS_Subset, FiniteMax
  <2>4. SampleRotation(c.times, c.rots, p.time) \subseteq Rotation
    <3> HIDE DEF c
    <3> QED
      BY <2>3, SampleType DEF GoodPlayer
  <2>5. bind(b) \in Rotation
    BY IdentityAt DEF GoodPlayer
  <2>6. PICK r \in SampleRotation(c.times, c.rots, p.time) : pose[b] = bind(b) ** r
    BY <2>2
  <2> HIDE DEF c, bind
  <2> QED
    BY <2>4, <2>5, <2>6, ProductAt
<1> QED
  BY <1>1, <1>2

----------------------------------------------------------------------------
(* The loader.                                                             *)

\* What the loader makes of a file whose nodes are D.
GoodModel(m, D) ==
  /\ Hierarchy(m.parent, D) /\ D \subseteq Nat
  /\ m.springNodes \in Seq(D)

\* The parents are a hierarchy.
LEMMA ParentsType ==
  ASSUME NEW file, VrmFile(file)
  PROVE  Hierarchy(NodeParents(file), Nodes(file)) /\ Nodes(file) \subseteq Nat
<1>1. PICK k \in Nat : Nodes(file) = 1..k
  BY SequenceDomain DEF VrmFile, Nodes
<1>2. IsFiniteSet(1..k)
  BY FS_Interval
<1>3. ASSUME NEW n \in Nodes(file)
      PROVE  NodeParents(file)[n] \in Nodes(file) \cup {NoNode}
  <2> DEFINE T == {NoNode} \cup {p \in Nodes(file) : n \in ToSet(file.children[p])}
  <2>1. T \subseteq (1..k) \cup {NoNode} /\ T \subseteq Nat /\ T # {}
    BY <1>1 DEF NoNode
  <2>2. NodeParents(file)[n] = Max(T)
    BY DEF NodeParents
  <2> HIDE DEF T
  <2>3. IsFiniteSet((1..k) \cup {NoNode})
    BY <1>2, FS_AddElement
  <2>4. Max(T) \in T
    BY <2>1, <2>3, FS_Subset, FiniteMax
  <2> QED
    BY <1>1, <2>1, <2>2, <2>4
<1>4. NodeParents(file) = [n \in Nodes(file) |-> NodeParents(file)[n]]
  BY DEF NodeParents
<1>5. NodeParents(file) \in [Nodes(file) -> Nodes(file) \cup {NoNode}]
  BY <1>3, <1>4
<1> QED
  BY <1>1, <1>2, <1>5 DEF Hierarchy, NoNode

\* The bones of a group are numbers.
LEMMA BonesType ==
  ASSUME NEW file, VrmFile(file), NEW g \in DOMAIN file.boneGroups
  PROVE  file.boneGroups[g].bones \in Seq(Nat)
<1> DEFINE S == [bones : Seq(Nat), colliderGroups : Seq(Nat)]
<1>1. \A x \in S : x.bones \in Seq(Nat)
  OBVIOUS
<1>2. file.boneGroups \in Seq(S)
  BY DEF VrmFile
<1> HIDE DEF S
<1> QED
  BY <1>1, <1>2, SequenceDomain

\* Those of a chain are nodes.
LEMMA ChainBonesType ==
  ASSUME NEW file, VrmFile(file), NEW g \in DOMAIN file.boneGroups
  PROVE  ChainBones(file, g) \in Seq(Nodes(file))
<1> DEFINE bones == file.boneGroups[g].bones
           parts == [i \in DOMAIN bones |-> IF bones[i] \in Nodes(file) THEN <<bones[i]>> ELSE <<>>]
<1>1. bones \in Seq(Nat)
  BY BonesType
<1>2. ChainBones(file, g) = FlattenSeq(parts)
  BY DEF ChainBones
<1> HIDE DEF bones
<1>3. PICK k \in Nat : DOMAIN bones = 1..k
  BY <1>1
<1>4. \A i \in 1..k : parts[i] \in Seq(Nodes(file))
  BY <1>3
<1>5. parts = [i \in 1..k |-> parts[i]]
  BY <1>3
<1> HIDE DEF parts
<1>6. parts \in Seq(Seq(Nodes(file)))
  BY <1>4, <1>5
<1> QED
  BY <1>2, <1>6, FlattenType

\* The chains are those of the groups.
LEMMA ChainsType ==
  ASSUME NEW file, VrmFile(file)
  PROVE  Chains(file) \in Seq({Chain(file, g) : g \in DOMAIN file.boneGroups})
<1> DEFINE T == {Chain(file, g) : g \in DOMAIN file.boneGroups}
           parts == [g \in DOMAIN file.boneGroups |->
                       IF ChainBones(file, g) = <<>> THEN <<>> ELSE <<Chain(file, g)>>]
<1>1. PICK k \in Nat : DOMAIN file.boneGroups = 1..k
  BY SequenceDomain DEF VrmFile
<1>2. Chains(file) = IF ~file.hasSecondary THEN <<>> ELSE FlattenSeq(parts)
  BY DEF Chains
<1>3. ASSUME NEW g \in 1..k PROVE parts[g] \in Seq(T)
  <2>1. Chain(file, g) \in T
    BY <1>1
  <2>2. parts[g] = IF ChainBones(file, g) = <<>> THEN <<>> ELSE <<Chain(file, g)>>
    BY <1>1
  <2> HIDE DEF T, parts
  <2> QED
    BY <2>1, <2>2
<1>4. parts = [g \in 1..k |-> parts[g]]
  BY <1>1
<1> HIDE DEF parts, T
<1>5. parts \in Seq(Seq(T))
  BY <1>3, <1>4
<1>6. Chains(file) \in Seq(T)
  BY <1>2, <1>5, FlattenType
<1> QED
  BY <1>6 DEF T

\* What the loader makes is a good model.
LEMMA LoadType ==
  ASSUME NEW file, VrmFile(file)
  PROVE  GoodModel(Load(file), Nodes(file))
<1> DEFINE T == {Chain(file, g) : g \in DOMAIN file.boneGroups}
           chains == Chains(file)
           lists == [c \in DOMAIN chains |-> chains[c].bones]
<1>1. chains \in Seq(T)
  BY ChainsType
<1>2. \A c \in T : c.bones \in Seq(Nodes(file))
  BY ChainBonesType DEF Chain
<1> HIDE DEF T, chains
<1>3. PICK k \in Nat : DOMAIN chains = 1..k /\ \A c \in 1..k : chains[c] \in T
  BY <1>1
<1>4. lists = [c \in 1..k |-> lists[c]] /\ \A c \in 1..k : lists[c] \in Seq(Nodes(file))
  BY <1>2, <1>3
<1> HIDE DEF lists
<1>5. lists \in Seq(Seq(Nodes(file)))
  BY <1>4
<1>6. FlattenSeq(lists) \in Seq(Nodes(file))
  BY <1>5, FlattenType
<1>7. Load(file).springNodes = FlattenSeq(lists) /\ Load(file).parent = NodeParents(file)
  BY DEF Load, lists, chains
<1> QED
  BY <1>6, <1>7, ParentsType DEF GoodModel

----------------------------------------------------------------------------
(* A pose of rotations.                                                    *)

\* The pose, and the pose the springs start from, are rotations.
LEMMA PoseWorldType ==
  ASSUME NEW m, NEW D, GoodModel(m, D), NEW rotations \in [D -> Rotation],
         NEW bones \in [DOMAIN m.humanoid -> Rotation]
  PROVE  /\ PoseWorld(m, rotations, bones) \in [D -> Rotation]
         /\ Clean(m, rotations, bones) \in [D -> Rotation]
<1> DEFINE Local(r) == [n \in DOMAIN r |-> IF BoneAt(m, n) = {} THEN r[n]
                                           ELSE bones[CHOOSE b \in BoneAt(m, n) : TRUE]]
           reset == [n \in DOMAIN rotations |->
                       IF n \in ToSet(m.springNodes) THEN Identity ELSE rotations[n]]
<1>1. ASSUME NEW r \in [D -> Rotation]
      PROVE  PoseWorld(m, r, bones) \in [D -> Rotation]
  <2>1. \A n : BoneAt(m, n) # {} => (CHOOSE b \in BoneAt(m, n) : TRUE) \in DOMAIN m.humanoid
    BY DEF BoneAt
  <2>2. Local(r) \in [D -> Rotation]
    BY <2>1
  <2>3. PoseWorld(m, r, bones) = WorldRotations(Local(r), m.parent)
    BY DEF PoseWorld
  <2>4. Hierarchy(m.parent, D)
    BY DEF GoodModel
  <2> HIDE DEF Local
  <2> QED
    BY <2>2, <2>3, <2>4, WorldType
<1>2. reset \in [D -> Rotation]
  BY IdentityAt
<1>3. Clean(m, rotations, bones) = PoseWorld(m, reset, bones)
  BY DEF Clean
<1> HIDE DEF reset
<1> QED
  BY <1>1, <1>2, <1>3

\* Where a swing goes.
LEMMA SwungType ==
  ASSUME NEW m, NEW D, GoodModel(m, D), NEW i \in DOMAIN m.springNodes
  PROVE  Swung(m, i) \in D \cup {NoNode}
<1>1. m.springNodes[i] \in D
  BY DEF GoodModel
<1> QED
  BY <1>1 DEF Swung, GoodModel, Hierarchy

\* The physics gives rotations, and so do they as the nodes' own.
LEMMA ResultsType ==
  ASSUME NEW m, NEW D, GoodModel(m, D), NEW clean \in [D -> Rotation],
         NEW S, S = DOMAIN m.springNodes, NEW swings \in [S -> Swings]
  PROVE  Results(m, clean, swings) \in [S -> Rotation]
<1>1. ASSUME NEW i \in S
      PROVE  (IF Swung(m, i) = NoNode THEN Identity ELSE swings[i] ** clean[Swung(m, i)]) \in Rotation
  <2>1. Swung(m, i) \in D \cup {NoNode} /\ swings[i] \in Rotation
    BY SwungType, SwingsAssumption
  <2> QED
    BY <2>1, IdentityAt, ProductAt
<1> QED
  BY <1>1 DEF Results

\* Results written to the nodes leave rotations there.
LEMMA ApplyType ==
  ASSUME NEW m, NEW D, GoodModel(m, D), NEW rotations \in [D -> Rotation],
         NEW clean \in [D -> Rotation], NEW results \in [DOMAIN m.springNodes -> Rotation]
  PROVE  ApplyResults(m, Restored(m, rotations), clean, results) \in [D -> Rotation]
<1> DEFINE mine(n) == {i \in DOMAIN results : Swung(m, i) = n}
           restored == Restored(m, rotations)
<1>1. restored \in [D -> Rotation]
  BY IdentityAt DEF Restored
<1> HIDE DEF restored
<1>2. ASSUME NEW n \in D
      PROVE  ApplyResults(m, restored, clean, results)[n] \in Rotation
  <2>1. ApplyResults(m, restored, clean, results)[n] =
          IF mine(n) = {} THEN restored[n] ELSE Inv(AboveWorld(m, clean, n)) ** results[Max(mine(n))]
    BY <1>1 DEF ApplyResults
  <2>2. AboveWorld(m, clean, n) \in Rotation
    BY IdentityAt DEF AboveWorld, GoodModel, Hierarchy
  <2>3. mine(n) # {} => results[Max(mine(n))] \in Rotation
    <3>1. mine(n) \subseteq DOMAIN m.springNodes
      OBVIOUS
    <3> HIDE DEF mine
    <3> QED
      BY <3>1, GreatestIndex DEF GoodModel
  <2> HIDE DEF mine
  <2> QED
    BY <1>1, <2>1, <2>2, <2>3, ProductAt, InverseAt
<1>3. ApplyResults(m, restored, clean, results) =
        [n \in D |-> ApplyResults(m, restored, clean, results)[n]]
  BY <1>1 DEF ApplyResults
<1>4. ApplyResults(m, restored, clean, results) \in [D -> Rotation]
  BY <1>2, <1>3
<1> QED
  BY <1>4 DEF restored

----------------------------------------------------------------------------
(* The type invariant.                                                     *)

\* The pose and the clips are made of rotations, the model is the file's.
PoseType ==
  /\ avatar \in DOMAIN Avatars /\ model = Load(Avatars[avatar])
  /\ DOMAIN library = DOMAIN ClipFiles
  /\ \A f \in DOMAIN library : GoodClip(library[f].clip)
  /\ nodeRot \in [Nodes(Avatars[avatar]) -> Rotation]
  /\ boneRot \in [DOMAIN model.humanoid -> Rotation]
  /\ GoodPlayer(idle)
  /\ swung \in [DOMAIN model.springNodes -> Rotation]
  /\ drawn \in [Nodes(Avatars[avatar]) -> Rotation]

\* The loaded model is good.
LEMMA ModelType ==
  ASSUME PoseType
  PROVE  GoodModel(model, Nodes(Avatars[avatar]))
BY LoadType, AvatarsAssumption DEF PoseType

\* A pose taken from the nodes, and a player made with it.
LEMMA FromNodesType ==
  ASSUME NEW m, NEW D, NEW rotations \in [D -> Rotation]
  PROVE  FromNodes(m, rotations) \in [DOMAIN m.humanoid -> Rotation]
BY IdentityAt DEF FromNodes, BoneRest

\* A player made from a clip of the library is good.
LEMMA LoadIdleType ==
  ASSUME NEW m, NEW D, NEW rotations \in [D -> Rotation],
         NEW f \in DOMAIN library, GoodClip(library[f].clip)
  PROVE  GoodPlayer(LoadIdle(m, rotations, f))
<1> DEFINE clip == library[f].clip
           bind == [b \in BodyBones \cap DOMAIN m.humanoid |-> FromNodes(m, rotations)[b]]
<1>1. GoodPlayer(NewPlayer(clip, bind))
  <2>1. \A b \in DOMAIN bind : bind[b] \in Rotation
    BY FromNodesType
  <2>2. NewPlayer(clip, bind).clip = clip /\ NewPlayer(clip, bind).time = 0
        /\ NewPlayer(clip, bind).bind = bind
    BY DEF NewPlayer
  <2> HIDE DEF bind
  <2> QED
    BY <2>1, <2>2 DEF GoodPlayer
<1>2. GoodPlayer(NoIdle)
  <2>1. GoodClip(NoClip)
    BY NoClipType
  <2>2. NoIdle.clip = NoClip /\ NoIdle.time = 0 /\ DOMAIN NoIdle.bind = {}
    BY DEF NoIdle
  <2> QED
    BY <2>1, <2>2 DEF GoodPlayer
<1>3. LoadIdle(m, rotations, f) = IF clip = NoClip THEN NoIdle ELSE NewPlayer(clip, bind)
  BY DEF LoadIdle
<1> HIDE DEF clip, bind
<1> QED
  BY <1>1, <1>2, <1>3

\* A player that goes on stays within its clip.
LEMMA AdvanceType ==
  ASSUME NEW p, GoodPlayer(p), NEW dt \in Steps
  PROVE  GoodPlayer(Advance(p, dt))
<1>1. p.time \in Nat /\ dt \in Nat /\ p.clip.duration \in Nat
  BY StepsAssumption DEF GoodPlayer, GoodClip
<1>2. p.clip.duration > 0 => (p.time + dt) % p.clip.duration \in Nat
  BY <1>1
<1> DEFINE t == IF p.clip.duration > 0 THEN (p.time + dt) % p.clip.duration ELSE 0
<1>3. t \in Nat
  BY <1>2
<1> HIDE DEF t
<1>4. CASE ~p.enabled
  BY <1>4 DEF Advance
<1>5. CASE p.enabled
  <2>1. Advance(p, dt) = [p EXCEPT !.time = t]
    BY <1>5 DEF Advance, t
  <2>2. \A q : GoodPlayer(q) => GoodPlayer([q EXCEPT !.time = t])
    BY <1>3 DEF GoodPlayer
  <2> QED
    BY <2>1, <2>2
<1> QED
  BY <1>4, <1>5

\* It holds at the start,
LEMMA TypedAtFirst == Init => PoseType
<1> SUFFICES ASSUME Init PROVE PoseType
  OBVIOUS
<1> DEFINE file == Avatars[avatar]
<1>1. avatar \in DOMAIN Avatars /\ model = Load(file) /\ nodeRot = file.rest
  BY DEF Init
<1>2. /\ library = [f \in DOMAIN ClipFiles |->
                      [film |-> ClipFiles[f].film, clip |-> LoadClip(ClipFiles[f])]]
      /\ boneRot = BindPose /\ swung = [i \in DOMAIN model.springNodes |-> Identity]
      /\ drawn = PoseWorld(model, nodeRot, boneRot)
      /\ \E f \in DOMAIN ClipFiles : idle = LoadIdle(model, nodeRot, f)
  BY DEF Init
<1>3. VrmFile(file)
  BY <1>1, AvatarsAssumption
<1>4. nodeRot \in [Nodes(file) -> Rotation]
  <2>1. nodeRot \in Seq(Rotation) /\ Nodes(file) = DOMAIN nodeRot
    BY <1>1, <1>3 DEF VrmFile, Nodes
  <2> HIDE DEF file
  <2> QED
    BY <2>1
<1> HIDE DEF file
<1>5. DOMAIN library = DOMAIN ClipFiles /\ \A f \in DOMAIN library : GoodClip(library[f].clip)
  BY <1>2, ClipType
<1>6. boneRot \in [DOMAIN model.humanoid -> Rotation]
  BY <1>1, <1>2, <1>4, FromNodesType DEF BindPose, file
<1>7. GoodPlayer(idle)
  BY <1>2, <1>4, <1>5, LoadIdleType
<1>8. drawn \in [Nodes(file) -> Rotation]
  BY <1>1, <1>2, <1>3, <1>4, <1>6, LoadType, PoseWorldType
<1> QED
  BY <1>1, <1>2, <1>4, <1>5, <1>6, <1>7, <1>8, IdentityAt DEF PoseType, file

\* in every frame,
LEMMA FrameTyped == PoseType /\ Frame => PoseType'
<1> SUFFICES ASSUME PoseType, Frame PROVE PoseType'
  OBVIOUS
<1> DEFINE D == Nodes(Avatars[avatar])
<1>1. UNCHANGED <<library, avatar, model>>
  BY DEF Frame
<1>2. GoodModel(model, D)
  BY ModelType
<1>3. GoodPlayer(idle')
  BY AdvanceType DEF Frame, PoseType
<1>4. boneRot' \in [DOMAIN model.humanoid -> Rotation]
  <2>1. PICK pose \in Samples(idle') :
          boneRot' = [b \in DOMAIN boneRot |-> IF b \in DOMAIN pose THEN pose[b] ELSE boneRot[b]]
    BY DEF Frame
  <2>2. \A b \in DOMAIN pose : pose[b] \in Rotation
    BY <1>3, SamplesType
  <2>3. boneRot \in [DOMAIN model.humanoid -> Rotation]
    BY DEF PoseType
  <2> QED
    BY <2>1, <2>2, <2>3
<1>5. nodeRot \in [D -> Rotation] /\ swung \in [DOMAIN model.springNodes -> Rotation]
  BY DEF PoseType
<1> HIDE DEF D
<1>6. nodeRot' \in [D -> Rotation] /\ swung' \in [DOMAIN model.springNodes -> Rotation]
  <2>1. CASE springs
    <3> DEFINE clean == Clean(model, nodeRot, boneRot')
    <3>1. clean \in [D -> Rotation]
      BY <1>2, <1>4, <1>5, PoseWorldType
    <3>2. PICK swings \in [DOMAIN swung -> Swings] : swung' = Results(model, clean, swings)
      BY <2>1 DEF Frame
    <3>3. nodeRot' = ApplyResults(model, Restored(model, nodeRot), clean, swung')
      BY <2>1 DEF Frame
    <3> HIDE DEF clean
    <3>4. swung' \in [DOMAIN model.springNodes -> Rotation]
      BY <1>2, <1>5, <3>1, <3>2, ResultsType
    <3> QED
      BY <1>2, <1>5, <3>1, <3>3, <3>4, ApplyType
  <2>2. CASE ~springs
    BY <1>5, <2>2 DEF Frame
  <2> QED
    BY <2>1, <2>2
<1>7. drawn' \in [D -> Rotation]
  <2>1. drawn' = PoseWorld(model, nodeRot', boneRot')
    BY DEF Frame
  <2> QED
    BY <1>2, <1>4, <1>6, <2>1, PoseWorldType
<1> QED
  BY <1>1, <1>3, <1>4, <1>6, <1>7 DEF PoseType, D

\* A reset leaves rotations on the bones.
LEMMA ResetTyped ==
  ASSUME PoseType, ResetToBindPose
  PROVE  boneRot' \in [DOMAIN model.humanoid -> Rotation]
BY DEF PoseType, ResetToBindPose

\* The type invariant holds in every step.
LEMMA TypeStep == PoseType /\ [Next]_vars => PoseType'
<1> SUFFICES ASSUME PoseType, [Next]_vars PROVE PoseType'
  OBVIOUS
<1> DEFINE D == Nodes(Avatars[avatar])
<1>1. GoodModel(model, D) /\ nodeRot \in [D -> Rotation]
      /\ boneRot \in [DOMAIN model.humanoid -> Rotation] /\ drawn \in [D -> Rotation]
  BY ModelType DEF PoseType
<1> HIDE DEF D
<1>2. ASSUME UNCHANGED <<library, avatar, model, nodeRot, swung>>, GoodPlayer(idle'),
             boneRot' \in [DOMAIN model.humanoid -> Rotation],
             drawn' = PoseWorld(model, nodeRot, boneRot') \/ UNCHANGED drawn
      PROVE  PoseType'
  <2>1. drawn' \in [D -> Rotation]
    BY <1>1, <1>2, PoseWorldType
  <2> QED
    BY <1>1, <1>2, <2>1 DEF PoseType, D
<1>3. CASE Frame
  BY <1>3, FrameTyped
<1>4. CASE ToggleIdle
  <2>1. GoodPlayer(idle')
    <3>1. GoodPlayer(idle) /\ idle' = [idle EXCEPT !.enabled = ~@]
      BY <1>4 DEF ToggleIdle, PoseType
    <3>2. \A p, x : GoodPlayer(p) => GoodPlayer([p EXCEPT !.enabled = x])
      BY DEF GoodPlayer
    <3> QED
      BY <3>1, <3>2
  <2> QED
    BY <1>1, <1>2, <1>4, <2>1, ResetTyped DEF ToggleIdle
<1>5. CASE ResetPose
  BY <1>2, <1>5, ResetTyped DEF ResetPose, PoseType
<1>6. CASE ChangeClip
  <2>1. GoodPlayer(idle')
    BY <1>1, <1>6, LoadIdleType DEF ChangeClip, PoseType
  <2> QED
    BY <1>1, <1>2, <1>6, <2>1 DEF ChangeClip
<1>7. CASE ToggleSprings \/ UNCHANGED vars
  BY <1>1, <1>2, <1>7 DEF ToggleSprings, vars, PoseType
<1> QED
  BY <1>3, <1>4, <1>5, <1>6, <1>7 DEF Next

\* Every rotation of the pose is one at every time: the player, the springs, the
\* resets and the reloads never write anything else to a node or a bone, whatever
\* the clip files and the avatar are.
THEOREM PoseTyped == Spec => []PoseType
BY TypedAtFirst, TypeStep, PTL DEF Spec

----------------------------------------------------------------------------
(* No feedback.                                                            *)

\* What no action changes, and what the reads of nodeRot and swung rely on.
Shape ==
  /\ model = Load(Avatars[avatar])
  /\ DOMAIN nodeRot = DOMAIN Avatars[avatar].rest
  /\ DOMAIN swung = DOMAIN model.springNodes

\* The nodes that are neither bones of the humanoid nor springs have the
\* rotation of the file: this is where feedback would go.
PlainNodes == {n \in DOMAIN nodeRot : BoneAt(model, n) = {} /\ n \notin ToSet(model.springNodes)}
AtRest == \A n \in PlainNodes : nodeRot[n] = Avatars[avatar].rest[n]

PoseInv == Shape /\ (Anchored => AtRest)

\* A node that is saved twice is a spring node.
LEMMA RestoredKeeps ==
  ASSUME NEW m, NEW rotations, NEW n \in DOMAIN rotations, n \notin ToSet(m.springNodes)
  PROVE  Restored(m, rotations)[n] = rotations[n]
<1>1. {i \in DOMAIN m.springNodes : m.springNodes[i] = n} = {}
  BY DEF ToSet
<1>2. Cardinality({}) = 0
  BY FS_EmptySet
<1>3. ~(Cardinality({i \in DOMAIN m.springNodes : m.springNodes[i] = n}) > 1)
  BY <1>1, <1>2
<1> QED
  BY <1>3 DEF Restored

\* The results are written to the nodes that swing and to no others.
LEMMA ApplyWritesSwung ==
  ASSUME NEW m, NEW rotations, NEW clean, NEW results
  PROVE  /\ DOMAIN ApplyResults(m, rotations, clean, results) = DOMAIN rotations
         /\ \A n \in DOMAIN rotations :
              (\A i \in DOMAIN results : Swung(m, i) # n) =>
                ApplyResults(m, rotations, clean, results)[n] = rotations[n]
<1> QED
  BY DEF ApplyResults

\* Clean sees the rotations of the plain nodes only.
LEMMA CleanSeesPlain ==
  ASSUME NEW m, NEW bones, NEW rotations, NEW others, DOMAIN rotations = DOMAIN others,
         \A n \in DOMAIN rotations :
           BoneAt(m, n) = {} /\ n \notin ToSet(m.springNodes) => rotations[n] = others[n]
  PROVE  Clean(m, rotations, bones) = Clean(m, others, bones)
<1> DEFINE Reset(r) == [n \in DOMAIN r |-> IF n \in ToSet(m.springNodes) THEN Identity ELSE r[n]]
           Posed(r) == [n \in DOMAIN Reset(r) |->
                          IF BoneAt(m, n) = {} THEN Reset(r)[n]
                          ELSE bones[CHOOSE b \in BoneAt(m, n) : TRUE]]
<1>1. Posed(rotations) = Posed(others)
  <2>1. \A n \in DOMAIN rotations : BoneAt(m, n) = {} => Reset(rotations)[n] = Reset(others)[n]
    OBVIOUS
  <2>2. DOMAIN Reset(rotations) = DOMAIN rotations /\ DOMAIN Reset(others) = DOMAIN rotations
    OBVIOUS
  <2> HIDE DEF Reset
  <2> QED
    BY <2>1, <2>2
<1>2. \A r : Clean(m, r, bones) = WorldRotations(Posed(r), m.parent)
  BY DEF Clean, PoseWorld
<1> HIDE DEF Posed
<1> QED
  BY <1>1, <1>2

\* Only a frame with the springs on writes the node transforms.
LEMMA FrameWrites ==
  ASSUME Frame
  PROVE  /\ UNCHANGED <<avatar, model>>
         /\ \/ UNCHANGED <<nodeRot, swung>>
            \/ /\ DOMAIN swung' = DOMAIN swung
               /\ \E clean : nodeRot' = ApplyResults(model, Restored(model, nodeRot), clean, swung')
<1>1. UNCHANGED <<avatar, model>>
  BY DEF Frame
<1>2. CASE springs
  <2>1. PICK swings \in [DOMAIN swung -> Swings] :
           swung' = Results(model, Clean(model, nodeRot, boneRot'), swings)
    BY <1>2 DEF Frame
  <2>2. DOMAIN swung' = DOMAIN swung
    BY <2>1 DEF Results
  <2> QED
    BY <1>1, <1>2, <2>2 DEF Frame
<1>3. CASE ~springs
  BY <1>1, <1>3 DEF Frame
<1> QED
  BY <1>2, <1>3

\* Every action keeps the invariant.
LEMMA PoseStep == PoseInv /\ [Next]_vars => PoseInv'
<1> SUFFICES ASSUME PoseInv, [Next]_vars
             PROVE  PoseInv'
  OBVIOUS
<1>1. UNCHANGED <<avatar, model>>
  BY FrameWrites DEF Next, ToggleIdle, ResetPose, ChangeClip, ToggleSprings, vars
<1>2. CASE UNCHANGED <<nodeRot, swung>>
  BY <1>1, <1>2 DEF PoseInv, Shape, Anchored, AtRest, PlainNodes, Swung
<1>3. ASSUME DOMAIN swung' = DOMAIN swung,
             NEW clean, nodeRot' = ApplyResults(model, Restored(model, nodeRot), clean, swung')
      PROVE  PoseInv'
  <2>1. DOMAIN Restored(model, nodeRot) = DOMAIN nodeRot
    BY DEF Restored
  <2>2. DOMAIN nodeRot' = DOMAIN nodeRot
    BY <1>3, <2>1, ApplyWritesSwung
  <2>3. Shape'
    BY <1>1, <1>3, <2>2 DEF PoseInv, Shape
  <2>4. ASSUME Anchored', NEW n \in PlainNodes'
        PROVE  nodeRot'[n] = Avatars[avatar'].rest[n]
    <3>1. Anchored /\ n \in PlainNodes
      BY <1>1, <1>3, <2>2, <2>4 DEF Anchored, PlainNodes, Swung
    <3>2. \A i \in DOMAIN swung' : Swung(model, i) # n
      BY <1>3, <3>1 DEF Anchored, PlainNodes
    <3>3. nodeRot'[n] = Restored(model, nodeRot)[n]
      BY <1>3, <2>1, <3>1, <3>2, ApplyWritesSwung DEF PlainNodes
    <3>4. Restored(model, nodeRot)[n] = nodeRot[n]
      BY <3>1, RestoredKeeps DEF PlainNodes
    <3> QED
      BY <1>1, <3>1, <3>3, <3>4 DEF PoseInv, AtRest
  <2> QED
    BY <2>3, <2>4 DEF PoseInv, AtRest
<1>4. CASE Frame
  BY <1>2, <1>3, <1>4, FrameWrites
<1>5. CASE ~Frame
  BY <1>2, <1>5 DEF Next, ToggleIdle, ResetPose, ChangeClip, ToggleSprings, vars
<1> QED
  BY <1>4, <1>5

\* The avatar's own rotations are what the springs start from at every time:
\* nothing a swing wrote comes back, for every avatar whose chains are anchored.
THEOREM NothingFedBack == Spec => []NoFeedback
<1>1. Init => PoseInv
  BY DEF Init, PoseInv, Shape, AtRest
<1>2. PoseInv => NoFeedback
  <2> SUFFICES ASSUME PoseInv, Anchored
               PROVE  Clean(model, nodeRot, boneRot) = Clean(model, Avatars[avatar].rest, boneRot)
    BY DEF NoFeedback
  <2> QED
    BY CleanSeesPlain DEF PoseInv, Shape, AtRest, PlainNodes
<1> QED
  BY <1>1, <1>2, PoseStep, PTL DEF Spec

----------------------------------------------------------------------------
(* Swings are drawn.                                                       *)

\* The equation of the function in NodesAbove.
AboveNodes(f, parent) ==
  f = [n \in DOMAIN parent |-> IF parent[n] = NoNode THEN {} ELSE {parent[n]} \cup f[parent[n]]]

\* It has a solution, on a broken hierarchy too.
LEMMA AboveNodesExist ==
  ASSUME NEW D, NEW parent, Hierarchy(parent, D)
  PROVE  \E f : AboveNodes(f, parent)
<1> DEFINE Closed(S) == \A x \in S : parent[x] # NoNode => parent[x] \in S
           Holds(n, S) == Closed(S) /\ (parent[n] # NoNode => parent[n] \in S)
           up == [n \in D |-> {x \in D : \A S \in SUBSET D : Holds(n, S) => x \in S}]
           next(n) == IF parent[n] = NoNode THEN {} ELSE {parent[n]} \cup up[parent[n]]
<1>1. DOMAIN parent = D /\ \A n \in D : parent[n] # NoNode => parent[n] \in D
  BY DEF Hierarchy
<1>2. \A n \in D : \A x : x \in up[n] <=> x \in D /\ \A S \in SUBSET D : Holds(n, S) => x \in S
  OBVIOUS
<1>3. \A n \in D : Closed(up[n])
  <2> SUFFICES ASSUME NEW n \in D, NEW x \in up[n], parent[x] # NoNode
               PROVE  parent[x] \in up[n]
    OBVIOUS
  <2>1. x \in D
    BY <1>2
  <2>2. ASSUME NEW S \in SUBSET D, Holds(n, S)
        PROVE  parent[x] \in S
    <3> HIDE DEF up
    <3>1. x \in S
      BY <1>2, <2>2
    <3> QED
      BY <2>2, <3>1
  <2> HIDE DEF up, Holds
  <2> QED
    BY <1>1, <1>2, <2>1, <2>2
<1>4. ASSUME NEW n \in D, parent[n] # NoNode
      PROVE  up[n] = {parent[n]} \cup up[parent[n]]
  <2> DEFINE q == parent[n]
             T == {q} \cup up[q]
  <2>1. q \in D
    BY <1>1, <1>4
  <2>2. T \in SUBSET D
    BY <1>2, <2>1
  <2>3. parent[q] # NoNode => parent[q] \in up[q]
    <3> SUFFICES ASSUME parent[q] # NoNode PROVE parent[q] \in up[q]
      OBVIOUS
    <3>1. \A S \in SUBSET D : Holds(q, S) => parent[q] \in S
      OBVIOUS
    <3> HIDE DEF up, Holds, q
    <3> QED
      BY <1>1, <1>2, <2>1, <3>1
  <2>4. Holds(n, T)
    <3>1. Closed(T)
      BY <1>3, <2>1, <2>3
    <3> QED
      BY <3>1
  <2>5. up[n] \subseteq T
    <3> HIDE DEF up, Holds, T
    <3> QED
      BY <1>2, <2>2, <2>4
  <2>6. \A S \in SUBSET D : Holds(n, S) => q \in S /\ Holds(q, S)
    <3>1. \A S \in SUBSET D : Holds(n, S) => q \in S /\ Closed(S)
      BY <1>4
    <3> QED
      BY <3>1
  <2>7. T \subseteq up[n]
    <3>1. \A x \in T : x = q \/ x \in up[q]
      OBVIOUS
    <3> HIDE DEF up, Holds, T, q
    <3> QED
      BY <1>2, <2>1, <2>2, <2>6, <3>1
  <2> QED
    BY <2>5, <2>7
<1>5. ASSUME NEW n \in D, parent[n] = NoNode
      PROVE  up[n] = {}
  <2>1. Holds(n, {}) /\ {} \in SUBSET D
    BY <1>5
  <2> HIDE DEF up, Holds
  <2> QED
    BY <1>2, <2>1
<1> DEFINE h == [n \in D |-> next(n)]
<1>6. up = h
  <2>1. \A n \in D : up[n] = h[n]
    <3> TAKE n \in D
    <3>1. h[n] = next(n)
      OBVIOUS
    <3> HIDE DEF up, h
    <3> QED
      BY <1>4, <1>5, <3>1
  <2>2. up = [n \in D |-> up[n]] /\ h = [n \in D |-> h[n]]
    OBVIOUS
  <2> HIDE DEF up, h
  <2> QED
    BY <2>1, <2>2
<1>7. AboveNodes(up, parent)
  <2> HIDE DEF up
  <2> QED
    BY <1>1, <1>6 DEF AboveNodes
<1> HIDE DEF up
<1> QED
  BY <1>7

\* The nodes above a node are its parent and those above that.
LEMMA NodesAboveAt ==
  ASSUME NEW D, Hierarchy(model.parent, D), NEW n \in D
  PROVE  NodesAbove[n] = IF model.parent[n] = NoNode THEN {}
                         ELSE {model.parent[n]} \cup NodesAbove[model.parent[n]]
<1> DEFINE F == CHOOSE f : AboveNodes(f, model.parent)
<1>1. NodesAbove = F
  BY DEF NodesAbove, AboveNodes
<1>2. AboveNodes(F, model.parent)
  BY AboveNodesExist
<1> HIDE DEF F
<1>3. \A f, parent : AboveNodes(f, parent) => \A x \in DOMAIN parent :
        f[x] = IF parent[x] = NoNode THEN {} ELSE {parent[x]} \cup f[parent[x]]
  BY DEF AboveNodes
<1>4. n \in DOMAIN model.parent
  BY DEF Hierarchy
<1> QED
  BY <1>1, <1>2, <1>3, <1>4

\* The rotation of a node in the pose, before the kinematics.
Own(m, rotations, bones, n) ==
  IF BoneAt(m, n) = {} THEN rotations[n] ELSE bones[CHOOSE b \in BoneAt(m, n) : TRUE]

\* Two poses are the same at a node when they are at the nodes above it.
LEMMA PoseAgrees ==
  ASSUME NEW m, NEW D, GoodModel(m, D), NEW bones,
         NEW rotations, NEW others, DOMAIN rotations = D, DOMAIN others = D,
         NEW A \in SUBSET D,
         \A n \in A : /\ Own(m, rotations, bones, n) = Own(m, others, bones, n)
                      /\ m.parent[n] = NoNode \/ m.parent[n] \in A
  PROVE  \A n \in A : PoseWorld(m, rotations, bones)[n] = PoseWorld(m, others, bones)[n]
<1> DEFINE L == [n \in D |-> Own(m, rotations, bones, n)]
           K == [n \in D |-> Own(m, others, bones, n)]
<1>1. /\ PoseWorld(m, rotations, bones) = WorldRotations(L, m.parent)
      /\ PoseWorld(m, others, bones) = WorldRotations(K, m.parent)
  BY DEF PoseWorld, Own
<1>2. \A n \in A : L[n] = K[n] /\ (m.parent[n] = NoNode \/ m.parent[n] \in A)
  OBVIOUS
<1>3. Hierarchy(m.parent, D)
  BY DEF GoodModel
<1> HIDE DEF L, K
<1>4. \A n \in A : WorldRotations(L, m.parent)[n] = WorldRotations(K, m.parent)[n]
  <2> DEFINE parent == m.parent
  <2>1. /\ A \in SUBSET D /\ Hierarchy(parent, D)
        /\ \A n \in A : L[n] = K[n] /\ (parent[n] = NoNode \/ parent[n] \in A)
    BY <1>2, <1>3
  <2> HIDE DEF parent
  <2>2. \A n \in A : WorldRotations(L, parent)[n] = WorldRotations(K, parent)[n]
    BY <2>1, WorldAgrees
  <2> QED
    BY <2>2 DEF parent
<1> QED
  BY <1>1, <1>4

\* A node that is reached has its own rotation under its parent's.
LEMMA PoseWorldAt ==
  ASSUME NEW m, NEW D, GoodModel(m, D), NEW bones, NEW rotations, DOMAIN rotations = D,
         NEW n \in D, n \in Reached(m.parent)
  PROVE  LET W == PoseWorld(m, rotations, bones)
             own == Own(m, rotations, bones, n)
         IN  W[n] = IF m.parent[n] = NoNode THEN own ELSE W[m.parent[n]] ** own
<1> DEFINE L == [x \in D |-> Own(m, rotations, bones, x)]
<1>1. PoseWorld(m, rotations, bones) = WorldRotations(L, m.parent)
  BY DEF PoseWorld, Own
<1>2. L[n] = Own(m, rotations, bones, n)
  OBVIOUS
<1>3. Hierarchy(m.parent, D)
  BY DEF GoodModel
<1> HIDE DEF L
<1> QED
  BY <1>1, <1>2, <1>3, WorldAt DEF WorldOf

\* A frame draws the swings as they are.
LEMMA SwingDrawn ==
  ASSUME PoseType, Frame, springs
  PROVE  SwingsDrawn
<1> DEFINE D == Nodes(Avatars[avatar])
           clean == Clean(model, nodeRot, boneRot')
           reset == [n \in DOMAIN nodeRot |->
                       IF n \in ToSet(model.springNodes) THEN Identity ELSE nodeRot[n]]
<1>1. GoodModel(model, D) /\ nodeRot \in [D -> Rotation] /\ DOMAIN swung = DOMAIN model.springNodes
  BY ModelType DEF PoseType
<1>2. /\ boneRot' \in [DOMAIN model.humanoid -> Rotation]
      /\ swung' \in [DOMAIN model.springNodes -> Rotation]
      /\ nodeRot' \in [D -> Rotation]
  BY FrameTyped DEF PoseType, Frame
<1>3. clean = PoseWorld(model, reset, boneRot') /\ DOMAIN reset = D
  BY <1>1 DEF Clean
<1>4. /\ nodeRot' = ApplyResults(model, Restored(model, nodeRot), clean, swung')
      /\ drawn' = PoseWorld(model, nodeRot', boneRot')
  BY DEF Frame
<1>5. clean \in [D -> Rotation]
  BY <1>1, <1>2, PoseWorldType
<1> HIDE DEF clean, D
<1> SUFFICES ASSUME NEW i \in DOMAIN swung,
                    Swung(model, i) \in Reached(model.parent) \ {NoNode},
                    BoneAt(model, Swung(model, i)) = {},
                    \A j \in DOMAIN swung : Swung(model, j) = Swung(model, i) => j <= i,
                    \A a \in NodesAbove[Swung(model, i)] :
                      \/ BoneAt(model, a) # {}
                      \/ /\ a \notin {Swung(model, j) : j \in DOMAIN swung}
                         /\ a \notin ToSet(model.springNodes)
             PROVE  drawn'[Swung(model, i)] = swung'[i]
  BY DEF SwingsDrawn
<1> DEFINE p == Swung(model, i)
           q == model.parent[p]
           W == AboveWorld(model, clean, p)
<1>6. p \in D /\ q \in D \cup {NoNode} /\ Hierarchy(model.parent, D) /\ NoNode \notin D
  BY <1>1, SwungType DEF GoodModel, Hierarchy
<1>7. nodeRot'[p] = Inv(W) ** swung'[i]
  <2> DEFINE mine == {j \in DOMAIN swung' : Swung(model, j) = p}
  <2>1. mine = {j \in DOMAIN model.springNodes : Swung(model, j) = p} /\ i \in mine
    BY <1>1, <1>2
  <2>2. \A j \in mine : j <= i
    BY <1>1, <1>2
  <2>3. DOMAIN Restored(model, nodeRot) = D
    BY <1>1 DEF Restored
  <2>4. nodeRot'[p] = Inv(W) ** swung'[Max(mine)]
    BY <1>4, <1>6, <2>1, <2>3 DEF ApplyResults
  <2> HIDE DEF mine, p, W
  <2>5. Max(mine) \in mine /\ i <= Max(mine) /\ Max(mine) <= i
    <3>1. mine # {} /\ GoodModel(model, D) /\ mine \subseteq DOMAIN model.springNodes
      BY <1>1, <2>1
    <3>2. Max(mine) \in mine /\ \A j \in mine : j <= Max(mine)
      BY <3>1, GreatestIndex DEF GoodModel
    <3> QED
      BY <2>1, <2>2, <3>2
  <2>6. i \in Nat /\ Max(mine) \in Nat
    <3>1. model.springNodes \in Seq(D)
      BY <1>1 DEF GoodModel
    <3>2. DOMAIN model.springNodes \subseteq Nat
      BY <3>1, SequenceDomain
    <3> QED
      BY <1>1, <2>1, <2>5, <3>2
  <2>7. Max(mine) = i
    BY <2>5, <2>6
  <2> QED
    BY <2>4, <2>7
<1>8. swung'[i] \in Rotation /\ W \in Rotation
  BY <1>1, <1>2, <1>5, <1>6, IdentityAt DEF AboveWorld
<1>9. Own(model, nodeRot', boneRot', p) = nodeRot'[p]
  BY DEF Own
<1>10. CASE q = NoNode
  <2>1. W = Identity
    BY <1>10 DEF AboveWorld
  <2>2. drawn'[p] = nodeRot'[p]
    BY <1>1, <1>2, <1>4, <1>6, <1>9, <1>10, PoseWorldAt
  <2>3. Inv(Identity) = Identity
    BY IdentityAt, InverseAt
  <2> QED
    BY <1>7, <1>8, <2>1, <2>2, <2>3, IdentityAt
<1>11. CASE q # NoNode
  <2> DEFINE A == {a \in D : ({a} \cup NodesAbove[a]) \subseteq NodesAbove[p]}
  <2>1. W = clean[q]
    BY <1>11 DEF AboveWorld
  <2>2. drawn'[p] = drawn'[q] ** nodeRot'[p]
    <3> HIDE DEF p, q
    <3>1. p \in D /\ p \in Reached(model.parent) /\ q = model.parent[p]
      BY <1>6 DEF p, q
    <3> QED
      BY <1>1, <1>2, <1>4, <1>9, <1>11, <3>1, PoseWorldAt
  <2>3. q \in A
    BY <1>6, <1>11, NodesAboveAt
  <2>4. ASSUME NEW a \in A
        PROVE  model.parent[a] = NoNode \/ model.parent[a] \in A
    <3>1. a \in D /\ NodesAbove[a] \subseteq NodesAbove[p]
      OBVIOUS
    <3>2. CASE model.parent[a] # NoNode
      <4>1. NodesAbove[a] = {model.parent[a]} \cup NodesAbove[model.parent[a]]
        BY <1>6, <3>1, <3>2, NodesAboveAt
      <4>2. model.parent[a] \in D
        BY <1>6, <3>1, <3>2 DEF Hierarchy
      <4> QED
        BY <3>1, <4>1, <4>2
    <3> QED
      BY <3>2
  <2>5. ASSUME NEW a \in A
        PROVE  Own(model, nodeRot', boneRot', a) = Own(model, reset, boneRot', a)
    <3>1. a \in D /\ a \in NodesAbove[p]
      OBVIOUS
    <3>2. CASE BoneAt(model, a) # {}
      BY <3>2 DEF Own
    <3>3. CASE BoneAt(model, a) = {}
      <4>1. /\ \A j \in DOMAIN swung' : Swung(model, j) # a
            /\ a \notin ToSet(model.springNodes)
        BY <1>1, <1>2, <3>1, <3>3
      <4>2. reset[a] = nodeRot[a]
        BY <1>1, <3>1, <4>1
      <4>3. Restored(model, nodeRot)[a] = nodeRot[a] /\ DOMAIN Restored(model, nodeRot) = D
        BY <1>1, <3>1, <4>1, RestoredKeeps DEF Restored
      <4>4. nodeRot'[a] = nodeRot[a]
        BY <1>4, <3>1, <4>1, <4>3, ApplyWritesSwung
      <4> QED
        BY <3>3, <4>2, <4>4 DEF Own
    <3> QED
      BY <3>2, <3>3
  <2>6. drawn'[q] = clean[q]
    <3>1. A \in SUBSET D /\ DOMAIN nodeRot' = D
      BY <1>2
    <3> HIDE DEF A, q, reset
    <3> QED
      BY <1>1, <1>3, <1>4, <2>3, <2>4, <2>5, <3>1, PoseAgrees
  <2>7. drawn'[p] = W ** (Inv(W) ** swung'[i])
    BY <1>7, <2>1, <2>2, <2>6
  <2>8. W ** (Inv(W) ** swung'[i]) = swung'[i]
    <3> HIDE DEF W
    <3> QED
      BY <1>8, Associative, InverseAt, IdentityAt
  <2> QED
    BY <2>7, <2>8
<1> QED
  BY <1>10, <1>11

\* A swing that goes to a plain node with no other swing above is drawn as the
\* physics left it: the rotation that update_frame writes to the node, undone by
\* the clean rotation above it, is restored by the kinematics of the drawn pose.
THEOREM SwingsAreDrawn == Spec => FirstSwingIsDrawn
<1>1. PoseType /\ [Next]_vars => [Frame /\ springs => SwingsDrawn]_vars
  BY SwingDrawn
<1> QED
  BY <1>1, TypedAtFirst, TypeStep, PTL DEF Spec, FirstSwingIsDrawn

----------------------------------------------------------------------------
(* The loader's flat lists.                                                *)

\* A chain has the bones of its group that are nodes.
LEMMA ChainBonesSet ==
  ASSUME NEW file, VrmFile(file), NEW g \in DOMAIN file.boneGroups
  PROVE  ToSet(ChainBones(file, g)) = ToSet(file.boneGroups[g].bones) \cap Nodes(file)
<1> DEFINE bones == file.boneGroups[g].bones
           N == Nodes(file)
           parts == [i \in DOMAIN bones |-> IF bones[i] \in N THEN <<bones[i]>> ELSE <<>>]
<1>1. bones \in Seq(Nat)
  BY BonesType
<1>2. ChainBones(file, g) = FlattenSeq(parts)
  BY DEF ChainBones
<1> HIDE DEF bones, N
<1>3. PICK k \in Nat : DOMAIN bones = 1..k
  BY <1>1
<1>4. \A i \in 1..k : /\ parts[i] \in Seq(N)
                      /\ bones[i] \in N => parts[i] = <<bones[i]>>
                      /\ bones[i] \notin N => parts[i] = <<>>
  BY <1>3
<1>5. parts = [i \in 1..k |-> parts[i]]
  BY <1>3
<1> HIDE DEF parts
<1>6. parts \in [1..k -> Seq(N)]
  BY <1>4, <1>5
<1>7. /\ \A i \in 1..k : \A j \in 1..Len(parts[i]) : parts[i][j] \in ToSet(FlattenSeq(parts))
      /\ \A x \in ToSet(FlattenSeq(parts)) : \E i \in 1..k : \E j \in 1..Len(parts[i]) : x = parts[i][j]
  <2>1. Gathers(FlattenSeq(parts), parts, k)
    BY <1>6, FlattenMembers
  <2> QED
    BY <2>1 DEF Gathers
<1>8. ToSet(bones) = {bones[i] : i \in 1..k}
  BY <1>3 DEF ToSet
<1>9. ASSUME NEW i \in 1..k, bones[i] \in N
      PROVE  bones[i] \in ToSet(FlattenSeq(parts))
  <2>1. parts[i] = <<bones[i]>>
    BY <1>4, <1>9
  <2>2. Len(parts[i]) = 1 /\ parts[i][1] = bones[i] /\ 1 \in 1..Len(parts[i])
    BY <2>1
  <2> QED
    BY <1>7, <2>2
<1>10. ASSUME NEW x \in ToSet(FlattenSeq(parts))
       PROVE  x \in ToSet(bones) /\ x \in N
  <2>1. PICK i \in 1..k : \E j \in 1..Len(parts[i]) : x = parts[i][j]
    BY <1>7
  <2>2. PICK j \in 1..Len(parts[i]) : x = parts[i][j]
    BY <2>1
  <2>3. bones[i] \in N
    <3>1. SUFFICES ASSUME bones[i] \notin N PROVE FALSE
      OBVIOUS
    <3>2. Len(parts[i]) = 0
      BY <1>4, <3>1
    <3> QED
      BY <2>2, <3>2
  <2>4. j = 1 /\ x = bones[i]
    BY <1>4, <2>2, <2>3
  <2> QED
    BY <1>8, <2>3, <2>4
<1> QED
  BY <1>2, <1>8, <1>9, <1>10 DEF bones, N

\* A chain has the colliders of the groups it names.
LEMMA ChainCollidersSet ==
  ASSUME NEW file, VrmFile(file), file.hasSecondary, NEW g \in DOMAIN file.boneGroups
  PROVE  {Colliders(file)[i] : i \in Chain(file, g).colliders} =
           {x \in ToSet(Colliders(file)) : x.group \in ToSet(file.boneGroups[g].colliderGroups)}
<1> DEFINE S == {[group |-> h, nth |-> j, node |-> file.colliderGroups[h].node] :
                   h \in DOMAIN file.colliderGroups, j \in Nat}
           block(h) == [j \in 1..GroupSize(file, h) |->
                          [group |-> h, nth |-> j, node |-> file.colliderGroups[h].node]]
           blocks == [h \in DOMAIN file.colliderGroups |-> block(h)]
           sizes  == [h \in DOMAIN file.colliderGroups |-> GroupSize(file, h)]
           all    == Colliders(file)
           at     == Starts(sizes)
           ranges == ColliderRanges(file)
           named  == ToSet(file.boneGroups[g].colliderGroups)
<1>1. PICK n \in Nat : DOMAIN file.colliderGroups = 1..n
  BY SequenceDomain DEF VrmFile
<1>2. \A h \in 1..n : GroupSize(file, h) \in Nat
  <2> DEFINE T == [node : Nat, size : Nat]
  <2>1. \A x \in T : x.size \in Nat
    OBVIOUS
  <2>2. file.colliderGroups \in Seq(T)
    BY DEF VrmFile
  <2> HIDE DEF T
  <2> QED
    BY <1>1, <2>1, <2>2, SequenceDomain DEF GroupSize
<1>3. sizes \in [1..n -> Nat] /\ \A h \in 1..n : sizes[h] = GroupSize(file, h)
  BY <1>1, <1>2
<1>4. ASSUME NEW h \in 1..n
      PROVE  /\ blocks[h] \in Seq(S) /\ Len(blocks[h]) = GroupSize(file, h)
             /\ \A j \in 1..GroupSize(file, h) : blocks[h][j].group = h
  <2>1. blocks[h] = block(h)
    BY <1>1
  <2>2. \A j \in 1..GroupSize(file, h) : block(h)[j] \in S /\ block(h)[j].group = h
    <3> TAKE j \in 1..GroupSize(file, h)
    <3> DEFINE r == [group |-> h, nth |-> j, node |-> file.colliderGroups[h].node]
    <3>1. j \in Nat /\ h \in DOMAIN file.colliderGroups
      BY <1>1, <1>2
    <3>2. r \in S
      BY <3>1
    <3>3. block(h)[j] = r /\ r.group = h
      OBVIOUS
    <3> HIDE DEF r, S, block
    <3> QED
      BY <3>2, <3>3
  <2>3. block(h) = [j \in 1..GroupSize(file, h) |-> block(h)[j]]
    OBVIOUS
  <2> HIDE DEF block, S, blocks
  <2> QED
    BY <1>2, <2>1, <2>2, <2>3
<1>5. blocks = [h \in 1..n |-> blocks[h]]
  BY <1>1
<1>6. all = FlattenSeq(blocks)
  BY DEF Colliders
<1>7. ranges = [h \in 1..n |-> at[h] + 1..at[h + 1]]
  BY <1>1 DEF ColliderRanges, GroupStarts
<1>8. Chain(file, g).colliders = UNION {ranges[h] : h \in named \cap DOMAIN ranges}
  BY DEF Chain
<1> HIDE DEF blocks, sizes, all, ranges, S, at, named
<1>9. blocks \in [1..n -> Seq(S)] /\ \A h \in 1..n : sizes[h] = Len(blocks[h])
  BY <1>3, <1>4, <1>5
<1>10. Adds(at, sizes, n) /\ Places(at, blocks, n, all)
  BY <1>3, <1>6, <1>9, LaidOut DEF at
<1>11. /\ DOMAIN all = 1..at[n + 1]
       /\ \A h \in 1..n : at[h] \in Nat /\ at[h + 1] = at[h] + Len(blocks[h])
  <2>1. \A h \in 1..n : h \in 1..n + 1
    OBVIOUS
  <2>2. DOMAIN all = 1..at[n + 1]
    BY <1>10 DEF Places
  <2>3. /\ \A h \in 1..n + 1 : at[h] \in Nat
        /\ \A h \in 1..n : at[h + 1] = at[h] + sizes[h]
    BY <1>10 DEF Adds
  <2> QED
    BY <1>9, <2>1, <2>2, <2>3
<1>12. ASSUME NEW h \in 1..n, NEW i \in ranges[h]
       PROVE  i \in DOMAIN all /\ all[i].group = h
  <2>1. i \in at[h] + 1..at[h] + Len(blocks[h]) /\ Len(blocks[h]) \in Nat
    BY <1>7, <1>11, <1>4
  <2>2. i - at[h] \in 1..Len(blocks[h]) /\ i = at[h] + (i - at[h])
    BY <1>11, <2>1
  <2>3. i \in 1..at[n + 1] /\ all[i] = blocks[h][i - at[h]]
    BY <1>10, <2>2 DEF Places
  <2>4. blocks[h][i - at[h]].group = h
    BY <1>4, <2>2
  <2>5. i \in DOMAIN all
    BY <1>11, <2>3
  <2> QED
    BY <2>3, <2>4, <2>5
<1>13. ASSUME NEW i \in DOMAIN all
       PROVE  all[i].group \in 1..n /\ i \in ranges[all[i].group]
  <2>1. PICK h \in 1..n : \E j \in 1..Len(blocks[h]) : i = at[h] + j
    BY <1>10, <1>11 DEF Places
  <2>2. PICK j \in 1..Len(blocks[h]) : i = at[h] + j
    BY <2>1
  <2>3. all[i] = blocks[h][j]
    BY <1>10, <2>2 DEF Places
  <2>4. all[i].group = h
    BY <1>4, <2>2, <2>3
  <2>5. i \in at[h] + 1..at[h + 1]
    BY <1>4, <1>11, <2>2
  <2> QED
    BY <1>7, <2>4, <2>5
<1>14. DOMAIN ranges = 1..n
  BY <1>7
<1>15. ASSUME NEW x
       PROVE  x \in {all[i] : i \in Chain(file, g).colliders} <=> x \in ToSet(all) /\ x.group \in named
  <2>1. ASSUME NEW i \in Chain(file, g).colliders, x = all[i]
        PROVE  x \in ToSet(all) /\ x.group \in named
    <3>1. PICK h \in named \cap DOMAIN ranges : i \in ranges[h]
      BY <1>8
    <3> QED
      BY <1>12, <1>14, <2>1, <3>1 DEF ToSet
  <2>2. ASSUME x \in ToSet(all), x.group \in named
        PROVE  \E i \in Chain(file, g).colliders : x = all[i]
    <3>1. PICK i \in DOMAIN all : x = all[i]
      BY <2>2 DEF ToSet
    <3>2. i \in ranges[x.group] /\ x.group \in named \cap DOMAIN ranges
      BY <1>13, <1>14, <2>2, <3>1
    <3> QED
      BY <1>8, <3>1, <3>2
  <2> QED
    BY <2>1, <2>2
<1> QED
  BY <1>15 DEF all, named

\* A vertex names the joint that it named in its own skin.
LEMMA JointsResolve ==
  ASSUME NEW file, VrmFile(file), NEW skin \in DOMAIN file.skins, NEW joint \in DOMAIN file.skins[skin]
  PROVE  FlattenSeq(file.skins)[joint + SkinOffset(file, skin)] = file.skins[skin][joint]
<1> DEFINE skins == file.skins
           sizes == [s \in DOMAIN skins |-> Len(skins[s])]
           at == Starts(sizes)
<1>1. skins \in Seq(Seq(Nat)) /\ SkinOffset(file, skin) = at[skin]
  BY DEF VrmFile, SkinOffset
<1> HIDE DEF skins
<1>2. PICK n \in Nat : DOMAIN skins = 1..n /\ skins \in [1..n -> Seq(Nat)]
  BY <1>1
<1>3. sizes \in [1..n -> Nat] /\ \A s \in 1..n : sizes[s] = Len(skins[s])
  BY <1>2
<1> HIDE DEF sizes
<1>4. Adds(at, sizes, n) /\ Places(at, skins, n, FlattenSeq(skins))
  BY <1>2, <1>3, LaidOut
<1> HIDE DEF at
<1>5. skin \in 1..n /\ joint \in 1..Len(skins[skin])
  BY <1>2 DEF skins
<1>6. FlattenSeq(skins)[at[skin] + joint] = skins[skin][joint]
  BY <1>4, <1>5 DEF Places
<1>7. at[skin] + joint = joint + at[skin]
  <2>1. at[skin] \in Nat /\ joint \in Nat
    BY <1>4, <1>5 DEF Adds
  <2> QED
    BY <2>1
<1> QED
  BY <1>1, <1>6, <1>7 DEF skins

\* All of that of the loaded model.
LEMMA ListsResolve == PoseType => IndicesResolve
<1> SUFFICES ASSUME PoseType PROVE IndicesResolve
  OBVIOUS
<1> DEFINE file == Avatars[avatar]
           skins(mesh) == {file.shows[i].skin : i \in {j \in DOMAIN file.shows : file.shows[j].mesh = mesh}}
<1>1. VrmFile(file) /\ model = Load(file)
  BY AvatarsAssumption DEF PoseType
<1>2. /\ model.chains = Chains(file) /\ model.colliders = Colliders(file)
      /\ model.joints = FlattenSeq(file.skins)
      /\ model.vertices = [mesh \in DOMAIN file.vertices |-> VertexJoints(file, mesh)]
  BY <1>1 DEF Load
<1> HIDE DEF file
<1>3. ASSUME NEW c \in DOMAIN model.chains
      PROVE  LET chain == model.chains[c]
                 group == file.boneGroups[chain.group]
             IN  /\ ToSet(chain.bones) = ToSet(group.bones) \cap Nodes(file)
                 /\ {model.colliders[i] : i \in chain.colliders} =
                      {k \in ToSet(model.colliders) : k.group \in ToSet(group.colliderGroups)}
  <2> DEFINE T == {Chain(file, g) : g \in DOMAIN file.boneGroups}
             chain == model.chains[c]
  <2>1. Chains(file) \in Seq(T)
    BY <1>1, ChainsType
  <2>2. chain \in T
    <3> HIDE DEF T
    <3> QED
      BY <1>2, <2>1, SequenceDomain
  <2>3. PICK g \in DOMAIN file.boneGroups : chain = Chain(file, g)
    BY <2>2
  <2>4. chain.group = g /\ chain.bones = ChainBones(file, g)
    BY <2>3 DEF Chain
  <2>5. file.hasSecondary
    <3>1. ~file.hasSecondary => DOMAIN Chains(file) = {}
      BY DEF Chains
    <3> QED
      BY <1>2, <3>1
  <2> HIDE DEF T, chain
  <2>6. {Colliders(file)[i] : i \in chain.colliders} =
          {x \in ToSet(Colliders(file)) : x.group \in ToSet(file.boneGroups[g].colliderGroups)}
    BY <1>1, <2>3, <2>5, ChainCollidersSet
  <2> QED
    BY <1>1, <1>2, <2>4, <2>6, ChainBonesSet DEF chain
<1>4. ASSUME NEW mesh \in DOMAIN model.vertices, NEW skin \in skins(mesh), skins(mesh) = {skin},
             NEW v \in DOMAIN model.vertices[mesh],
             file.vertices[mesh][v] \in DOMAIN file.skins[skin]
      PROVE  model.joints[model.vertices[mesh][v]] = file.skins[skin][file.vertices[mesh][v]]
  <2> DEFINE shown == {i \in DOMAIN file.shows : file.shows[i].mesh = mesh}
             joint == file.vertices[mesh][v]
  <2>1. model.vertices[mesh][v] = joint + JointOffset(file, mesh)
    BY <1>2 DEF VertexJoints
  <2>2. shown # {}
    OBVIOUS
  <2>3. JointOffset(file, mesh) = SkinOffset(file, file.shows[Max(shown)].skin)
    BY <2>2 DEF JointOffset
  <2>4. Max(shown) \in shown
    <3> DEFINE Show == [mesh : Nat, skin : DOMAIN file.skins]
    <3>1. file.shows \in Seq(Show)
      BY <1>1 DEF VrmFile
    <3>2. shown \in SUBSET (DOMAIN file.shows)
      OBVIOUS
    <3> HIDE DEF Show, shown
    <3> QED
      BY <2>2, <3>1, <3>2, GreatestIndex
  <2>5. file.shows[Max(shown)].skin \in skins(mesh)
    BY <2>4
  <2>6. file.shows[Max(shown)].skin = skin /\ skin \in DOMAIN file.skins
    <3>1. file.shows[Max(shown)].skin = skin
      BY <1>4, <2>5
    <3> DEFINE Show == [mesh : Nat, skin : DOMAIN file.skins]
    <3>2. file.shows \in Seq(Show) /\ \A x \in Show : x.skin \in DOMAIN file.skins
      BY <1>1 DEF VrmFile
    <3>3. Max(shown) \in DOMAIN file.shows
      BY <2>4
    <3> HIDE DEF Show, shown
    <3> QED
      BY <3>1, <3>2, <3>3, SequenceDomain
  <2> HIDE DEF shown
  <2> QED
    BY <1>1, <1>2, <1>4, <2>1, <2>3, <2>6, JointsResolve
<1> QED
  BY <1>3, <1>4 DEF IndicesResolve, file

\* Whatever the file, the ranges into all_colliders and the offsets into the
\* joints of all skins lead back to what the file's own indices named.
THEOREM FlatListsResolve == Spec => []IndicesResolve
BY TypedAtFirst, TypeStep, ListsResolve, PTL DEF Spec

=============================================================================
