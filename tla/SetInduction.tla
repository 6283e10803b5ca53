---------------------------- MODULE SetInduction ----------------------------
(***************************************************************************)
(* Induction over the natural numbers for sets.  The library states it for *)
(* an operator; the provers need it for a set, {n \in Nat : P(n)} in its   *)
(* uses.  It follows from the theorems about finite sets.                  *)
(***************************************************************************)
EXTENDS Integers, Sequences, FiniteSets, FiniteSetsExt, FiniteSetTheorems,
        SequenceTheorems, TLAPS

\* A set that contains 0 and with every number the next contains all numbers:
\* otherwise n -> n - 1 would map the finite set of the numbers up to some n
\* that are missing one to one to a smaller one.
LEMMA NatSetInduction ==
    ASSUME NEW S, 0 \in S, \A n \in Nat : n \in S => n + 1 \in S
    PROVE  \A n \in Nat : n \in S
<1> SUFFICES ASSUME NEW n \in Nat, n \notin S PROVE FALSE
  OBVIOUS
<1> DEFINE M == {i \in 0..n : i \notin S}
           f == [i \in M |-> i - 1]
<1>1. IsFiniteSet(M) /\ Cardinality(M) \in Nat
  <2>1. IsFiniteSet(0..n)
    BY FS_Interval
  <2>2. M \in SUBSET (0..n)
    OBVIOUS
  <2> QED BY <2>1, <2>2, FS_Subset, FS_CardinalityType
<1>2. IsFiniteSet(M \ {n}) /\ Cardinality(M \ {n}) = Cardinality(M) - 1
  <2>1. n \in M
    OBVIOUS
  <2> QED BY <1>1, <2>1, FS_RemoveElement
<1>3. ASSUME NEW i \in M PROVE i - 1 \in M \ {n}
  <2>1. i \in Nat /\ i # 0 /\ i <= n /\ i \notin S
    OBVIOUS
  <2>2. i - 1 \in Nat /\ (i - 1) + 1 = i
    BY <2>1
  <2>3. i - 1 \notin S
    BY <2>1, <2>2
  <2> QED BY <2>1, <2>2, <2>3
<1>4. f \in [M -> M \ {n}]
  BY <1>3
<1>5. \A i, j \in M : f[i] = f[j] => i = j
  OBVIOUS
<1>6. f \in Injection(M, M \ {n})
  BY <1>4, <1>5 DEF Injection, IsInjective
<1>7. Cardinality(M) <= Cardinality(M \ {n})
  BY <1>2, <1>6, FS_Injection
<1> QED BY <1>1, <1>2, <1>7

\* A set of natural numbers that is not empty has a least element.
LEMMA LeastNumber ==
    ASSUME NEW S \in SUBSET Nat, S # {}
    PROVE  /\ Min(S) \in S
           /\ \A n \in S : Min(S) <= n
<1> DEFINE T == {n \in Nat : \A i \in 0..n : i \notin S}
<1>1. ASSUME \A m \in S : \E n \in S : n < m
      PROVE  FALSE
  <2>1. 0 \in T
    <3>1. 0 \notin S
      BY <1>1
    <3> QED BY <3>1
  <2>2. ASSUME NEW n \in Nat, n \in T PROVE n + 1 \in T
    <3>1. n + 1 \notin S
      <4> SUFFICES ASSUME n + 1 \in S PROVE FALSE
        OBVIOUS
      <4>1. PICK k \in S : k < n + 1
        BY <1>1
      <4>2. k \in 0..n
        BY <4>1
      <4> QED BY <2>2, <4>2
    <3>2. \A i \in 0..(n + 1) : i \in 0..n \/ i = n + 1
      OBVIOUS
    <3> QED BY <2>2, <3>1, <3>2
  <2>3. \A n \in Nat : n \in T
    <3> HIDE DEF T
    <3> QED BY <2>1, <2>2, NatSetInduction
  <2>4. PICK m \in S : TRUE
    OBVIOUS
  <2>5. m \in T /\ m \in 0..m
    BY <2>3
  <2> QED BY <2>4, <2>5
<1>2. PICK m \in S : \A n \in S : m <= n
  <2>1. PICK m \in S : ~ \E n \in S : n < m
    BY <1>1
  <2>2. \A n \in S : m <= n
    BY <2>1
  <2> QED BY <2>2
<1> QED BY <1>2 DEF Min

\* Induction over the numbers up to n.
LEMMA IntervalInduction ==
    ASSUME NEW n \in Nat, NEW T, 0 \in T,
           \A i \in 0 .. n - 1 : i \in T => i + 1 \in T
    PROVE  \A i \in 0 .. n : i \in T
<1> DEFINE U == {i \in Nat : i <= n => i \in T}
<1>1. 0 \in U
  OBVIOUS
<1>2. ASSUME NEW i \in Nat, i \in U PROVE i + 1 \in U
  <2>1. CASE i + 1 <= n
    <3>1. i \in 0 .. n - 1 /\ i \in T
      BY <1>2, <2>1
    <3> QED BY <3>1
  <2>2. CASE ~(i + 1 <= n)
    BY <2>2
  <2> QED BY <2>1, <2>2
<1>3. \A i \in Nat : i \in U
  <2> HIDE DEF U
  <2> QED BY <1>1, <1>2, NatSetInduction
<1> QED BY <1>3

\* A function on 1 .. k is a sequence of that length.
LEMMA FunctionIsSeq ==
    ASSUME NEW S, NEW k \in Nat, NEW c \in [1 .. k -> S]
    PROVE  c \in Seq(S) /\ Len(c) = k /\ DOMAIN c = 1 .. k
<1>1. c \in Seq(S)
  BY IsASeq
<1> QED BY <1>1, LenProperties

\* n steps from s, each one by a function of its own, make a sequence: what a
\* recursive function over 0 .. n is, if its values stay in a set.
IsIteration(n, S, s, F, g) ==
    /\ g \in [0 .. n -> S]
    /\ g[0] = s
    /\ \A i \in 1 .. n : g[i] = F[i][g[i - 1]]
LEMMA IterationExists ==
    ASSUME NEW n \in Nat, NEW S, NEW s \in S, NEW F \in [1 .. n -> [S -> S]]
    PROVE  \E g : IsIteration(n, S, s, F, g)
<1> DEFINE Steps(m, g) == /\ g[0] = s
                          /\ \A i \in 1 .. m : g[i] = F[i][g[i - 1]]
           T == {m \in Nat : m <= n => \E g \in [0 .. m -> S] : Steps(m, g)}
<1>1. 0 \in T
  <2>1. PICK g : g = [i \in 0 .. 0 |-> s]
    OBVIOUS
  <2>2. g \in [0 .. 0 -> S] /\ Steps(0, g)
    BY <2>1
  <2> QED BY <2>2
<1>2. ASSUME NEW m \in Nat, m \in T PROVE m + 1 \in T
  <2> SUFFICES ASSUME m + 1 <= n
               PROVE  \E g \in [0 .. m + 1 -> S] : Steps(m + 1, g)
    OBVIOUS
  <2>1. PICK f \in [0 .. m -> S] : Steps(m, f)
    BY <1>2
  <2>2. PICK g : g = [i \in 0 .. m + 1 |-> IF i <= m THEN f[i] ELSE F[m + 1][f[m]]]
    OBVIOUS
  <2>3. f[m] \in S /\ F[m + 1] \in [S -> S]
    OBVIOUS
  <2>4. F[m + 1][f[m]] \in S
    BY <2>3
  <2>5. /\ g[m + 1] = F[m + 1][f[m]] /\ g[m] = f[m]
        /\ \A i \in 0 .. m : g[i] = f[i]
    BY <2>2
  <2>6. g \in [0 .. m + 1 -> S]
    BY <2>2, <2>4
  <2>7. ASSUME NEW i \in 1 .. m + 1 PROVE g[i] = F[i][g[i - 1]]
    <3>1. CASE i = m + 1
      BY <3>1, <2>5
    <3>2. CASE i # m + 1
      <4>1. i \in 1 .. m /\ i \in 0 .. m /\ i - 1 \in 0 .. m
        BY <3>2
      <4> QED BY <4>1, <2>1, <2>5
    <3> QED BY <3>1, <3>2
  <2>8. g[0] = s
    BY <2>1, <2>5
  <2> QED BY <2>6, <2>7, <2>8
<1>3. \A m \in Nat : m \in T
  <2> HIDE DEF T
  <2> QED BY <1>1, <1>2, NatSetInduction
<1> QED BY <1>3 DEF IsIteration

=============================================================================
