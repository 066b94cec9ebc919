------------------------------ MODULE Induction ------------------------------
(* Induction and recursion over the naturals, stated of sets and functions.   *)
EXTENDS SequenceTheorems, FiniteSetTheorems, TLAPS

(* Numbers have a least among them, by the order of the naturals being        *)
(* well-founded.                                                              *)
LEMMA Least ==
    ASSUME NEW T, T \subseteq Nat, T # {}
    PROVE  \E x \in T : \A y \in T : x <= y
<1>. DEFINE R == OpToRel(<, Nat)
<1>1. IsWellFoundedOn(R, Nat)
  BY NatLessThanWellFounded
<1>2. \A x, y \in Nat : y < x => <<y, x>> \in R
  BY DEF OpToRel
<1>. HIDE DEF R
<1>3. PICK x \in T : \A y \in T : ~ (<<y, x>> \in R)
  BY <1>1, WFMin
<1>4. \A y \in T : ~ (y < x)
  BY <1>2, <1>3
<1>. QED
  BY <1>4

(* Induction, of a set of numbers.                                            *)
LEMMA Inductive ==
    ASSUME NEW T, 0 \in T, \A n \in Nat : n \in T => n + 1 \in T
    PROVE  \A n \in Nat : n \in T
<1>. SUFFICES ASSUME Nat \ T # {}
              PROVE  FALSE
  OBVIOUS
<1>1. PICK n \in Nat \ T : \A y \in Nat \ T : n <= y
  BY Least, Nat \ T \subseteq Nat
<1>2. n # 0 /\ n - 1 \in Nat
  BY <1>1
<1>3. n - 1 \in T
  BY <1>1, <1>2
<1>. QED
  BY <1>1, <1>2, <1>3

(* A function computed from its value before, step by step.                   *)
Begins(g, n, a, step) ==
    g[0] = a /\ \A i \in 1 .. n : g[i] = step[i][g[i - 1]]

Follows(f, a, step) == f[0] = a /\ \A n \in Nat \ {0} : f[n] = step[n][f[n - 1]]

(* There is such a function, whatever the steps are.                          *)
LEMMA Recursive ==
    ASSUME NEW S, NEW a \in S, NEW step \in [Nat -> [S -> S]]
    PROVE  \E f \in [Nat -> S] : Follows(f, a, step)
<1>. DEFINE Starts(n) == {g \in [0 .. n -> S] : Begins(g, n, a, step)}
            T == {n \in Nat : Starts(n) # {}}
<1>1. 0 \in T
  <2>1. [i \in 0 .. 0 |-> a] \in Starts(0)
    BY DEF Begins
  <2>. QED
    BY <2>1
<1>2. ASSUME NEW n \in Nat, n \in T
      PROVE  n + 1 \in T
  <2>1. PICK g \in [0 .. n -> S] : Begins(g, n, a, step)
    BY <1>2
  <2>. DEFINE h == [i \in 0 .. n + 1 |-> IF i = n + 1 THEN step[n + 1][g[n]] ELSE g[i]]
  <2>2. h \in [0 .. n + 1 -> S]
    BY <2>1
  <2>3. h[0] = a
    BY <2>1 DEF Begins
  <2>4. ASSUME NEW i \in 1 .. n + 1
        PROVE  h[i] = step[i][h[i - 1]]
    <3>1. CASE i = n + 1
      BY <3>1
    <3>2. CASE i # n + 1
      BY <2>1, <3>2 DEF Begins
    <3>. QED
      BY <3>1, <3>2
  <2>5. h \in Starts(n + 1)
    BY <2>2, <2>3, <2>4 DEF Begins
  <2>. QED
    BY <2>5
<1>. HIDE DEF T
<1>3. \A n \in Nat : n \in T
  BY <1>1, <1>2, Inductive
<1>4. \A n \in Nat : Starts(n) # {}
  BY <1>3 DEF T
<1>5. ASSUME NEW n \in Nat, NEW m \in Nat, n <= m, NEW g \in Starts(n), NEW h \in Starts(m)
      PROVE  \A i \in 0 .. n : g[i] = h[i]
  <2>. DEFINE U == {i \in Nat : i <= n => g[i] = h[i]}
  <2>1. 0 \in U
    BY DEF Begins
  <2>2. ASSUME NEW i \in Nat, i \in U
        PROVE  i + 1 \in U
    <3>. SUFFICES ASSUME i + 1 <= n
                  PROVE  g[i + 1] = h[i + 1]
      OBVIOUS
    <3>1. g[i + 1] = step[i + 1][g[i]] /\ h[i + 1] = step[i + 1][h[i]]
      BY <1>5 DEF Begins
    <3>. QED
      BY <2>2, <3>1
  <2>. HIDE DEF U
  <2>3. \A i \in Nat : i \in U
    BY <2>1, <2>2, Inductive
  <2>. QED
    BY <2>3 DEF U
<1>. DEFINE G(n) == CHOOSE g \in Starts(n) : TRUE
            f == [n \in Nat |-> G(n)[n]]
<1>6. \A n \in Nat : G(n) \in Starts(n)
  BY <1>4
<1>. HIDE DEF G
<1>7. f \in [Nat -> S]
  BY <1>6
<1>8. f[0] = a
  BY <1>6 DEF Begins
<1>9. ASSUME NEW n \in Nat, NEW m \in Nat, n <= m
      PROVE  G(n)[n] = G(m)[n]
  <2>1. G(n) \in Starts(n) /\ G(m) \in Starts(m)
    BY <1>6
  <2>. HIDE DEF Starts
  <2>2. \A i \in 0 .. n : G(n)[i] = G(m)[i]
    BY <1>5, <1>9, <2>1
  <2>. QED
    BY <2>2
<1>10. ASSUME NEW n \in Nat \ {0}
      PROVE  f[n] = step[n][f[n - 1]]
  <2>1. G(n)[n] = step[n][G(n)[n - 1]]
    BY <1>6 DEF Begins
  <2>2. G(n - 1)[n - 1] = G(n)[n - 1]
    BY <1>9
  <2>. QED
    BY <2>1, <2>2
<1>. QED
  BY <1>7, <1>8, <1>10 DEF Follows

(* The same for a function of the positions of a sequence.                    *)
Grows(g, len, a, step) ==
    g = [i \in 1 .. len |-> IF i = 1 THEN a ELSE step[i][g[i - 1]]]

LEMMA RecursiveToLength ==
    ASSUME NEW S, NEW len \in Nat \ {0}, NEW a \in S, NEW step \in [Nat -> [S -> S]]
    PROVE  \E g \in [1 .. len -> S] : Grows(g, len, a, step)
<1>. DEFINE shifted == [n \in Nat |-> step[n + 1]]
<1>1. shifted \in [Nat -> [S -> S]]
  OBVIOUS
<1>2. \E f \in [Nat -> S] : Follows(f, a, shifted)
  <2>. HIDE DEF shifted
  <2>. QED
    BY <1>1, Recursive
<1>3. PICK f \in [Nat -> S] : f[0] = a /\ \A n \in Nat \ {0} : f[n] = shifted[n][f[n - 1]]
  BY <1>2 DEF Follows
<1>4. ASSUME NEW i \in 2 .. len
      PROVE  f[i - 1] = step[i][f[i - 2]]
  <2>1. i - 1 \in Nat \ {0} /\ (i - 1) - 1 = i - 2 /\ (i - 1) + 1 = i
    OBVIOUS
  <2>. QED
    BY <1>3, <2>1
<1>. DEFINE g == [i \in 1 .. len |-> f[i - 1]]
<1>5. g \in [1 .. len -> S]
  OBVIOUS
<1>6. ASSUME NEW i \in 1 .. len
      PROVE  g[i] = IF i = 1 THEN a ELSE step[i][g[i - 1]]
  <2>1. CASE i = 1
    BY <1>3, <2>1
  <2>2. CASE i # 1
    <3>1. i \in 2 .. len /\ i - 1 \in 1 .. len /\ (i - 1) - 1 = i - 2
      BY <2>2
    <3>2. g[i] = f[i - 1] /\ g[i - 1] = f[i - 2]
      BY <3>1
    <3>. QED
      BY <1>4, <2>2, <3>1, <3>2
  <2>. QED
    BY <2>1, <2>2
<1>7. Grows(g, len, a, step)
  <2>. HIDE DEF g
  <2>. QED
    BY <1>5, <1>6 DEF Grows
<1>. QED
  BY <1>5, <1>7

(* And of the numbers up to one.                                              *)
Unrolls(g, len, a, step) ==
    g = [i \in 0 .. len |-> IF i = 0 THEN a ELSE step[i][g[i - 1]]]

LEMMA RecursiveUpTo ==
    ASSUME NEW S, NEW len \in Nat, NEW a \in S, NEW step \in [Nat -> [S -> S]]
    PROVE  \E g \in [0 .. len -> S] : Unrolls(g, len, a, step)
<1>5. \E f \in [Nat -> S] : Follows(f, a, step)
  BY Recursive
<1>1. PICK f \in [Nat -> S] : f[0] = a /\ \A n \in Nat \ {0} : f[n] = step[n][f[n - 1]]
  BY <1>5 DEF Follows
<1>. DEFINE g == [i \in 0 .. len |-> f[i]]
<1>2. g \in [0 .. len -> S]
  OBVIOUS
<1>3. ASSUME NEW i \in 0 .. len
      PROVE  g[i] = IF i = 0 THEN a ELSE step[i][g[i - 1]]
  <2>1. CASE i = 0
    BY <1>1, <2>1
  <2>2. CASE i # 0
    <3>1. i \in Nat \ {0} /\ i - 1 \in 0 .. len
      BY <2>2
    <3>2. g[i] = f[i] /\ g[i - 1] = f[i - 1]
      BY <3>1
    <3>. QED
      BY <1>1, <2>2, <3>1, <3>2
  <2>. QED
    BY <2>1, <2>2
<1>4. Unrolls(g, len, a, step)
  <2>. HIDE DEF g
  <2>. QED
    BY <1>2, <1>3 DEF Unrolls
<1>. QED
  BY <1>2, <1>4

(* The members of a finite set in an order: how many are not behind a member  *)
(* is its rank, and every number up to the size of the set is the rank of one.*)
Ordered(D, upTo) ==
    /\ \A d \in D : d \in upTo[d]
    /\ \A d, e \in D : d \in upTo[e] \/ e \in upTo[d]
    /\ \A d, e \in D : d \in upTo[e] /\ e \in upTo[d] => d = e
    /\ \A d, e \in D : d \in upTo[e] => upTo[d] \subseteq upTo[e]

Numbered(D, upTo) ==
    /\ \A d \in D : Cardinality(upTo[d]) \in 1 .. Cardinality(D)
    /\ \A d, e \in D : d \in upTo[e] /\ d # e
                          => Cardinality(upTo[d]) < Cardinality(upTo[e])
    /\ \A d, e \in D : Cardinality(upTo[d]) = Cardinality(upTo[e]) => d = e
    /\ \A n \in 1 .. Cardinality(D) : \E d \in D : Cardinality(upTo[d]) = n

LEMMA Ranked ==
    ASSUME NEW D, IsFiniteSet(D), NEW upTo \in [D -> SUBSET D], Ordered(D, upTo)
    PROVE  Numbered(D, upTo)
<1>1. Cardinality(D) \in Nat
  BY FS_CardinalityType
<1>2. ASSUME NEW d \in D
      PROVE  IsFiniteSet(upTo[d]) /\ Cardinality(upTo[d]) \in 1 .. Cardinality(D)
  <2>1. upTo[d] \in SUBSET D /\ upTo[d] # {}
    BY DEF Ordered
  <2>2. IsFiniteSet(upTo[d]) /\ Cardinality(upTo[d]) <= Cardinality(D)
    BY <2>1, FS_Subset
  <2>3. Cardinality(upTo[d]) \in Nat /\ Cardinality(upTo[d]) # 0
    BY <2>1, <2>2, FS_CardinalityType, FS_EmptySet
  <2>. QED
    BY <1>1, <2>2, <2>3
<1>3. ASSUME NEW d \in D, NEW e \in D, d \in upTo[e], d # e
      PROVE  Cardinality(upTo[d]) < Cardinality(upTo[e])
  <2>1. upTo[d] \in SUBSET upTo[e] /\ upTo[d] # upTo[e]
    BY <1>3 DEF Ordered
  <2>2. /\ Cardinality(upTo[d]) <= Cardinality(upTo[e])
        /\ Cardinality(upTo[d]) # Cardinality(upTo[e])
    BY <1>2, <2>1, FS_Subset
  <2>. QED
    BY <1>1, <1>2, <2>2
<1>4. ASSUME NEW d \in D, NEW e \in D, Cardinality(upTo[d]) = Cardinality(upTo[e])
      PROVE  d = e
  <2>1. d \in upTo[e] \/ e \in upTo[d]
    BY DEF Ordered
  <2>. QED
    BY <1>1, <1>2, <1>3, <1>4, <2>1
<1>. DEFINE N == Cardinality(D)
            rank == [d \in D |-> Cardinality(upTo[d])]
<1>5. rank \in Injection(D, 1 .. N)
  <2>1. rank \in [D -> 1 .. N] /\ \A d, e \in D : rank[d] = rank[e] => d = e
    BY <1>2, <1>4
  <2>. HIDE DEF rank, N
  <2>. QED
    BY <2>1 DEF Injection, IsInjective
<1>6. IsFiniteSet(1 .. N) /\ Cardinality(1 .. N) = N
  BY <1>1, FS_Interval
<1>7. rank \in Surjection(D, 1 .. N)
  <2>. HIDE DEF rank
  <2>. QED
    BY <1>5, <1>6, FS_Injection
<1>8. \A n \in 1 .. N : \E d \in D : rank[d] = n
  <2>. HIDE DEF rank, N
  <2>. QED
    BY <1>7 DEF Surjection
<1>. QED
  BY <1>2, <1>3, <1>4, <1>8 DEF Numbered
=============================================================================
