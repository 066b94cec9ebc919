--------------------------- MODULE TextEditsProofs ---------------------------
(* What TextEdits promises, for all texts and any number of edits: proofs for *)
(* TLAPS. What joins sequences comes first, then where the places of a text   *)
(* are in its lines, the order of the edits, what one edit leaves of the      *)
(* text, and the invariant.                                                   *)
EXTENDS TextEdits, FiniteSetTheorems, Induction

(* Sequences of sequences joined to one.                                      *)

(* FlattenSeq computes what it returns of a function that joins one sequence  *)
(* more to the others with every step.                                        *)
Joining(s, f) == f = [i \in 1 .. Len(s) |-> IF i = 1 THEN s[i] ELSE f[i - 1] \o s[i]]
Joined(s) == CHOOSE f : Joining(s, f)

LEMMA FlattenJoined ==
    \A s : FlattenSeq(s) = IF Len(s) = 0 THEN s ELSE Joined(s)[Len(s)]
  BY DEF FlattenSeq, Joined, Joining

(* Joining does exist and goes on as it says.                                 *)
LEMMA JoinedSteps ==
    ASSUME NEW S, NEW s \in Seq(Seq(S)), s # <<>>
    PROVE  /\ Joined(s)[1] = s[1] /\ s[1] \in Seq(S)
           /\ \A i \in 2 .. Len(s) : Joined(s)[i] = Joined(s)[i - 1] \o s[i]
<1>. DEFINE T == Seq(S)
            step == [n \in Nat |-> [v \in T |-> IF n \in 1 .. Len(s) THEN v \o s[n] ELSE v]]
<1>1. Len(s) \in Nat \ {0} /\ \A n \in 1 .. Len(s) : s[n] \in T
  OBVIOUS
<1>2. \A v, w \in T : v \o w \in T
  OBVIOUS
<1>3. step \in [Nat -> [T -> T]] /\ s[1] \in T
  <2>. HIDE DEF T
  <2>. QED
    BY <1>1, <1>2
<1>4. \E g \in [1 .. Len(s) -> T] : Grows(g, Len(s), s[1], step)
  <2>. HIDE DEF T, step
  <2>. QED
    BY <1>1, <1>3, RecursiveToLength
<1>5. PICK g \in [1 .. Len(s) -> T] : Grows(g, Len(s), s[1], step)
  BY <1>4
<1>. HIDE DEF T
<1>6. ASSUME NEW i \in 1 .. Len(s)
      PROVE  g[i] = IF i = 1 THEN s[i] ELSE g[i - 1] \o s[i]
  <2>1. CASE i = 1
    BY <1>5, <2>1 DEF Grows
  <2>2. CASE i # 1
    <3>1. i \in Nat /\ i - 1 \in 1 .. Len(s)
      BY <1>1, <2>2
    <3>2. g[i - 1] \in T
      BY <3>1
    <3>3. g[i] = step[i][g[i - 1]]
      <4>. HIDE DEF step
      <4>. QED
        BY <1>5, <2>2 DEF Grows
    <3>. QED
      BY <2>2, <3>1, <3>3, <3>2
  <2>. QED
    BY <2>1, <2>2
<1>7. Joining(s, g)
  <2>1. g = [i \in 1 .. Len(s) |-> g[i]]
    OBVIOUS
  <2>. QED
    BY <1>6, <2>1 DEF Joining
<1>8. Joining(s, Joined(s))
  BY <1>7 DEF Joined
<1>9. \A i \in 1 .. Len(s) : Joined(s)[i] = IF i = 1 THEN s[i] ELSE Joined(s)[i - 1] \o s[i]
  BY <1>8, Zenon DEF Joining
<1>10. ASSUME NEW i \in 2 .. Len(s)
       PROVE  Joined(s)[i] = Joined(s)[i - 1] \o s[i]
  <2>1. i \in 1 .. Len(s) /\ i # 1
    BY <1>1
  <2>. QED
    BY <1>9, <2>1
<1>11. Joined(s)[1] = s[1]
  BY <1>1, <1>9
<1>. QED
  BY <1>3, <1>10, <1>11 DEF T

(* As far as a sequence goes like another, joining does too.                  *)
LEMMA JoinedAlike ==
    ASSUME NEW S, NEW s \in Seq(Seq(S)), NEW t \in Seq(Seq(S)), s # <<>>,
           Len(s) <= Len(t), \A i \in 1 .. Len(s) : t[i] = s[i]
    PROVE  \A i \in 1 .. Len(s) : Joined(s)[i] = Joined(t)[i] /\ Joined(s)[i] \in Seq(S)
<1>. DEFINE U == {n \in Nat : n < Len(s) => /\ Joined(s)[n + 1] = Joined(t)[n + 1]
                                            /\ Joined(s)[n + 1] \in Seq(S)}
<1>1. t # <<>> /\ Len(s) \in Nat \ {0} /\ Len(t) \in Nat
  OBVIOUS
<1>2. 0 \in U
  <2>1. Joined(s)[1] = s[1] /\ s[1] \in Seq(S)
    BY JoinedSteps
  <2>2. Joined(t)[1] = t[1]
    BY <1>1, JoinedSteps
  <2>3. t[1] = s[1]
    BY <1>1
  <2>. QED
    BY <2>1, <2>2, <2>3
<1>3. ASSUME NEW n \in Nat, n \in U
      PROVE  n + 1 \in U
  <2>. SUFFICES ASSUME n + 1 < Len(s)
                PROVE  /\ Joined(s)[n + 2] = Joined(t)[n + 2]
                       /\ Joined(s)[n + 2] \in Seq(S)
    OBVIOUS
  <2>1. n + 2 \in 2 .. Len(s) /\ n + 2 \in 2 .. Len(t) /\ (n + 2) - 1 = n + 1
    BY <1>1
  <2>2. /\ Joined(s)[n + 2] = Joined(s)[n + 1] \o s[n + 2]
        /\ Joined(t)[n + 2] = Joined(t)[n + 1] \o t[n + 2]
    BY <1>1, <2>1, JoinedSteps
  <2>3. s[n + 2] \in Seq(S) /\ t[n + 2] = s[n + 2]
    BY <2>1
  <2>4. Joined(s)[n + 1] = Joined(t)[n + 1] /\ Joined(s)[n + 1] \in Seq(S)
    BY <1>3
  <2>. QED
    BY <2>2, <2>3, <2>4
<1>. HIDE DEF U
<1>4. \A n \in Nat : n \in U
  BY <1>2, <1>3, Inductive
<1>5. ASSUME NEW i \in 1 .. Len(s)
      PROVE  Joined(s)[i] = Joined(t)[i] /\ Joined(s)[i] \in Seq(S)
  <2>1. i - 1 \in Nat /\ i - 1 < Len(s) /\ (i - 1) + 1 = i
    BY <1>1
  <2>2. i - 1 \in U
    BY <1>4, <2>1
  <2>. QED
    BY <2>1, <2>2 DEF U
<1>. QED
  BY <1>5

LEMMA FlattenEmpty == FlattenSeq(<<>>) = <<>>
  BY FlattenJoined

LEMMA FlattenType ==
    ASSUME NEW S, NEW s \in Seq(Seq(S))
    PROVE  FlattenSeq(s) \in Seq(S)
<1>1. CASE s = <<>>
  <2>1. FlattenSeq(s) = <<>>
    BY <1>1, FlattenEmpty
  <2>. QED
    BY <2>1
<1>2. CASE s # <<>>
  <2>1. Len(s) \in 1 .. Len(s) /\ Len(s) <= Len(s) /\ Len(s) # 0
    BY <1>2
  <2>2. Joined(s)[Len(s)] \in Seq(S)
    BY <1>2, <2>1, JoinedAlike
  <2>. QED
    BY <2>1, <2>2, FlattenJoined
<1>. QED
  BY <1>1, <1>2

(* What comes behind in the sequence comes behind in the whole.               *)
LEMMA FlattenAppend ==
    ASSUME NEW S, NEW s \in Seq(Seq(S)), NEW x \in Seq(S)
    PROVE  FlattenSeq(s \o <<x>>) = FlattenSeq(s) \o x
<1>. DEFINE t == s \o <<x>>
<1>1. /\ t \in Seq(Seq(S)) /\ t # <<>> /\ Len(t) = Len(s) + 1 /\ Len(s) \in Nat
      /\ \A i \in 1 .. Len(s) : t[i] = s[i]
      /\ t[Len(s) + 1] = x
  OBVIOUS
<1>2. FlattenSeq(t) = Joined(t)[Len(s) + 1]
  <2>. HIDE DEF t
  <2>. QED
    BY <1>1, FlattenJoined
<1>3. CASE s = <<>>
  <2>1. FlattenSeq(t) = x
    <3>1. Joined(t)[1] = t[1]
      <4>. HIDE DEF t
      <4>. QED
        BY <1>1, JoinedSteps
    <3>2. Len(s) = 0
      BY <1>3
    <3>. QED
      BY <1>1, <1>2, <3>1, <3>2
  <2>2. FlattenSeq(s) = <<>>
    BY <1>3, FlattenEmpty
  <2>. QED
    BY <2>1, <2>2
<1>4. CASE s # <<>>
  <2>1. Len(s) + 1 \in 2 .. Len(t) /\ Len(s) \in 1 .. Len(s) /\ Len(s) # 0
        /\ (Len(s) + 1) - 1 = Len(s)
    BY <1>1, <1>4
  <2>. HIDE DEF t
  <2>2. Joined(t)[Len(s) + 1] = Joined(t)[Len(s)] \o x
    BY <1>1, <2>1, JoinedSteps
  <2>3. Joined(s)[Len(s)] = Joined(t)[Len(s)]
    <3>1. Len(s) <= Len(t)
      BY <1>1
    <3>. QED
      BY <1>1, <1>4, <2>1, <3>1, JoinedAlike
  <2>4. FlattenSeq(s) = Joined(s)[Len(s)]
    BY <2>1, FlattenJoined
  <2>. QED
    BY <1>2, <2>2, <2>3, <2>4 DEF t
<1>. QED
  BY <1>3, <1>4

(* Concatenation is associative. The name lets the provers use it.            *)
Regroups(S) == \A p, q, r \in Seq(S) : (p \o q) \o r = p \o (q \o r)

Regrouping(p, q, r) == (p \o q) \o r = p \o (q \o r)

LEMMA RegroupedThree ==
    ASSUME NEW S, NEW p \in Seq(S), NEW q \in Seq(S), NEW r \in Seq(S)
    PROVE  Regrouping(p, q, r)
<1>1. p \o q \in Seq(S) /\ q \o r \in Seq(S)
  OBVIOUS
<1>2. Len(p \o q) = Len(p) + Len(q) /\ Len(q \o r) = Len(q) + Len(r)
  OBVIOUS
<1>3. /\ (p \o q) \o r \in Seq(S) /\ p \o (q \o r) \in Seq(S)
      /\ Len((p \o q) \o r) = Len(p) + Len(q) + Len(r)
      /\ Len(p \o (q \o r)) = Len(p) + Len(q) + Len(r)
  BY <1>1, <1>2
<1>4. ASSUME NEW i \in 1 .. Len(p) + Len(q) + Len(r)
      PROVE  ((p \o q) \o r)[i] = (p \o (q \o r))[i]
  <2>1. CASE i <= Len(p)
    BY <1>1, <1>2, <2>1
  <2>2. CASE Len(p) < i /\ i <= Len(p) + Len(q)
    BY <1>1, <1>2, <2>2
  <2>3. CASE Len(p) + Len(q) < i
    BY <1>1, <1>2, <2>3
  <2>. QED
    BY <2>1, <2>2, <2>3
<1>. QED
  BY <1>3, <1>4, SeqEqual DEF Regrouping

LEMMA Regrouped == \A S : Regroups(S)
  BY RegroupedThree DEF Regroups, Regrouping

LEMMA FlattenSingle ==
    ASSUME NEW S, NEW x \in Seq(S)
    PROVE  FlattenSeq(<<x>>) = x
<1>1. <<>> \in Seq(Seq(S)) /\ <<>> \o <<x>> = <<x>> /\ <<>> \o x = x
  OBVIOUS
<1>2. FlattenSeq(<<>> \o <<x>>) = FlattenSeq(<<>>) \o x
  BY <1>1, FlattenAppend
<1>. QED
  BY <1>1, <1>2, FlattenEmpty

LEMMA FlattenConcatOne ==
    ASSUME NEW S, NEW s \in Seq(Seq(S)), NEW v \in Seq(Seq(S)), NEW x \in Seq(S),
           FlattenSeq(s \o v) = FlattenSeq(s) \o FlattenSeq(v)
    PROVE  FlattenSeq(s \o (v \o <<x>>)) = FlattenSeq(s) \o FlattenSeq(v \o <<x>>)
<1>1. <<x>> \in Seq(Seq(S)) /\ s \o v \in Seq(Seq(S))
  OBVIOUS
<1>2. s \o (v \o <<x>>) = (s \o v) \o <<x>>
  BY <1>1, Regrouped DEF Regroups
<1>3. FlattenSeq(v \o <<x>>) = FlattenSeq(v) \o x
  BY FlattenAppend
<1>4. FlattenSeq((s \o v) \o <<x>>) = FlattenSeq(s \o v) \o x
  BY <1>1, FlattenAppend
<1>5. FlattenSeq(s) \in Seq(S) /\ FlattenSeq(v) \in Seq(S)
  BY FlattenType
<1>6. (FlattenSeq(s) \o FlattenSeq(v)) \o x = FlattenSeq(s) \o (FlattenSeq(v) \o x)
  BY <1>5, Regrouped DEF Regroups
<1>. QED
  BY <1>2, <1>3, <1>4, <1>6

LEMMA FlattenConcat ==
    ASSUME NEW S, NEW s \in Seq(Seq(S)), NEW t \in Seq(Seq(S))
    PROVE  FlattenSeq(s \o t) = FlattenSeq(s) \o FlattenSeq(t)
<1>. DEFINE Holds(u) == FlattenSeq(s \o u) = FlattenSeq(s) \o FlattenSeq(u)
            U == {n \in Nat : \A u \in Seq(Seq(S)) : Len(u) = n => Holds(u)}
<1>1. 0 \in U
  <2>. SUFFICES ASSUME NEW u \in Seq(Seq(S)), Len(u) = 0
                PROVE  Holds(u)
    OBVIOUS
  <2>1. u = <<>> /\ s \o u = s
    OBVIOUS
  <2>2. FlattenSeq(s) \in Seq(S) /\ FlattenSeq(u) = <<>>
    BY <2>1, FlattenEmpty, FlattenType
  <2>. QED
    BY <2>1, <2>2
<1>2. ASSUME NEW n \in Nat, n \in U
      PROVE  n + 1 \in U
  <2>. SUFFICES ASSUME NEW u \in Seq(Seq(S)), Len(u) = n + 1
                PROVE  Holds(u)
    OBVIOUS
  <2>. DEFINE v == SubSeq(u, 1, n)
              x == u[n + 1]
  <2>1. v \in Seq(Seq(S)) /\ x \in Seq(S) /\ Len(v) = n
    OBVIOUS
  <2>2. u = v \o <<x>>
    OBVIOUS
  <2>. HIDE DEF v, x
  <2>3. FlattenSeq(s \o v) = FlattenSeq(s) \o FlattenSeq(v)
    BY <1>2, <2>1
  <2>. QED
    BY <2>1, <2>2, <2>3, FlattenConcatOne
<1>. HIDE DEF U
<1>3. \A n \in Nat : n \in U
  BY <1>1, <1>2, Inductive
<1>. QED
  BY <1>3 DEF U

-----------------------------------------------------------------------------
(* Python's slices of a line.                                                 *)

LEMMA SlicesType ==
    ASSUME NEW S, NEW line \in Seq(S), NEW n \in Nat
    PROVE  /\ Before(line, n) \in Seq(S)
           /\ Len(Before(line, n)) = IF n < Len(line) THEN n ELSE Len(line)
           /\ \A i \in 1 .. Len(Before(line, n)) : Before(line, n)[i] = line[i]
           /\ From(line, n) \in Seq(S)
           /\ Before(line, n) \o From(line, n) = line
<1>. Len(line) \in Nat
  OBVIOUS
<1>1. /\ Before(line, n) \in Seq(S)
      /\ Len(Before(line, n)) = IF n < Len(line) THEN n ELSE Len(line)
      /\ \A i \in 1 .. Len(Before(line, n)) : Before(line, n)[i] = line[i]
  BY DEF Before
<1>2. From(line, n) \in Seq(S)
  BY DEF From
<1>3. CASE n < Len(line)
  <2>1. SubSeq(line, 1, n) \o SubSeq(line, n + 1, Len(line)) = SubSeq(line, 1, Len(line))
    <3>1. 1 \in 1 .. Len(line) + 1 /\ n \in 1 - 1 .. Len(line) /\ Len(line) \in n .. Len(line)
      BY <1>3
    <3>. QED
      BY <3>1, ConcatAdjacentSubSeq
  <2>2. Before(line, n) \o From(line, n) = line
    BY <1>3, <2>1, SubSeqFull DEF Before, From
  <2>. QED
    BY <1>1, <1>2, <2>2
<1>4. CASE ~ n < Len(line)
  <2>1. Before(line, n) = line
    BY <1>4 DEF Before
  <2>2. From(line, n) = <<>>
    BY <1>4 DEF From
  <2>. QED
    BY <1>1, <1>2, <2>1, <2>2
<1>. QED
  BY <1>1, <1>2, <1>3, <1>4

(* What is behind it does not matter to the beginning of a line.              *)
LEMMA BeforeConcat ==
    ASSUME NEW S, NEW s \in Seq(S), NEW t \in Seq(S), NEW n \in 0 .. Len(s)
    PROVE  Before(s \o t, n) = Before(s, n)
<1>. DEFINE u == s \o t
<1>1. u \in Seq(S) /\ Len(u) >= Len(s) /\ \A i \in 1 .. Len(s) : u[i] = s[i]
  OBVIOUS
<1>2. Len(s) \in Nat /\ n \in Nat /\ n <= Len(s)
  OBVIOUS
<1>3. /\ Before(s, n) \in Seq(S) /\ Len(Before(s, n)) = n
      /\ \A i \in 1 .. n : Before(s, n)[i] = s[i]
  BY <1>2, SlicesType
<1>4. /\ Before(u, n) \in Seq(S) /\ Len(Before(u, n)) = n
      /\ \A i \in 1 .. n : Before(u, n)[i] = u[i]
  <2>. HIDE DEF u
  <2>1. Len(u) \in Nat
    BY <1>1
  <2>. QED
    BY <1>1, <1>2, <2>1, SlicesType
<1>5. Before(u, n) = Before(s, n)
  <2>. HIDE DEF u
  <2>1. \A i \in 1 .. n : Before(u, n)[i] = Before(s, n)[i]
    <3>1. \A i \in 1 .. n : i \in 1 .. Len(s)
      BY <1>2
    <3>. QED
      BY <1>1, <1>3, <1>4, <3>1
  <2>. QED
    BY <1>3, <1>4, <2>1, SeqEqual
<1>. QED
  BY <1>5

LEMMA BeforeBefore ==
    ASSUME NEW S, NEW s \in Seq(S), NEW m \in Nat, NEW n \in 0 .. m
    PROVE  Before(Before(s, m), n) = Before(s, n)
  BY DEF Before

-----------------------------------------------------------------------------
(* The places of a text.                                                      *)

Characters == UNION {ToSet(t) : t \in Texts \cup NewTexts}

LEMMA CharactersType == \A t \in Texts \cup NewTexts : t \in Seq(Characters)
<1>. SUFFICES ASSUME NEW t \in Texts \cup NewTexts
              PROVE  t \in Seq(Characters)
  OBVIOUS
<1>1. t \in Seq(ToSet(t)) /\ ToSet(t) \subseteq Characters
  BY TextsAssumption DEF Characters
<1>. QED
  BY <1>1, SeqMonotonic

(* The newlines before a place and the last of them.                          *)
Newlines(content, place) == {i \in 1 .. place : content[i] = Newline}

LastNewline(content, place) ==
    IF Newlines(content, place) = {} THEN 0 ELSE Max(Newlines(content, place))

LEMMA Greatest ==
    ASSUME NEW T, NEW n \in Nat, T \subseteq 0 .. n, T # {}
    PROVE  Max(T) \in T /\ \A x \in T : x <= Max(T)
<1>. DEFINE U == {i \in 0 .. n : n - i \in T}
<1>1. U \subseteq Nat /\ U # {}
  <2>1. PICK x \in T : x \in 0 .. n
    OBVIOUS
  <2>2. n - x \in 0 .. n /\ n - (n - x) = x
    BY <2>1
  <2>3. n - x \in U
    BY <2>1, <2>2
  <2>4. U \subseteq Nat
    OBVIOUS
  <2>. HIDE DEF U
  <2>. QED
    BY <2>3, <2>4
<1>2. PICK l \in U : \A y \in U : l <= y
  <2>. HIDE DEF U
  <2>. QED
    BY <1>1, Least
<1>3. n - l \in T /\ l \in 0 .. n
  OBVIOUS
<1>4. ASSUME NEW x \in T
      PROVE  n - l >= x
  <2>1. x \in 0 .. n /\ n - x \in 0 .. n /\ n - (n - x) = x
    OBVIOUS
  <2>2. n - x \in U
    BY <2>1
  <2>3. l <= n - x
    BY <1>2, <2>2
  <2>. QED
    BY <1>3, <2>1, <2>3
<1>5. \E m \in T : \A x \in T : m >= x
  BY <1>3, <1>4
<1>6. Max(T) \in T /\ \A x \in T : Max(T) >= x
  BY <1>5, Zenon DEF Max
<1>7. \A x \in T : x \in Nat
  OBVIOUS
<1>. QED
  BY <1>6, <1>7

(* A position counts the newlines before a place and what follows the last.   *)
LEMMA LinesBefore ==
    ASSUME NEW content, NEW place \in Nat
    PROVE  /\ IsFiniteSet(Newlines(content, place))
           /\ Cardinality(Newlines(content, place)) \in Nat
           /\ LastNewline(content, place) \in 0 .. place
           /\ Newlines(content, place) = Newlines(content, LastNewline(content, place))
           /\ LastNewline(content, place) # 0
                 => LastNewline(content, place) \in Newlines(content, place)
           /\ \A i \in Newlines(content, place) : i <= LastNewline(content, place)
           /\ Position(content, place) =
                 <<Cardinality(Newlines(content, place)),
                   place - LastNewline(content, place)>>
<1>. DEFINE T == Newlines(content, place)
            b == LastNewline(content, place)
<1>1. T \subseteq 1 .. place
  BY DEF Newlines
<1>2. IsFiniteSet(T) /\ Cardinality(T) \in Nat
  <2>. HIDE DEF T
  <2>1. IsFiniteSet(1 .. place)
    BY FS_Interval
  <2>. QED
    BY <1>1, <2>1, FS_Subset, FS_CardinalityType
<1>3. b \in 0 .. place /\ (b # 0 => b \in T) /\ \A i \in T : i <= b
  <2>1. CASE T = {}
    BY <2>1 DEF LastNewline
  <2>2. CASE T # {}
    <3>1. T \subseteq 0 .. place
      BY <1>1
    <3>2. Max(T) \in T /\ \A x \in T : x <= Max(T)
      <4>. HIDE DEF T
      <4>. QED
        BY <2>2, <3>1, Greatest
    <3>3. b = Max(T)
      BY <2>2 DEF LastNewline
    <3>. QED
      BY <3>1, <3>2, <3>3
  <2>. QED
    BY <2>1, <2>2
<1>4. T = Newlines(content, b)
  <2>. HIDE DEF b
  <2>. QED
    BY <1>3 DEF Newlines
<1>5. Position(content, place) = <<Cardinality(T), place - b>>
  BY DEF Position, LastNewline, Newlines
<1>. QED
  BY <1>2, <1>3, <1>4, <1>5

LEMMA PositionType ==
    ASSUME NEW content, NEW place \in Nat
    PROVE  /\ Position(content, place)[1] \in Nat
           /\ Position(content, place)[2] \in Nat
           /\ Position(content, place)[2] <= place
           /\ Position(content, place)[1] = Cardinality(Newlines(content, place))
           /\ Position(content, place)[2] = place - LastNewline(content, place)
<1>. DEFINE b == LastNewline(content, place)
            n == Cardinality(Newlines(content, place))
<1>1. n \in Nat /\ b \in 0 .. place /\ Position(content, place) = <<n, place - b>>
  BY LinesBefore
<1>. HIDE DEF b, n
<1>2. place - b \in Nat /\ place - b <= place
  BY <1>1
<1>. QED
  BY <1>1, <1>2 DEF b, n

(* Of two places, the later is on a later line or further on in the same.     *)
LEMMA PositionGrows ==
    ASSUME NEW content, NEW place \in Nat, NEW other \in Nat, place < other
    PROVE  \/ Position(content, place)[1] < Position(content, other)[1]
           \/ /\ Position(content, place)[1] = Position(content, other)[1]
              /\ Position(content, other)[2] - Position(content, place)[2] = other - place
<1>. DEFINE T == Newlines(content, place)
            U == Newlines(content, other)
<1>1. T \in SUBSET U
  BY DEF Newlines
<1>2. IsFiniteSet(U) /\ Cardinality(U) \in Nat /\ Cardinality(T) \in Nat
  BY LinesBefore
<1>3. Cardinality(T) <= Cardinality(U) /\ (Cardinality(T) = Cardinality(U) => T = U)
  <2>. HIDE DEF T, U
  <2>. QED
    BY <1>1, <1>2, FS_Subset
<1>4. CASE Cardinality(T) = Cardinality(U)
  <2>1. T = U
    BY <1>3, <1>4
  <2>2. LastNewline(content, place) = LastNewline(content, other)
    BY <2>1 DEF LastNewline
  <2>3. LastNewline(content, place) \in Nat
    <3>1. LastNewline(content, place) \in 0 .. place
      BY LinesBefore
    <3>. QED
      BY <3>1
  <2>4. /\ Position(content, place)[1] = Cardinality(T)
        /\ Position(content, other)[1] = Cardinality(U)
        /\ Position(content, place)[2] = place - LastNewline(content, place)
        /\ Position(content, other)[2] = other - LastNewline(content, other)
    BY PositionType
  <2>. HIDE DEF T, U
  <2>. QED
    BY <1>4, <2>2, <2>3, <2>4
<1>5. CASE Cardinality(T) # Cardinality(U)
  <2>1. /\ Position(content, place)[1] = Cardinality(T)
        /\ Position(content, other)[1] = Cardinality(U)
    BY PositionType
  <2>. HIDE DEF T, U
  <2>. QED
    BY <1>2, <1>3, <1>5, <2>1
<1>. QED
  BY <1>4, <1>5

(* Positions are in the order of their places, and places have their own.     *)
LEMMA PositionPrecedes ==
    ASSUME NEW content, NEW place \in Nat, NEW other \in Nat
    PROVE  /\ Precedes(Position(content, place), Position(content, other)) <=> place < other
           /\ Position(content, place) = Position(content, other) => place = other
<1>. DEFINE P(p) == Position(content, p)
<1>1. ASSUME NEW p \in Nat, NEW r \in Nat, p < r
      PROVE  Precedes(P(p), P(r)) /\ ~ Precedes(P(r), P(p)) /\ P(p) # P(r)
  <2>1. P(p)[1] \in Nat /\ P(p)[2] \in Nat /\ P(r)[1] \in Nat /\ P(r)[2] \in Nat
    BY PositionType
  <2>2. P(p)[1] < P(r)[1] \/ (P(p)[1] = P(r)[1] /\ P(r)[2] - P(p)[2] = r - p)
    BY <1>1, PositionGrows
  <2>. HIDE DEF P
  <2>. QED
    BY <1>1, <2>1, <2>2 DEF Precedes
<1>2. CASE place < other
  BY <1>1, <1>2
<1>3. CASE other < place
  <2>1. ~ (place < other)
    BY <1>3
  <2>. QED
    BY <1>1, <1>3, <2>1
<1>4. CASE place = other
  <2>1. P(place)[1] \in Nat /\ P(place)[2] \in Nat
    BY PositionType
  <2>. HIDE DEF P
  <2>2. ~ Precedes(P(place), P(place))
    BY <2>1 DEF Precedes
  <2>. QED
    BY <1>4, <2>2 DEF P
<1>. QED
  BY <1>2, <1>3, <1>4

-----------------------------------------------------------------------------
(* The ends of the lines of a text.                                           *)

EndsUpTo(content, i) == {j \in Ends(content) : j <= i}

LEMMA EndsType ==
    ASSUME NEW S, NEW content \in Seq(S)
    PROVE  /\ Len(content) \in Nat
           /\ Ends(content) = {i \in 1 .. Len(content) :
                                  content[i] = Newline \/ i = Len(content)}
           /\ Ends(content) \subseteq 1 .. Len(content)
           /\ IsFiniteSet(Ends(content))
           /\ Cardinality(Ends(content)) \in Nat
<1>1. /\ Len(content) \in Nat
      /\ Ends(content) = {i \in 1 .. Len(content) : content[i] = Newline \/ i = Len(content)}
  BY DEF Ends
<1>2. Ends(content) \in SUBSET (1 .. Len(content))
  BY <1>1
<1>3. IsFiniteSet(1 .. Len(content))
  BY <1>1, FS_Interval
<1>. QED
  BY <1>1, <1>2, <1>3, FS_Subset, FS_CardinalityType

(* EndOf numbers the ends of lines.                                           *)
LEMMA EndsRanked ==
    ASSUME NEW S, NEW content \in Seq(S)
    PROVE  /\ \A n \in 1 .. Cardinality(Ends(content)) :
                 /\ EndOf(content, n) \in Ends(content)
                 /\ Cardinality(EndsUpTo(content, EndOf(content, n))) = n
           /\ \A e \in Ends(content) :
                 /\ Cardinality(EndsUpTo(content, e)) \in 1 .. Cardinality(Ends(content))
                 /\ EndOf(content, Cardinality(EndsUpTo(content, e))) = e
           /\ \A d, e \in Ends(content) :
                 d < e => Cardinality(EndsUpTo(content, d)) < Cardinality(EndsUpTo(content, e))
<1>. DEFINE D == Ends(content)
            upTo == [d \in D |-> EndsUpTo(content, d)]
            size(d) == Cardinality(EndsUpTo(content, d))
<1>1. D \subseteq Nat /\ IsFiniteSet(D) /\ Cardinality(D) \in Nat
  BY EndsType
<1>2. upTo \in [D -> SUBSET D]
  BY DEF EndsUpTo
<1>3. \A d, e \in D : d \in upTo[e] <=> d <= e
  BY DEF EndsUpTo
<1>4. Ordered(D, upTo)
  <2>1. \A d, e \in D : d \in upTo[e] => upTo[d] \subseteq upTo[e]
    <3>. SUFFICES ASSUME NEW d \in D, NEW e \in D, d \in upTo[e], NEW j \in upTo[d]
                  PROVE  j \in upTo[e]
      OBVIOUS
    <3>1. j \in D
      BY <1>2
    <3>. HIDE DEF upTo, D
    <3>. QED
      BY <1>1, <1>3, <3>1
  <2>. HIDE DEF upTo, D
  <2>. QED
    BY <1>1, <1>3, <2>1 DEF Ordered
<1>5. /\ \A d \in D : Cardinality(upTo[d]) \in 1 .. Cardinality(D)
      /\ \A d, e \in D : d \in upTo[e] /\ d # e
                            => Cardinality(upTo[d]) < Cardinality(upTo[e])
      /\ \A d, e \in D : Cardinality(upTo[d]) = Cardinality(upTo[e]) => d = e
      /\ \A n \in 1 .. Cardinality(D) : \E d \in D : Cardinality(upTo[d]) = n
  <2>. HIDE DEF upTo, D
  <2>1. Numbered(D, upTo)
    BY <1>1, <1>2, <1>4, Ranked
  <2>. QED
    BY <2>1 DEF Numbered
<1>6. \A d \in D : upTo[d] = EndsUpTo(content, d)
  OBVIOUS
<1>7. \A n \in 1 .. Cardinality(D) :
         EndOf(content, n) = CHOOSE i \in D : Cardinality(EndsUpTo(content, i)) = n
  <2>1. \A n \in 1 .. Cardinality(D) : n # 0
    BY <1>1
  <2>. QED
    BY <2>1 DEF EndOf, EndsUpTo
<1>. HIDE DEF upTo, D
<1>8. ASSUME NEW n \in 1 .. Cardinality(D)
      PROVE  EndOf(content, n) \in D /\ Cardinality(EndsUpTo(content, EndOf(content, n))) = n
  <2>1. \E i \in D : Cardinality(EndsUpTo(content, i)) = n
    BY <1>5, <1>6
  <2>. QED
    BY <1>7, <2>1
<1>9. ASSUME NEW e \in D
      PROVE  size(e) \in 1 .. Cardinality(D) /\ EndOf(content, size(e)) = e
  <2>1. size(e) \in 1 .. Cardinality(D)
    BY <1>5, <1>6
  <2>2. EndOf(content, size(e)) \in D /\ size(EndOf(content, size(e))) = size(e)
    BY <1>8, <2>1
  <2>. QED
    BY <1>5, <1>6, <2>1, <2>2
<1>10. ASSUME NEW d \in D, NEW e \in D, d < e
       PROVE  size(d) < size(e)
  <2>1. d \in Nat /\ e \in Nat
    BY <1>1
  <2>2. d \in upTo[e] /\ d # e
    BY <1>3, <1>10, <2>1
  <2>. QED
    BY <1>5, <1>6, <2>2
<1>. QED
  BY <1>8, <1>9, <1>10 DEF D

(* The ends are in their order, and the last is the end of the text.          *)
LEMMA EndsInOrder ==
    ASSUME NEW S, NEW content \in Seq(S), NEW n \in 1 .. Cardinality(Ends(content))
    PROVE  /\ EndOf(content, n - 1) \in 0 .. Len(content)
           /\ EndOf(content, n) \in 1 .. Len(content)
           /\ EndOf(content, n - 1) < EndOf(content, n)
<1>1. /\ Len(content) \in Nat /\ Ends(content) \subseteq 1 .. Len(content)
      /\ Cardinality(Ends(content)) \in Nat
  BY EndsType
<1>2. EndOf(content, n) \in 1 .. Len(content)
  BY <1>1, EndsRanked
<1>3. CASE n = 1
  <2>1. EndOf(content, n - 1) = 0
    BY <1>3 DEF EndOf
  <2>. QED
    BY <1>1, <1>2, <2>1
<1>4. CASE n # 1
  <2>. DEFINE d == EndOf(content, n - 1)
              e == EndOf(content, n)
  <2>1. n - 1 \in 1 .. Cardinality(Ends(content)) /\ n \in Nat /\ n - 1 < n
    BY <1>1, <1>4
  <2>2. /\ d \in Ends(content) /\ e \in Ends(content)
        /\ Cardinality(EndsUpTo(content, d)) = n - 1
        /\ Cardinality(EndsUpTo(content, e)) = n
    BY <2>1, EndsRanked
  <2>3. d \in 1 .. Len(content) /\ e \in 1 .. Len(content)
    BY <1>1, <2>2
  <2>4. ~ (e < d)
    <3>1. e < d => n < n - 1
      BY <2>2, EndsRanked
    <3>. QED
      BY <2>1, <3>1
  <2>5. d # e
    BY <2>1, <2>2
  <2>. HIDE DEF d, e
  <2>6. d < e
    BY <1>1, <2>3, <2>4, <2>5
  <2>. QED
    BY <1>1, <2>3, <2>6 DEF d, e
<1>. QED
  BY <1>3, <1>4

LEMMA LastEnd ==
    ASSUME NEW S, NEW content \in Seq(S)
    PROVE  EndOf(content, Cardinality(Ends(content))) = Len(content)
<1>. DEFINE D == Ends(content)
            N == Len(content)
<1>1. /\ N \in Nat /\ D \subseteq 1 .. N
      /\ D = {i \in 1 .. N : content[i] = Newline \/ i = N}
      /\ Cardinality(D) \in Nat /\ IsFiniteSet(D)
  BY EndsType
<1>2. CASE N = 0
  <2>1. D = {}
    BY <1>1, <1>2
  <2>2. Cardinality(D) = 0
    BY <2>1, FS_EmptySet
  <2>. QED
    BY <1>2, <2>2 DEF EndOf
<1>3. CASE N # 0
  <2>1. N \in D
    BY <1>1, <1>3
  <2>2. EndsUpTo(content, N) = D
    <3>1. \A j \in D : j <= N
      BY <1>1
    <3>. QED
      BY <3>1 DEF EndsUpTo
  <2>3. EndOf(content, Cardinality(EndsUpTo(content, N))) = N
    BY <2>1, EndsRanked
  <2>. QED
    BY <2>2, <2>3
<1>. QED
  BY <1>2, <1>3

LEMMA SplitType ==
    ASSUME NEW S, NEW content \in Seq(S)
    PROVE  /\ SplitLines(content) \in Seq(Seq(S))
           /\ Len(SplitLines(content)) = Cardinality(Ends(content))
           /\ \A n \in 1 .. Cardinality(Ends(content)) :
                 SplitLines(content)[n] =
                    SubSeq(content, EndOf(content, n - 1) + 1, EndOf(content, n))
<1>. DEFINE K == Cardinality(Ends(content))
            line(n) == SubSeq(content, EndOf(content, n - 1) + 1, EndOf(content, n))
<1>1. K \in Nat /\ Len(content) \in Nat
  BY EndsType
<1>2. SplitLines(content) = [n \in 1 .. K |-> line(n)]
  BY DEF SplitLines
<1>3. ASSUME NEW n \in 1 .. K
      PROVE  line(n) \in Seq(S)
  <2>1. /\ EndOf(content, n - 1) \in 0 .. Len(content)
        /\ EndOf(content, n) \in 1 .. Len(content)
    BY EndsInOrder
  <2>2. \A a \in 0 .. Len(content), b \in 1 .. Len(content) : SubSeq(content, a + 1, b) \in Seq(S)
    OBVIOUS
  <2>. QED
    BY <2>1, <2>2
<1>. HIDE DEF line, K
<1>4. SplitLines(content) \in Seq(Seq(S)) /\ Len(SplitLines(content)) = K
  BY <1>1, <1>2, <1>3
<1>5. \A n \in 1 .. K : SplitLines(content)[n] = line(n)
  BY <1>2
<1>. QED
  BY <1>4, <1>5 DEF line, K

(* The lines up to one make the text up to its end.                           *)
LEMMA SplitFlatten ==
    ASSUME NEW S, NEW content \in Seq(S)
    PROVE  \A n \in 0 .. Cardinality(Ends(content)) :
              FlattenSeq(SubSeq(SplitLines(content), 1, n))
                 = SubSeq(content, 1, EndOf(content, n))
<1>. DEFINE K == Cardinality(Ends(content))
            ls == SplitLines(content)
            Holds(n) == FlattenSeq(SubSeq(ls, 1, n)) = SubSeq(content, 1, EndOf(content, n))
            U == {n \in Nat : n <= K => Holds(n)}
<1>1. K \in Nat /\ ls \in Seq(Seq(S)) /\ Len(ls) = K /\ Len(content) \in Nat
  BY EndsType, SplitType
<1>2. Holds(0)
  <2>1. SubSeq(ls, 1, 0) = <<>> /\ SubSeq(content, 1, 0) = <<>>
    BY SubSeqEmpty
  <2>2. EndOf(content, 0) = 0
    BY DEF EndOf
  <2>. QED
    BY <2>1, <2>2, FlattenEmpty
<1>3. ASSUME NEW n \in Nat, n + 1 <= K, Holds(n)
      PROVE  Holds(n + 1)
  <2>. DEFINE d == EndOf(content, n)
              e == EndOf(content, n + 1)
              x == SubSeq(content, d + 1, e)
  <2>1. n + 1 \in 1 .. K /\ (n + 1) - 1 = n
    BY <1>1, <1>3
  <2>2. d \in 0 .. Len(content) /\ e \in 1 .. Len(content) /\ d < e
    BY <2>1, EndsInOrder
  <2>3. ls[n + 1] = x /\ x \in Seq(S)
    <3>1. ls[n + 1] = x
      BY <2>1, SplitType
    <3>2. ls[n + 1] \in Seq(S)
      <4>. HIDE DEF ls, x, K
      <4>. QED
        BY <1>1, <2>1
    <3>. QED
      BY <3>1, <3>2
  <2>4. SubSeq(ls, 1, n + 1) = SubSeq(ls, 1, n) \o <<x>> /\ SubSeq(ls, 1, n) \in Seq(Seq(S))
    <3>. HIDE DEF ls, K, x
    <3>1. 1 \in 1 .. Len(ls) /\ n + 1 \in 1 .. Len(ls) /\ (n + 1) - 1 = n
      BY <1>1, <1>3
    <3>2. SubSeq(ls, 1, n + 1) = SubSeq(ls, 1, n) \o << ls[n + 1] >>
      BY <1>1, <3>1, SubSeqRecursiveSecond
    <3>3. SubSeq(ls, 1, n) \in Seq(Seq(S))
      BY <1>1, <1>3
    <3>. QED
      BY <2>3, <3>2, <3>3
  <2>5. FlattenSeq(SubSeq(ls, 1, n + 1)) = FlattenSeq(SubSeq(ls, 1, n)) \o x
    <3>. HIDE DEF ls, x
    <3>. QED
      BY <2>3, <2>4, FlattenAppend
  <2>6. SubSeq(content, 1, d) \o x = SubSeq(content, 1, e)
    <3>. HIDE DEF d, e
    <3>1. /\ 1 \in 1 .. Len(content) + 1 /\ d \in 1 - 1 .. Len(content)
          /\ e \in d .. Len(content)
      BY <1>1, <2>2
    <3>. QED
      BY <3>1, ConcatAdjacentSubSeq
  <2>. QED
    BY <1>3, <2>5, <2>6
<1>4. ASSUME NEW n \in Nat, n \in U
      PROVE  n + 1 \in U
  <2>. HIDE DEF K, Holds
  <2>1. n + 1 <= K => n <= K
    BY <1>1
  <2>. QED
    BY <1>3, <1>4, <2>1
<1>5. 0 \in U
  BY <1>2
<1>. HIDE DEF U, Holds, K
<1>6. \A n \in Nat : n \in U
  BY <1>4, <1>5, Inductive
<1>7. \A n \in 0 .. K : Holds(n)
  BY <1>1, <1>6 DEF U
<1>. QED
  BY <1>7 DEF K, Holds

LEMMA BeforeOfPart ==
    ASSUME NEW S, NEW s \in Seq(S), NEW b \in Nat, NEW e \in 0 .. Len(s), NEW c \in Nat,
           c <= e - b
    PROVE  Before(SubSeq(s, b + 1, e), c) = SubSeq(s, b + 1, b + c)
<1>. DEFINE r == SubSeq(s, b + 1, e)
<1>1. Len(s) \in Nat /\ e \in Nat /\ e <= Len(s)
  OBVIOUS
<1>2. r \in Seq(S) /\ Len(r) = e - b /\ \A i \in 1 .. e - b : r[i] = s[b + i]
  BY <1>1
<1>3. /\ Before(r, c) \in Seq(S) /\ Len(Before(r, c)) = c
      /\ \A i \in 1 .. c : Before(r, c)[i] = r[i]
  <2>. HIDE DEF r
  <2>1. Len(Before(r, c)) = c
    BY <1>1, <1>2, SlicesType
  <2>. QED
    BY <1>2, <2>1, SlicesType
<1>. HIDE DEF r
<1>4. /\ SubSeq(s, b + 1, b + c) \in Seq(S) /\ Len(SubSeq(s, b + 1, b + c)) = c
      /\ \A i \in 1 .. c : SubSeq(s, b + 1, b + c)[i] = s[b + i]
  BY <1>1
<1>5. \A i \in 1 .. c : Before(r, c)[i] = SubSeq(s, b + 1, b + c)[i]
  <2>1. \A i \in 1 .. c : i \in 1 .. e - b
    BY <1>1
  <2>. QED
    BY <1>2, <1>3, <1>4, <2>1
<1>6. Before(r, c) = SubSeq(s, b + 1, b + c)
  BY <1>3, <1>4, <1>5, SeqEqual
<1>. QED
  BY <1>6 DEF r

(* A place is in the line its position names, unless it is behind all lines.  *)
Fits(ls, content, place) ==
    LET p == Position(content, place) IN
    /\ p[1] < Len(ls)
    /\ p[2] <= Len(ls[p[1] + 1])
    /\ FlattenSeq(SubSeq(ls, 1, p[1])) \o Before(ls[p[1] + 1], p[2]) = Before(content, place)

Behind(ls, content, place) ==
    place = Len(content) /\ Position(content, place) = <<Len(ls), 0>>

(* In the lines of a text every place is found.                               *)
LEMMA PlaceFound ==
    ASSUME NEW S, NEW content \in Seq(S), NEW place \in 0 .. Len(content)
    PROVE  \/ Fits(SplitLines(content), content, place)
           \/ Behind(SplitLines(content), content, place)
<1>. DEFINE N == Len(content)
            D == Ends(content)
            K == Cardinality(D)
            ls == SplitLines(content)
            b == LastNewline(content, place)
            T == Newlines(content, place)
            l == Cardinality(T)
            p == Position(content, place)
<1>1. /\ N \in Nat /\ place \in Nat /\ D \subseteq 1 .. N /\ IsFiniteSet(D) /\ K \in Nat
      /\ D = {i \in 1 .. N : content[i] = Newline \/ i = N}
  BY EndsType
<1>2. ls \in Seq(Seq(S)) /\ Len(ls) = K
  BY SplitType
<1>3. /\ l \in Nat /\ b \in 0 .. place /\ (b # 0 => b \in T) /\ IsFiniteSet(T)
      /\ T = Newlines(content, b)
      /\ \A i \in T : i <= b
      /\ p = <<l, place - b>>
  BY <1>1, LinesBefore
<1>4. T = EndsUpTo(content, b)
  <2>1. CASE b = 0
    BY <1>1, <1>3, <2>1 DEF Newlines, EndsUpTo
  <2>2. CASE b # 0
    <3>1. content[b] = Newline /\ b \in 1 .. N
      BY <1>1, <1>3, <2>2 DEF Newlines
    <3>2. ASSUME NEW j \in D, j <= b
          PROVE  j \in Newlines(content, b)
      BY <1>1, <3>1, <3>2 DEF Newlines
    <3>3. ASSUME NEW j \in Newlines(content, b)
          PROVE  j \in D /\ j <= b
      BY <1>1, <3>1 DEF Newlines
    <3>. QED
      BY <1>3, <3>2, <3>3 DEF EndsUpTo
  <2>. QED
    BY <2>1, <2>2
<1>5. EndOf(content, l) = b
  <2>1. CASE b = 0
    <3>1. T = {}
      BY <1>3, <2>1 DEF Newlines
    <3>2. l = 0
      BY <3>1, FS_EmptySet
    <3>. QED
      BY <2>1, <3>2 DEF EndOf
  <2>2. CASE b # 0
    <3>1. b \in D
      BY <1>3, <1>4, <2>2 DEF EndsUpTo
    <3>. QED
      BY <1>4, <3>1, EndsRanked
  <2>. QED
    BY <2>1, <2>2
<1>6. T \in SUBSET D
  BY <1>4 DEF EndsUpTo
<1>7. l <= K /\ (l = K => T = D)
  BY <1>1, <1>6, FS_Subset
<1>8. CASE b = N
  <2>1. T = D
    <3>1. \A j \in D : j <= b
      BY <1>1, <1>8
    <3>. QED
      BY <1>4, <3>1 DEF EndsUpTo
  <2>2. l = K
    BY <2>1
  <2>3. place = N /\ place - b = 0
    <3>. HIDE DEF b, T, l, K, D
    <3>1. place \in 0 .. N
      OBVIOUS
    <3>. QED
      BY <1>1, <1>3, <1>8, <3>1
  <2>. QED
    BY <1>2, <1>3, <2>2, <2>3 DEF Behind
<1>9. CASE b # N
  <2>. DEFINE e == EndOf(content, l + 1)
  <2>1. l < K
    <3>1. N \in D /\ ~ (N <= b)
      BY <1>1, <1>3, <1>9
    <3>2. T # D
      BY <1>4, <3>1 DEF EndsUpTo
    <3>. QED
      BY <1>1, <1>3, <1>7, <3>2
  <2>2. l + 1 \in 1 .. K /\ (l + 1) - 1 = l
    BY <1>1, <1>3, <2>1
  <2>3. b < e /\ e \in 1 .. N /\ e \in D
    BY <1>5, <2>2, EndsInOrder, EndsRanked
  <2>4. place <= e
    <3>. SUFFICES ASSUME e < place
                  PROVE  FALSE
      BY <1>1, <2>3
    <3>1. content[e] = Newline
      BY <1>1, <2>3
    <3>2. e \in T
      BY <1>1, <2>3, <3>1 DEF Newlines
    <3>. QED
      BY <1>1, <1>3, <2>3, <3>2
  <2>. DEFINE line == SubSeq(content, b + 1, e)
              c == place - b
  <2>5. ls[l + 1] = line
    BY <1>5, <2>2, SplitType
  <2>6. FlattenSeq(SubSeq(ls, 1, l)) = SubSeq(content, 1, b)
    <3>1. l \in 0 .. K
      BY <1>1, <1>3, <2>1
    <3>. QED
      BY <1>5, <3>1, SplitFlatten
  <2>. HIDE DEF e, b, ls, T, l, p, D, K, N
  <2>7. Len(line) = e - b /\ c \in 0 .. Len(line) /\ b \in Nat /\ e \in Nat
    BY <1>1, <1>3, <2>3, <2>4 DEF N
  <2>8. Before(line, c) = SubSeq(content, b + 1, place)
    <3>1. c \in Nat /\ c <= e - b /\ b + c = place
      BY <1>1, <2>7
    <3>. QED
      BY <1>1, <2>3, <2>7, <3>1, BeforeOfPart DEF N
  <2>9. SubSeq(content, 1, b) \o SubSeq(content, b + 1, place) = SubSeq(content, 1, place)
    <3>1. /\ 1 \in 1 .. Len(content) + 1 /\ b \in 1 - 1 .. Len(content)
          /\ place \in b .. Len(content)
      BY <1>1, <1>3, <2>7 DEF N
    <3>. QED
      BY <3>1, ConcatAdjacentSubSeq
  <2>10. Before(content, place) = SubSeq(content, 1, place)
    BY <1>1 DEF Before, N
  <2>11. p[1] = l /\ p[2] = c
    BY <1>3
  <2>12. Fits(ls, content, place)
    <3>1. p[1] < Len(ls) /\ p[2] <= Len(ls[p[1] + 1])
      BY <1>2, <2>1, <2>5, <2>7, <2>11
    <3>2. FlattenSeq(SubSeq(ls, 1, p[1])) \o Before(ls[p[1] + 1], p[2])
             = Before(content, place)
      BY <2>5, <2>6, <2>8, <2>9, <2>10, <2>11
    <3>. QED
      BY <3>1, <3>2 DEF Fits, p
  <2>. QED
    BY <2>12 DEF ls
<1>. QED
  BY <1>8, <1>9

-----------------------------------------------------------------------------
(* Parts of a text, and the pieces that are meant.                            *)

(* What is between two places of a text.                                      *)
Part(content, from, to) ==
    SubSeq(content, from + 1, IF to < Len(content) THEN to ELSE Len(content))

KeptFrom(content, from, place) ==
    IF place < from \/ place = Len(content) THEN <<>> ELSE <<content[place + 1]>>

LEMMA PartType ==
    ASSUME NEW S, NEW content \in Seq(S), NEW from \in 0 .. Len(content), NEW to \in Nat
    PROVE  /\ Part(content, from, to) \in Seq(S)
           /\ to <= from => Part(content, from, to) = <<>>
           /\ from <= to => Before(content, from) \o Part(content, from, to)
                              = Before(content, to)
<1>. DEFINE e == IF to < Len(content) THEN to ELSE Len(content)
<1>1. Len(content) \in Nat /\ from \in Nat /\ from <= Len(content) /\ e \in 0 .. Len(content)
  OBVIOUS
<1>2. Part(content, from, to) = SubSeq(content, from + 1, e)
  BY DEF Part
<1>3. Part(content, from, to) \in Seq(S)
  <2>. HIDE DEF e
  <2>. QED
    BY <1>1, <1>2
<1>4. ASSUME to <= from
      PROVE  Part(content, from, to) = <<>>
  <2>1. e < from + 1
    BY <1>1, <1>4
  <2>. HIDE DEF e
  <2>. QED
    BY <1>1, <1>2, <2>1, SubSeqEmpty
<1>5. ASSUME from <= to
      PROVE  Before(content, from) \o Part(content, from, to) = Before(content, to)
  <2>1. from <= e
    BY <1>1, <1>5
  <2>2. Before(content, from) = SubSeq(content, 1, from)
    BY <1>1 DEF Before
  <2>3. Before(content, to) = SubSeq(content, 1, e)
    BY DEF Before
  <2>. HIDE DEF e
  <2>4. /\ 1 \in 1 .. Len(content) + 1 /\ from \in 1 - 1 .. Len(content)
        /\ e \in from .. Len(content)
    BY <1>1, <2>1
  <2>5. SubSeq(content, 1, from) \o SubSeq(content, from + 1, e) = SubSeq(content, 1, e)
    BY <2>4, ConcatAdjacentSubSeq
  <2>. QED
    BY <1>2, <2>2, <2>3, <2>5
<1>. QED
  BY <1>3, <1>4, <1>5

LEMMA PartIn ==
    ASSUME NEW S, NEW content \in Seq(S), NEW from \in 0 .. Len(content), NEW to \in Nat
    PROVE  Part(content, from, to) \in Seq(S)
  BY PartType

LEMMA PartEmpty ==
    ASSUME NEW S, NEW content \in Seq(S), NEW from \in 0 .. Len(content), NEW to \in Nat,
           to <= from
    PROVE  Part(content, from, to) = <<>>
  BY PartType

(* A part goes on with the character behind it.                               *)
LEMMA PartGrows ==
    ASSUME NEW S, NEW content \in Seq(S), NEW from \in 0 .. Len(content),
           NEW place \in 0 .. Len(content)
    PROVE  /\ KeptFrom(content, from, place) \in Seq(S)
           /\ Part(content, from, place + 1)
                 = Part(content, from, place) \o KeptFrom(content, from, place)
<1>1. Len(content) \in Nat /\ from \in Nat /\ from <= Len(content)
      /\ place \in Nat /\ place <= Len(content)
  OBVIOUS
<1>2. KeptFrom(content, from, place) \in Seq(S)
  BY <1>1 DEF KeptFrom
<1>3. Part(content, from, place) \in Seq(S)
  BY <1>1, PartType
<1>4. CASE place = Len(content)
  <2>1. Part(content, from, place + 1) = Part(content, from, place)
    BY <1>1, <1>4 DEF Part
  <2>2. KeptFrom(content, from, place) = <<>>
    BY <1>4 DEF KeptFrom
  <2>. QED
    BY <1>2, <1>3, <2>1, <2>2
<1>5. CASE place < from
  <2>1. Part(content, from, place + 1) = <<>> /\ Part(content, from, place) = <<>>
    <3>1. place + 1 \in Nat /\ place + 1 <= from /\ place <= from
      BY <1>1, <1>5
    <3>. QED
      BY <1>1, <3>1, PartEmpty
  <2>2. KeptFrom(content, from, place) = <<>>
    BY <1>5 DEF KeptFrom
  <2>. QED
    BY <1>2, <2>1, <2>2
<1>6. CASE place # Len(content) /\ ~ (place < from)
  <2>1. from + 1 \in 1 .. Len(content) /\ place + 1 \in from + 1 .. Len(content)
        /\ (place + 1) - 1 = place
    BY <1>1, <1>6
  <2>2. SubSeq(content, from + 1, place + 1)
           = SubSeq(content, from + 1, place) \o << content[place + 1] >>
    BY <2>1, SubSeqRecursiveSecond
  <2>3. Part(content, from, place + 1) = SubSeq(content, from + 1, place + 1)
    BY <1>1, <1>6 DEF Part
  <2>4. Part(content, from, place) = SubSeq(content, from + 1, place)
    BY <1>1, <1>6 DEF Part
  <2>5. KeptFrom(content, from, place) = << content[place + 1] >>
    BY <1>6 DEF KeptFrom
  <2>. QED
    BY <1>2, <2>2, <2>3, <2>4, <2>5
<1>. QED
  BY <1>4, <1>5, <1>6

RunOf(pieces, content, a, b, to, new) ==
    /\ pieces[a + 1] = new \o KeptFrom(content, to, a)
    /\ \A p \in a + 1 .. b - 1 : pieces[p + 1] = KeptFrom(content, to, p)

(* Pieces of which the first begins with something new and that hold for the  *)
(* rest the characters from a place on.                                       *)
LEMMA RunOfPieces ==
    ASSUME NEW S, NEW content \in Seq(S), NEW new \in Seq(S),
           NEW pieces \in Seq(Seq(S)), Len(pieces) = Len(content) + 1,
           NEW a \in 0 .. Len(content), NEW b \in a + 1 .. Len(content) + 1,
           NEW to \in a .. Len(content),
           RunOf(pieces, content, a, b, to, new)
    PROVE  FlattenSeq(SubSeq(pieces, a + 1, b)) = new \o Part(content, to, b)
<1>. DEFINE N == Len(content)
            Sub(m) == SubSeq(pieces, a + 1, m)
            Holds(m) == FlattenSeq(Sub(m)) = new \o Part(content, to, m)
            U == {n \in Nat : a + 1 + n <= b => Holds(a + 1 + n)}
<1>1. N \in Nat /\ a \in Nat /\ a <= N /\ to \in 0 .. N /\ b \in Nat /\ b <= N + 1
  OBVIOUS
<1>10. pieces[a + 1] = new \o KeptFrom(content, to, a)
  BY DEF RunOf
<1>11. \A p \in a + 1 .. b - 1 : pieces[p + 1] = KeptFrom(content, to, p)
  BY DEF RunOf
<1>2. \A m \in 0 .. N : KeptFrom(content, to, m) \in Seq(S)
  BY <1>1, PartGrows
<1>3. \A m \in Nat : Part(content, to, m) \in Seq(S)
  BY <1>1, PartIn
<1>4. Holds(a + 1)
  <2>1. Sub(a + 1) = << pieces[a + 1] >>
    <3>1. a + 1 \in 1 .. Len(pieces)
      BY <1>1
    <3>2. SubSeq(pieces, a + 1, a + 1)
             = SubSeq(pieces, a + 1, (a + 1) - 1) \o << pieces[a + 1] >>
      <4>1. a + 1 \in a + 1 .. Len(pieces)
        BY <1>1
      <4>. QED
        BY <3>1, <4>1, SubSeqRecursiveSecond
    <3>3. SubSeq(pieces, a + 1, (a + 1) - 1) = <<>>
      BY <1>1, SubSeqEmpty
    <3>4. <<>> \o << pieces[a + 1] >> = << pieces[a + 1] >>
      OBVIOUS
    <3>. QED
      BY <3>2, <3>3, <3>4
  <2>2. pieces[a + 1] \in Seq(S)
    <3>1. a + 1 \in 1 .. Len(pieces)
      BY <1>1
    <3>. QED
      BY <3>1, ElementOfSeq
  <2>3. FlattenSeq(Sub(a + 1)) = pieces[a + 1]
    <3>. HIDE DEF Sub
    <3>. QED
      BY <2>1, <2>2, FlattenSingle
  <2>4. Part(content, to, a + 1) = KeptFrom(content, to, a)
    <3>1. Part(content, to, a + 1) = Part(content, to, a) \o KeptFrom(content, to, a)
      BY <1>1, PartGrows
    <3>2. Part(content, to, a) = <<>>
      <4>1. a <= to
        BY <1>1
      <4>. QED
        BY <1>1, <4>1, PartEmpty
    <3>3. KeptFrom(content, to, a) \in Seq(S)
      BY <1>1, <1>2
    <3>. QED
      BY <3>1, <3>2, <3>3
  <2>. QED
    BY <1>10, <2>3, <2>4
<1>5. ASSUME NEW m \in a + 1 .. b - 1, Holds(m)
      PROVE  Holds(m + 1)
  <2>1. m \in Nat /\ m \in 0 .. N /\ m \in 0 .. N + 1 /\ m + 1 \in 1 .. Len(pieces)
        /\ a + 1 \in 1 .. Len(pieces) /\ m + 1 \in a + 1 .. Len(pieces)
    BY <1>1
  <2>2. Sub(m + 1) = Sub(m) \o << KeptFrom(content, to, m) >>
    <3>1. SubSeq(pieces, a + 1, m + 1)
             = SubSeq(pieces, a + 1, (m + 1) - 1) \o << pieces[m + 1] >>
      BY <2>1, SubSeqRecursiveSecond
    <3>2. (m + 1) - 1 = m
      BY <2>1
    <3>3. pieces[m + 1] = KeptFrom(content, to, m)
      BY <1>11
    <3>. QED
      BY <3>1, <3>2, <3>3
  <2>3. Sub(m) \in Seq(Seq(S))
    <3>1. \A i \in a + 1 .. m : pieces[i] \in Seq(S)
      <4>1. \A i \in a + 1 .. m : i \in 1 .. Len(pieces)
        BY <1>1, <2>1
      <4>. QED
        BY <4>1, ElementOfSeq
    <3>2. a + 1 \in Int /\ m \in Int
      BY <1>1, <2>1
    <3>. QED
      BY <3>1, <3>2, SubSeqProperties
  <2>4. Part(content, to, m + 1) = Part(content, to, m) \o KeptFrom(content, to, m)
    BY <1>1, <2>1, PartGrows
  <2>5. Part(content, to, m) \in Seq(S) /\ KeptFrom(content, to, m) \in Seq(S)
    BY <1>2, <1>3, <2>1
  <2>6. FlattenSeq(Sub(m)) = new \o Part(content, to, m)
    BY <1>5
  <2>. HIDE DEF Sub
  <2>7. FlattenSeq(Sub(m) \o << KeptFrom(content, to, m) >>)
           = new \o (Part(content, to, m) \o KeptFrom(content, to, m))
    <3>. DEFINE first == Sub(m)
                p == Part(content, to, m)
                r == KeptFrom(content, to, m)
    <3>1. first \in Seq(Seq(S)) /\ p \in Seq(S) /\ r \in Seq(S) /\ FlattenSeq(first) = new \o p
      BY <2>3, <2>5, <2>6
    <3>. HIDE DEF first, p, r
    <3>2. FlattenSeq(first \o <<r>>) = FlattenSeq(first) \o r
      BY <3>1, FlattenAppend
    <3>3. Regroups(S)
      BY Regrouped
    <3>4. (new \o p) \o r = new \o (p \o r)
      BY <3>1, <3>3 DEF Regroups
    <3>. QED
      BY <3>1, <3>2, <3>4 DEF first, p, r
  <2>. QED
    BY <2>2, <2>4, <2>7
<1>6. 0 \in U
  BY <1>1, <1>4
<1>7. ASSUME NEW n \in Nat, n \in U
      PROVE  n + 1 \in U
  <2>. HIDE DEF Holds, N
  <2>1. a + 1 + (n + 1) <= b => a + 1 + n \in a + 1 .. b - 1 /\ a + 1 + n <= b
    BY <1>1
  <2>2. a + 1 + (n + 1) = (a + 1 + n) + 1
    BY <1>1
  <2>. QED
    BY <1>5, <1>7, <2>1, <2>2
<1>. HIDE DEF U, Holds, N
<1>8. \A n \in Nat : n \in U
  BY <1>6, <1>7, Inductive
<1>9. Holds(b)
  <2>1. b - (a + 1) \in Nat /\ a + 1 + (b - (a + 1)) = b /\ b <= b
    BY <1>1
  <2>2. b - (a + 1) \in U
    BY <1>8, <2>1
  <2>. QED
    BY <2>1, <2>2 DEF U
<1>. QED
  BY <1>9 DEF Holds

-----------------------------------------------------------------------------
(* The order of the edits.                                                    *)

(* Spans as the properties speak of them: apart and with starts of their own. *)
SpansFit(content, ss) ==
    /\ ss \in Seq(Spans(content))
    /\ \A m, n \in DOMAIN ss : m # n => Apart(ss[m], ss[n]) /\ ss[m].from # ss[n].from

AsEdits(content, ss) == [n \in DOMAIN ss |-> AsEdit(content, ss[n])]

(* The order in which they are applied.                                       *)
InOrder(ss, order) ==
    /\ order \in [DOMAIN ss -> DOMAIN ss]
    /\ \A i \in DOMAIN ss : \E n \in DOMAIN ss : order[n] = i
    /\ \A m, n \in DOMAIN ss : m < n => ss[order[n]].from < ss[order[m]].from

SoonerThan(edits, i) ==
    {j \in DOMAIN edits :
        Precedes(edits[i].start, edits[j].start) \/ (edits[j].start = edits[i].start /\ j <= i)}

LEMMA SpanType ==
    ASSUME NEW S, NEW content \in Seq(S), NEW ss, SpansFit(content, ss), NEW n \in DOMAIN ss
    PROVE  /\ DOMAIN ss = 1 .. Len(ss) /\ Len(ss) \in Nat
           /\ ss[n].from \in Nat /\ ss[n].to \in Nat
           /\ ss[n].from <= ss[n].to /\ ss[n].to <= Len(content) /\ ss[n].new \in NewTexts
<1>1. DOMAIN ss = 1 .. Len(ss) /\ Len(ss) \in Nat /\ ss[n] \in Spans(content)
  BY DEF SpansFit
<1>2. Len(content) \in Nat
  OBVIOUS
<1>3. /\ ss[n].from \in 0 .. Len(content) /\ ss[n].to \in 0 .. Len(content)
      /\ ss[n].from <= ss[n].to /\ ss[n].new \in NewTexts
  BY <1>1 DEF Spans
<1>. QED
  BY <1>1, <1>2, <1>3

(* LastToFirst is a permutation of the edits, the last of the text first.     *)
LEMMA SortedSpans ==
    ASSUME NEW S, NEW content \in Seq(S), NEW ss, SpansFit(content, ss)
    PROVE  \E order : /\ InOrder(ss, order)
                      /\ LastToFirst(AsEdits(content, ss))
                            = [n \in DOMAIN ss |-> AsEdits(content, ss)[order[n]]]
<1>. DEFINE D == DOMAIN ss
            edits == AsEdits(content, ss)
            upTo == [i \in D |-> SoonerThan(edits, i)]
            order == [n \in D |-> CHOOSE i \in D : Cardinality(SoonerThan(edits, i)) = n]
<1>1. D = 1 .. Len(ss) /\ Len(ss) \in Nat
  BY DEF SpansFit
<1>2. IsFiniteSet(D) /\ Cardinality(D) = Len(ss)
  <2>1. \A n \in Nat : IsFiniteSet(1 .. n) /\ Cardinality(1 .. n) = n
    BY FS_Interval
  <2>. QED
    BY <1>1, <2>1
<1>3. \A n \in D : ss[n].from \in Nat
  BY SpanType
<1>4. DOMAIN edits = D /\ \A n \in D : edits[n].start = Position(content, ss[n].from)
  BY DEF AsEdits, AsEdit, TextEdit
<1>5. \A m, n \in D : m # n => ss[m].from # ss[n].from
  BY DEF SpansFit
<1>6. ASSUME NEW i \in D, NEW j \in D
      PROVE  j \in SoonerThan(edits, i) <=> ss[i].from <= ss[j].from
  <2>1. /\ Precedes(edits[i].start, edits[j].start) <=> ss[i].from < ss[j].from
        /\ edits[i].start = edits[j].start => ss[i].from = ss[j].from
    <3>. HIDE DEF edits, D
    <3>. QED
      BY <1>3, <1>4, PositionPrecedes
  <2>. HIDE DEF edits, D
  <2>2. i \in Nat /\ j \in Nat
    BY <1>1
  <2>3. CASE i = j
    BY <1>3, <1>4, <2>2, <2>3 DEF SoonerThan
  <2>4. CASE i # j
    <3>1. ss[i].from # ss[j].from
      BY <1>5, <2>4
    <3>. QED
      BY <1>3, <1>4, <2>1, <3>1 DEF SoonerThan
  <2>. QED
    BY <2>3, <2>4
<1>7. upTo \in [D -> SUBSET D]
  BY <1>4 DEF SoonerThan
<1>8. \A i, j \in D : j \in upTo[i] <=> ss[i].from <= ss[j].from
  BY <1>6
<1>9. Ordered(D, upTo)
  <2>1. \A d, e \in D : d \in upTo[e] => upTo[d] \subseteq upTo[e]
    <3>. HIDE DEF upTo, D
    <3>. SUFFICES ASSUME NEW d \in D, NEW e \in D, d \in upTo[e], NEW j \in upTo[d]
                  PROVE  j \in upTo[e]
      OBVIOUS
    <3>1. j \in D
      BY <1>7
    <3>. QED
      BY <1>3, <1>8, <3>1
  <2>2. \A d, e \in D : d \in upTo[e] /\ e \in upTo[d] => d = e
    <3>. HIDE DEF upTo, D
    <3>. QED
      BY <1>3, <1>5, <1>8
  <2>. HIDE DEF upTo, D
  <2>. QED
    BY <1>3, <1>8, <2>1, <2>2 DEF Ordered
<1>10. /\ \A d, e \in D : d \in upTo[e] /\ d # e
                             => Cardinality(upTo[d]) < Cardinality(upTo[e])
       /\ \A d, e \in D : Cardinality(upTo[d]) = Cardinality(upTo[e]) => d = e
       /\ \A d \in D : Cardinality(upTo[d]) \in 1 .. Cardinality(D)
       /\ \A n \in 1 .. Cardinality(D) : \E d \in D : Cardinality(upTo[d]) = n
  <2>. HIDE DEF upTo, D
  <2>1. Numbered(D, upTo)
    BY <1>2, <1>7, <1>9, Ranked
  <2>. QED
    BY <2>1 DEF Numbered
<1>11. \A i \in D : upTo[i] = SoonerThan(edits, i)
  OBVIOUS
<1>12. \A n \in D : order[n] \in D /\ Cardinality(upTo[order[n]]) = n
  <2>1. \A n \in D : order[n] = CHOOSE i \in D : Cardinality(SoonerThan(edits, i)) = n
    OBVIOUS
  <2>. HIDE DEF upTo, D, order, edits
  <2>2. \A n \in D : \E i \in D : Cardinality(SoonerThan(edits, i)) = n
    <3>1. \A n \in D : n \in 1 .. Cardinality(D)
      BY <1>1, <1>2
    <3>2. \A n \in D : \E d \in D : Cardinality(upTo[d]) = n
      BY <1>10, <3>1
    <3>. QED
      BY <1>11, <3>2
  <2>. QED
    BY <1>11, <2>1, <2>2
<1>13. order \in [D -> D]
  BY <1>12
<1>14. LastToFirst(edits) = [n \in D |-> edits[order[n]]]
  <2>1. LastToFirst(edits)
           = [n \in DOMAIN edits |->
                edits[CHOOSE i \in DOMAIN edits : Cardinality(SoonerThan(edits, i)) = n]]
    <3>. HIDE DEF edits
    <3>. QED
      BY DEF LastToFirst, SoonerThan
  <2>. HIDE DEF edits, D
  <2>. QED
    BY <1>4, <2>1
<1>. HIDE DEF upTo, D, order
<1>15. ASSUME NEW i \in D
       PROVE  \E n \in D : order[n] = i
  <2>1. Cardinality(upTo[i]) \in D
    BY <1>1, <1>2, <1>10
  <2>. QED
    BY <1>10, <1>12, <2>1
<1>16. ASSUME NEW m \in D, NEW n \in D, m < n
       PROVE  ss[order[n]].from < ss[order[m]].from
  <2>. DEFINE i == order[m]
              j == order[n]
  <2>1. i \in D /\ j \in D /\ Cardinality(upTo[i]) = m /\ Cardinality(upTo[j]) = n
    BY <1>12
  <2>. HIDE DEF i, j
  <2>2. m \in Nat /\ n \in Nat /\ m # n /\ ~ (n < m)
    BY <1>1, <1>16
  <2>3. i # j
    BY <2>1, <2>2
  <2>4. ~ (j \in upTo[i])
    BY <1>10, <2>1, <2>2, <2>3
  <2>. QED
    BY <1>3, <1>8, <2>1, <2>4 DEF i, j
<1>17. InOrder(ss, order)
  BY <1>13, <1>15, <1>16 DEF InOrder, D
<1>. QED
  BY <1>14, <1>17 DEF D

-----------------------------------------------------------------------------
(* The pieces of a text as they are meant, and how far the first edits reach. *)

(* What Meant joins, of any text and spans.                                   *)
PutIn(ss, place) ==
    IF {n \in DOMAIN ss : ss[n].from = place} = {} THEN <<>>
    ELSE ss[CHOOSE n \in {n \in DOMAIN ss : ss[n].from = place} : TRUE].new

Goes(ss, place) == \E n \in DOMAIN ss : ss[n].from <= place /\ place < ss[n].to

LeftAt(content, ss, place) ==
    IF place = Len(content) \/ Goes(ss, place) THEN <<>> ELSE <<content[place + 1]>>

Pieces(content, ss) ==
    [n \in 1 .. Len(content) + 1 |-> PutIn(ss, n - 1) \o LeftAt(content, ss, n - 1)]

LEMMA MeantPieces == Meant = FlattenSeq(Pieces(text, spans))
  BY DEF Meant, Pieces, PutIn, LeftAt, Goes

(* At the start of a span its text is put in, elsewhere nothing.              *)
LEMMA PutWhere ==
    ASSUME NEW S, NEW content \in Seq(S), NEW ss, SpansFit(content, ss)
    PROVE  /\ \A n \in DOMAIN ss : PutIn(ss, ss[n].from) = ss[n].new
           /\ \A place : (\A n \in DOMAIN ss : ss[n].from # place) => PutIn(ss, place) = <<>>
<1>1. ASSUME NEW n \in DOMAIN ss
      PROVE  PutIn(ss, ss[n].from) = ss[n].new
  <2>. DEFINE at == {m \in DOMAIN ss : ss[m].from = ss[n].from}
  <2>1. \A m \in DOMAIN ss : m # n => ss[m].from # ss[n].from
    BY DEF SpansFit
  <2>2. at = {n}
    BY <2>1
  <2>3. (CHOOSE m \in {n} : TRUE) = n
    OBVIOUS
  <2>4. PutIn(ss, ss[n].from)
           = IF at = {} THEN <<>> ELSE ss[CHOOSE m \in at : TRUE].new
    BY DEF PutIn
  <2>. HIDE DEF at
  <2>. QED
    BY <2>2, <2>3, <2>4
<1>2. ASSUME NEW place, \A n \in DOMAIN ss : ss[n].from # place
      PROVE  PutIn(ss, place) = <<>>
  BY <1>2 DEF PutIn
<1>. QED
  BY <1>1, <1>2

LEMMA PiecesType ==
    ASSUME NEW content \in Seq(Characters), NEW ss, SpansFit(content, ss)
    PROVE  /\ Pieces(content, ss) \in Seq(Seq(Characters))
           /\ Len(Pieces(content, ss)) = Len(content) + 1
           /\ \A p \in 0 .. Len(content) :
                 Pieces(content, ss)[p + 1] = PutIn(ss, p) \o LeftAt(content, ss, p)
<1>. DEFINE N == Len(content)
            piece(n) == PutIn(ss, n - 1) \o LeftAt(content, ss, n - 1)
<1>1. N \in Nat
  OBVIOUS
<1>2. ASSUME NEW n \in 1 .. N + 1
      PROVE  piece(n) \in Seq(Characters)
  <2>1. PutIn(ss, n - 1) \in Seq(Characters)
    <3>1. CASE \E m \in DOMAIN ss : ss[m].from = n - 1
      <4>1. PICK m \in DOMAIN ss : ss[m].from = n - 1
        BY <3>1
      <4>2. PutIn(ss, n - 1) = ss[m].new
        BY <4>1, PutWhere
      <4>3. ss[m].new \in NewTexts
        BY SpanType
      <4>. QED
        BY <4>2, <4>3, CharactersType
    <3>2. CASE \A m \in DOMAIN ss : ss[m].from # n - 1
      <4>1. PutIn(ss, n - 1) = <<>>
        BY <3>2, PutWhere
      <4>2. <<>> \in Seq(Characters)
        OBVIOUS
      <4>. QED
        BY <4>1, <4>2
    <3>. QED
      BY <3>1, <3>2
  <2>2. LeftAt(content, ss, n - 1) \in Seq(Characters)
    <3>1. CASE n - 1 = N
      BY <3>1 DEF LeftAt
    <3>2. CASE n - 1 # N
      <4>1. n \in 1 .. N /\ (n - 1) + 1 = n
        BY <1>1, <3>2
      <4>2. content[(n - 1) + 1] \in Characters
        BY <4>1
      <4>. QED
        BY <4>2 DEF LeftAt
    <3>. QED
      BY <3>1, <3>2
  <2>. QED
    BY <2>1, <2>2
<1>3. Pieces(content, ss) = [n \in 1 .. N + 1 |-> piece(n)]
  BY DEF Pieces
<1>. HIDE DEF piece
<1>4. Pieces(content, ss) \in Seq(Seq(Characters)) /\ Len(Pieces(content, ss)) = N + 1
  <2>1. N + 1 \in Nat
    BY <1>1
  <2>. HIDE DEF N
  <2>. QED
    BY <1>2, <1>3, <2>1
<1>5. ASSUME NEW p \in 0 .. N
      PROVE  Pieces(content, ss)[p + 1] = PutIn(ss, p) \o LeftAt(content, ss, p)
  <2>1. p + 1 \in 1 .. N + 1 /\ (p + 1) - 1 = p
    BY <1>1
  <2>2. Pieces(content, ss)[p + 1] = piece(p + 1)
    BY <1>3, <2>1
  <2>. QED
    BY <2>1, <2>2 DEF piece
<1>. QED
  BY <1>4, <1>5

(* Up to where the first edits have come.                                     *)
Reached(content, ss, order, k) ==
    IF k = 0 THEN Len(content) + 1 ELSE ss[order[k]].from

(* The first edits start behind the others.                                   *)
LEMMA ReachedWhere ==
    ASSUME NEW S, NEW content \in Seq(S), NEW ss, SpansFit(content, ss),
           NEW order, InOrder(ss, order), NEW k \in 0 .. Len(ss)
    PROVE  /\ Reached(content, ss, order, k) \in 0 .. Len(content) + 1
           /\ \A n \in 1 .. k : ss[order[n]].from >= Reached(content, ss, order, k)
           /\ \A n \in k + 1 .. Len(ss) : /\ ss[order[n]].from < Reached(content, ss, order, k)
                                          /\ ss[order[n]].to <= Reached(content, ss, order, k)
<1>. DEFINE q == Reached(content, ss, order, k)
<1>1. Len(content) \in Nat /\ Len(ss) \in Nat /\ DOMAIN ss = 1 .. Len(ss)
  BY DEF SpansFit
<1>2. \A n \in 1 .. Len(ss) : order[n] \in DOMAIN ss
  BY <1>1 DEF InOrder
<1>3. \A n \in 1 .. Len(ss) : /\ ss[order[n]].from \in Nat /\ ss[order[n]].to \in Nat
                              /\ ss[order[n]].from <= ss[order[n]].to
                              /\ ss[order[n]].to <= Len(content)
  BY <1>2, SpanType
<1>4. CASE k = 0
  <2>1. q = Len(content) + 1
    BY <1>4 DEF Reached
  <2>2. \A n \in k + 1 .. Len(ss) : n \in 1 .. Len(ss)
    BY <1>1, <1>4
  <2>3. ASSUME NEW n \in k + 1 .. Len(ss)
        PROVE  ss[order[n]].from < q /\ ss[order[n]].to <= q
    BY <1>1, <1>3, <2>1, <2>2
  <2>. HIDE DEF q
  <2>4. q \in 0 .. Len(content) + 1
    BY <1>1, <2>1
  <2>5. \A n \in 1 .. k : FALSE
    BY <1>4
  <2>. QED
    BY <2>3, <2>4, <2>5 DEF q
<1>5. CASE k # 0
  <2>1. q = ss[order[k]].from /\ k \in 1 .. Len(ss)
    BY <1>1, <1>5 DEF Reached
  <2>2. q \in Nat /\ q <= Len(content)
    BY <1>1, <1>3, <2>1
  <2>3. \A m, n \in 1 .. Len(ss) : m < n => ss[order[n]].from < ss[order[m]].from
    BY <1>1 DEF InOrder
  <2>. HIDE DEF q
  <2>4. ASSUME NEW n \in 1 .. k
        PROVE  ss[order[n]].from >= q
    <3>1. n \in 1 .. Len(ss) /\ (n = k \/ n < k)
      BY <1>1, <2>1
    <3>2. CASE n = k
      BY <2>1, <2>2, <3>2
    <3>3. CASE n < k
      BY <1>3, <2>1, <2>2, <2>3, <3>1, <3>3
    <3>. QED
      BY <3>1, <3>2, <3>3
  <2>5. ASSUME NEW n \in k + 1 .. Len(ss)
        PROVE  ss[order[n]].from < q /\ ss[order[n]].to <= q
    <3>1. n \in 1 .. Len(ss) /\ k < n
      BY <1>1, <2>1
    <3>2. ss[order[n]].from < q
      BY <2>1, <2>3, <3>1
    <3>3. order[n] \in DOMAIN ss /\ order[k] \in DOMAIN ss /\ order[n] # order[k]
      BY <1>2, <1>3, <2>1, <2>2, <3>1, <3>2
    <3>4. Apart(ss[order[n]], ss[order[k]])
      BY <3>3 DEF SpansFit
    <3>5. ss[order[n]].to <= ss[order[k]].from \/ ss[order[k]].to <= ss[order[n]].from
      BY <3>4 DEF Apart
    <3>. QED
      BY <1>3, <2>1, <2>2, <3>1, <3>2, <3>5
  <2>. QED
    BY <1>1, <2>2, <2>4, <2>5 DEF q
<1>. QED
  BY <1>4, <1>5

(* No edit starts between the one that is applied next and those that were.   *)
LEMMA NextPiece ==
    ASSUME NEW content \in Seq(Characters), NEW ss, SpansFit(content, ss),
           NEW order, InOrder(ss, order), NEW k \in 0 .. Len(ss), k < Len(ss)
    PROVE  LET span == ss[order[k + 1]]
               q == Reached(content, ss, order, k) IN
           FlattenSeq(SubSeq(Pieces(content, ss), span.from + 1, q))
              = span.new \o Part(content, span.to, q)
<1>. DEFINE D == DOMAIN ss
            N == Len(content)
            i == order[k + 1]
            f == ss[i].from
            t == ss[i].to
            q == Reached(content, ss, order, k)
            pieces == Pieces(content, ss)
<1>1. N \in Nat /\ Len(ss) \in Nat /\ D = 1 .. Len(ss) /\ k + 1 \in 1 .. Len(ss)
      /\ k + 1 \in k + 1 .. Len(ss)
  BY DEF SpansFit
<1>2. i \in D
  BY <1>1 DEF InOrder
<1>3. f \in Nat /\ t \in Nat /\ f <= t /\ t <= N /\ ss[i].new \in Seq(Characters)
  BY <1>2, SpanType, CharactersType
<1>4. q \in 0 .. N + 1 /\ f < q /\ t <= q
  BY <1>1, ReachedWhere
<1>5. ASSUME NEW j \in D, f < ss[j].from
      PROVE  q <= ss[j].from
  <2>1. PICK n \in D : order[n] = j
    BY DEF InOrder
  <2>2. CASE n <= k
    <3>1. n \in 1 .. k
      BY <1>1, <2>2
    <3>2. ss[order[n]].from >= q
      BY <3>1, ReachedWhere
    <3>3. ss[j].from \in Nat
      BY SpanType
    <3>. HIDE DEF q
    <3>. QED
      BY <1>4, <2>1, <3>2, <3>3
  <2>3. CASE n = k + 1
    BY <1>3, <1>5, <2>1, <2>3
  <2>4. CASE k + 1 < n
    <3>1. ss[order[n]].from < ss[order[k + 1]].from
      BY <1>1, <2>4 DEF InOrder
    <3>2. ss[j].from \in Nat
      BY SpanType
    <3>. QED
      BY <1>3, <1>5, <2>1, <3>1, <3>2
  <2>. QED
    BY <1>1, <2>2, <2>3, <2>4
<1>6. ASSUME NEW p \in f .. q - 1
      PROVE  Goes(ss, p) <=> p < t
  <2>1. p \in Nat /\ f <= p /\ p < q
    BY <1>3, <1>4
  <2>2. ASSUME p < t
        PROVE  Goes(ss, p)
    BY <1>2, <2>1, <2>2 DEF Goes
  <2>3. ASSUME NEW j \in D, ss[j].from <= p, p < ss[j].to
        PROVE  p < t
    <3>1. ss[j].from \in Nat /\ ss[j].to \in Nat
      BY SpanType
    <3>2. ~ (f < ss[j].from)
      <4>. HIDE DEF q, f
      <4>. QED
        BY <1>3, <1>4, <1>5, <2>1, <2>3, <3>1
    <3>3. CASE j = i
      BY <2>3, <3>3
    <3>4. CASE j # i
      <4>1. ss[j].to <= f \/ t <= ss[j].from
        BY <1>2, <3>4 DEF SpansFit, Apart
      <4>2. ss[j].from # f
        BY <1>2, <3>4 DEF SpansFit
      <4>. HIDE DEF f, t, q
      <4>. QED
        BY <1>3, <2>1, <2>3, <3>1, <3>2, <4>1, <4>2
    <3>. QED
      BY <3>3, <3>4
  <2>. QED
    BY <2>2, <2>3 DEF Goes
<1>7. ASSUME NEW p \in f .. q - 1
      PROVE  /\ LeftAt(content, ss, p) = KeptFrom(content, t, p)
             /\ pieces[p + 1] = PutIn(ss, p) \o KeptFrom(content, t, p)
  <2>1. LeftAt(content, ss, p) = KeptFrom(content, t, p)
    BY <1>6 DEF LeftAt, KeptFrom
  <2>2. p \in 0 .. N
    BY <1>1, <1>3, <1>4
  <2>. QED
    BY <2>1, <2>2, PiecesType
<1>8. pieces[f + 1] = ss[i].new \o KeptFrom(content, t, f)
  <2>1. f \in f .. q - 1
    BY <1>3, <1>4
  <2>2. PutIn(ss, f) = ss[i].new
    BY <1>2, PutWhere
  <2>. QED
    BY <1>7, <2>1, <2>2
<1>9. ASSUME NEW p \in f + 1 .. q - 1
      PROVE  pieces[p + 1] = KeptFrom(content, t, p)
  <2>1. p \in f .. q - 1 /\ p \in Nat /\ f < p /\ p < q /\ p \in 0 .. N
    <3>. HIDE DEF q, f, N
    <3>1. p \in Nat /\ f < p /\ p < q
      BY <1>3, <1>4
    <3>. QED
      BY <1>1, <1>3, <1>4, <3>1
  <2>2. \A j \in D : ss[j].from # p
    <3>. HIDE DEF q, f
    <3>1. \A j \in D : ss[j].from \in Nat
      BY SpanType
    <3>. QED
      BY <1>3, <1>4, <1>5, <2>1, <3>1
  <2>3. PutIn(ss, p) = <<>>
    BY <2>2, PutWhere
  <2>4. KeptFrom(content, t, p) \in Seq(Characters)
    <3>1. t \in 0 .. Len(content)
      BY <1>1, <1>3
    <3>. QED
      BY <2>1, <3>1, PartGrows
  <2>5. <<>> \o KeptFrom(content, t, p) = KeptFrom(content, t, p)
    BY <2>4, ConcatEmptySeq
  <2>. QED
    BY <1>7, <2>1, <2>3, <2>5
<1>10. pieces \in Seq(Seq(Characters)) /\ Len(pieces) = N + 1
  BY PiecesType
<1>11. f \in 0 .. N /\ q \in f + 1 .. N + 1 /\ t \in f .. N
  BY <1>1, <1>3, <1>4
<1>. DEFINE new == ss[i].new
<1>. HIDE DEF pieces, f, t, q, new, i, D
<1>12. FlattenSeq(SubSeq(pieces, f + 1, q)) = new \o Part(content, t, q)
  <2>1. RunOf(pieces, content, f, q, t, new)
    BY <1>8, <1>9 DEF RunOf, new
  <2>2. new \in Seq(Characters)
    BY <1>3 DEF new
  <2>. QED
    BY <1>10, <1>11, <2>1, <2>2, RunOfPieces DEF N
<1>. QED
  BY <1>12 DEF pieces, f, t, q, new, i

(* Before all edits is the text as it was.                                    *)
LEMMA FirstPieces ==
    ASSUME NEW content \in Seq(Characters), NEW ss, SpansFit(content, ss),
           NEW order, InOrder(ss, order)
    PROVE  LET q == Reached(content, ss, order, Len(ss)) IN
           FlattenSeq(SubSeq(Pieces(content, ss), 1, q)) = Before(content, q)
<1>. DEFINE D == DOMAIN ss
            N == Len(content)
            q == Reached(content, ss, order, Len(ss))
            pieces == Pieces(content, ss)
<1>1. N \in Nat /\ Len(ss) \in Nat /\ D = 1 .. Len(ss) /\ Len(ss) \in 0 .. Len(ss)
  BY DEF SpansFit
<1>2. q \in 0 .. N + 1 /\ \A n \in D : ss[order[n]].from >= q
  BY <1>1, ReachedWhere
<1>3. ASSUME NEW j \in D
      PROVE  /\ ss[j].from \in Nat /\ q <= ss[j].from
  <2>1. PICK n \in D : order[n] = j
    BY DEF InOrder
  <2>2. ss[j].from \in Nat
    BY SpanType
  <2>. HIDE DEF q, D
  <2>. QED
    BY <1>2, <2>1, <2>2
<1>4. ASSUME NEW p \in 0 .. q - 1
      PROVE  pieces[p + 1] = KeptFrom(content, 0, p)
  <2>1. p \in 0 .. N /\ p \in Nat /\ p < q
    BY <1>1, <1>2
  <2>2. \A j \in D : p < ss[j].from
    <3>. HIDE DEF q, D
    <3>. QED
      BY <1>2, <1>3, <2>1
  <2>3. PutIn(ss, p) = <<>>
    <3>1. \A j \in D : ss[j].from # p
      BY <1>3, <2>1, <2>2
    <3>. QED
      BY <3>1, PutWhere
  <2>4. LeftAt(content, ss, p) = KeptFrom(content, 0, p)
    <3>1. ~ Goes(ss, p)
      BY <1>3, <2>1, <2>2 DEF Goes
    <3>2. ~ (p < 0)
      BY <2>1
    <3>. QED
      BY <3>1, <3>2 DEF LeftAt, KeptFrom
  <2>5. KeptFrom(content, 0, p) \in Seq(Characters)
    <3>1. 0 \in 0 .. Len(content)
      BY <1>1
    <3>. QED
      BY <2>1, <3>1, PartGrows
  <2>6. <<>> \o KeptFrom(content, 0, p) = KeptFrom(content, 0, p)
    BY <2>5, ConcatEmptySeq
  <2>. QED
    BY <2>1, <2>3, <2>4, <2>6, PiecesType
<1>5. pieces \in Seq(Seq(Characters)) /\ Len(pieces) = N + 1
  BY PiecesType
<1>. HIDE DEF pieces, q, D
<1>6. CASE q = 0
  <2>1. SubSeq(pieces, 1, 0) = <<>>
    BY SubSeqEmpty
  <2>2. Before(content, 0) = <<>>
    <3>1. Before(content, 0) = SubSeq(content, 1, 0)
      BY <1>1 DEF Before
    <3>. QED
      BY <3>1, SubSeqEmpty
  <2>3. FlattenSeq(SubSeq(pieces, 1, q)) = Before(content, q)
    BY <1>6, <2>1, <2>2, FlattenEmpty
  <2>. QED
    BY <2>3 DEF pieces, q
<1>7. CASE q # 0
  <2>1. /\ 0 \in 0 .. N /\ q \in 0 + 1 .. N + 1 /\ 0 + 1 = 1
        /\ <<>> \in Seq(Characters)
    BY <1>1, <1>2, <1>7
  <2>2. pieces[0 + 1] = <<>> \o KeptFrom(content, 0, 0)
    <3>1. 0 \in 0 .. q - 1
      BY <1>2, <1>7
    <3>2. pieces[0 + 1] = KeptFrom(content, 0, 0)
      BY <1>4, <3>1
    <3>3. KeptFrom(content, 0, 0) \in Seq(Characters)
      BY <2>1, PartGrows
    <3>4. <<>> \o KeptFrom(content, 0, 0) = KeptFrom(content, 0, 0)
      BY <3>3, ConcatEmptySeq
    <3>. QED
      BY <3>2, <3>4
  <2>3. \A p \in 0 + 1 .. q - 1 : pieces[p + 1] = KeptFrom(content, 0, p)
    <3>1. \A p \in 0 + 1 .. q - 1 : p \in 0 .. q - 1
      BY <1>2
    <3>. QED
      BY <1>4, <3>1
  <2>4. FlattenSeq(SubSeq(pieces, 0 + 1, q)) = <<>> \o Part(content, 0, q)
    <3>1. RunOf(pieces, content, 0, q, 0, <<>>)
      BY <2>2, <2>3 DEF RunOf
    <3>2. 0 \in 0 .. Len(content) /\ q \in 0 + 1 .. Len(content) + 1
          /\ Len(pieces) = Len(content) + 1
      BY <1>5, <2>1
    <3>. QED
      BY <1>5, <2>1, <3>1, <3>2, RunOfPieces
  <2>5. Part(content, 0, q) \in Seq(Characters) /\ Part(content, 0, q) = Before(content, q)
    <3>1. q \in Nat
      BY <1>1, <1>2
    <3>2. Part(content, 0, q) = Before(content, q)
      BY DEF Part, Before
    <3>. QED
      BY <2>1, <3>1, <3>2, PartIn
  <2>6. <<>> \o Part(content, 0, q) = Part(content, 0, q)
    BY <2>5, ConcatEmptySeq
  <2>7. FlattenSeq(SubSeq(pieces, 1, q)) = Before(content, q)
    BY <2>1, <2>4, <2>5, <2>6
  <2>. QED
    BY <2>7 DEF pieces, q
<1>. QED
  BY <1>6, <1>7

-----------------------------------------------------------------------------
(* The lines around an edit.                                                  *)

Exchanges(p, q, r, s) == (p \o q) \o (r \o s) = p \o ((q \o r) \o s)

LEMMA Exchanged ==
    ASSUME NEW S, NEW p \in Seq(S), NEW q \in Seq(S), NEW r \in Seq(S), NEW s \in Seq(S)
    PROVE  Exchanges(p, q, r, s)
<1>1. Regroups(S)
  BY Regrouped
<1>2. q \o r \in Seq(S) /\ r \o s \in Seq(S)
  OBVIOUS
<1>3. (p \o q) \o (r \o s) = p \o (q \o (r \o s))
  <2>. DEFINE u == r \o s
  <2>1. u \in Seq(S)
    BY <1>2
  <2>. HIDE DEF u
  <2>2. Regrouping(p, q, u)
    BY <2>1, RegroupedThree
  <2>. QED
    BY <2>2 DEF Regrouping, u
<1>4. (q \o r) \o s = q \o (r \o s)
  BY <1>1, <1>2 DEF Regroups
<1>. QED
  BY <1>3, <1>4 DEF Exchanges

(* What lines are joined to around one of them.                               *)
Surrounds(ls, head, line, tail) ==
    FlattenSeq(ls) = FlattenSeq(head) \o (line \o FlattenSeq(tail))

LEMMA FlattenLine ==
    ASSUME NEW S, NEW head \in Seq(Seq(S)), NEW line \in Seq(S), NEW tail \in Seq(Seq(S)),
           NEW ls, ls = (head \o <<line>>) \o tail
    PROVE  Surrounds(ls, head, line, tail)
<1>1. head \o <<line>> \in Seq(Seq(S))
  OBVIOUS
<1>2. FlattenSeq((head \o <<line>>) \o tail) = FlattenSeq(head \o <<line>>) \o FlattenSeq(tail)
  BY <1>1, FlattenConcat
<1>3. FlattenSeq(head \o <<line>>) = FlattenSeq(head) \o line
  BY FlattenAppend
<1>4. FlattenSeq(head) \in Seq(S) /\ FlattenSeq(tail) \in Seq(S)
  BY FlattenType
<1>5. Regroups(S)
  BY Regrouped
<1>6. (FlattenSeq(head) \o line) \o FlattenSeq(tail)
         = FlattenSeq(head) \o (line \o FlattenSeq(tail))
  BY <1>4, <1>5 DEF Regroups
<1>. QED
  BY <1>2, <1>3, <1>6 DEF Surrounds

(* Lines are those before one of them, it, and those behind it.               *)
LEMMA CutAtLine ==
    ASSUME NEW S, NEW ls \in Seq(Seq(S)), NEW l \in Nat, l < Len(ls)
    PROVE  /\ ls[l + 1] \in Seq(S)
           /\ SubSeq(ls, 1, l) \in Seq(Seq(S)) /\ Len(SubSeq(ls, 1, l)) = l
           /\ SubSeq(ls, l + 2, Len(ls)) \in Seq(Seq(S))
           /\ ls = (SubSeq(ls, 1, l) \o << ls[l + 1] >>) \o SubSeq(ls, l + 2, Len(ls))
<1>1. Len(ls) \in Nat /\ l + 1 \in 1 .. Len(ls) /\ 1 \in 1 .. Len(ls)
  OBVIOUS
<1>2. ls[l + 1] \in Seq(S)
  BY <1>1, ElementOfSeq
<1>3. SubSeq(ls, 1, l) \in Seq(Seq(S)) /\ Len(SubSeq(ls, 1, l)) = l
  BY <1>1
<1>4. SubSeq(ls, l + 2, Len(ls)) \in Seq(Seq(S))
  BY <1>1
<1>5. SubSeq(ls, 1, l + 1) = SubSeq(ls, 1, l) \o << ls[l + 1] >>
  <2>1. (l + 1) - 1 = l
    OBVIOUS
  <2>. QED
    BY <1>1, <2>1, SubSeqRecursiveSecond
<1>6. SubSeq(ls, 1, l + 1) \o SubSeq(ls, (l + 1) + 1, Len(ls)) = SubSeq(ls, 1, Len(ls))
  <2>1. 1 \in 1 .. Len(ls) + 1 /\ l + 1 \in 1 - 1 .. Len(ls) /\ Len(ls) \in l + 1 .. Len(ls)
    BY <1>1
  <2>. QED
    BY <2>1, ConcatAdjacentSubSeq
<1>7. SubSeq(ls, 1, Len(ls)) = ls /\ (l + 1) + 1 = l + 2
  BY SubSeqFull
<1>. QED
  BY <1>2, <1>3, <1>4, <1>5, <1>6, <1>7

(* Lines of which the first are others' and the next is of its own.           *)
StartLike(ls2, ls, l, line) ==
    /\ l < Len(ls2) /\ ls2[l + 1] = line
    /\ \A m \in 0 .. l : SubSeq(ls2, 1, m) = SubSeq(ls, 1, m)
    /\ \A m \in 1 .. l : ls2[m] = ls[m]

LEMMA NewLine ==
    ASSUME NEW S, NEW ls \in Seq(Seq(S)), NEW l \in Nat, l < Len(ls),
           NEW line \in Seq(S), NEW tail \in Seq(Seq(S)), NEW ls2,
           ls2 = (SubSeq(ls, 1, l) \o <<line>>) \o tail
    PROVE  ls2 \in Seq(Seq(S)) /\ StartLike(ls2, ls, l, line)
<1>. DEFINE head == SubSeq(ls, 1, l)
<1>1. Len(ls) \in Nat /\ head \in Seq(Seq(S)) /\ Len(head) = l
      /\ \A m \in 1 .. l : head[m] = ls[m]
  <2>1. Len(ls) \in Nat /\ Len(head) = l
    OBVIOUS
  <2>2. head \in Seq(Seq(S))
    OBVIOUS
  <2>3. \A m \in 1 .. l : head[m] = ls[m]
    OBVIOUS
  <2>. QED
    BY <2>1, <2>2, <2>3
<1>2. <<line>> \in Seq(Seq(S))
  OBVIOUS
<1>. HIDE DEF head
<1>3. /\ ls2 \in Seq(Seq(S)) /\ Len(ls2) = l + 1 + Len(tail) /\ Len(tail) \in Nat
      /\ ls2[l + 1] = line
      /\ \A m \in 1 .. l : ls2[m] = head[m]
  BY <1>1, <1>2 DEF head
<1>4. ASSUME NEW m \in 0 .. l
      PROVE  SubSeq(ls2, 1, m) = SubSeq(ls, 1, m)
  <2>1. m \in Nat /\ m <= l /\ m <= Len(ls) /\ m <= Len(ls2)
    BY <1>1, <1>3
  <2>2. \A i \in 1 .. m : ls2[i] = ls[i]
    BY <1>1, <1>3, <2>1
  <2>3. /\ SubSeq(ls2, 1, m) = [i \in 1 .. m |-> ls2[i]]
        /\ SubSeq(ls, 1, m) = [i \in 1 .. m |-> ls[i]]
    BY <1>1, <1>3, <2>1
  <2>. QED
    BY <2>2, <2>3
<1>. QED
  BY <1>1, <1>3, <1>4 DEF StartLike

(* Lines that are the same up to a place.                                     *)
Changed(ls2, ls, content, from, rest) ==
    LET at == Position(content, from) IN
    StartLike(ls2, ls, at[1], Before(ls[at[1] + 1], at[2]) \o rest)

(* A place before the start of an edit is found where it was.                 *)
LEMMA StillFits ==
    ASSUME NEW S, NEW content \in Seq(S), NEW ls \in Seq(Seq(S)), NEW ls2 \in Seq(Seq(S)),
           NEW from \in Nat, Fits(ls, content, from),
           NEW rest \in Seq(S),
           Changed(ls2, ls, content, from, rest),
           NEW place \in Nat, place <= from, Fits(ls, content, place)
    PROVE  Fits(ls2, content, place)
<1>. DEFINE l == Position(content, from)[1]
            c == Position(content, from)[2]
            m == Position(content, place)[1]
            d == Position(content, place)[2]
            old == ls[l + 1]
<1>1. l \in Nat /\ c \in Nat /\ m \in Nat /\ d \in Nat
  BY PositionType
<1>2. m < l \/ (m = l /\ d <= c)
  <2>1. CASE place = from
    BY <1>1, <2>1
  <2>2. CASE place # from
    <3>1. place < from
      BY <2>2
    <3>2. m < l \/ (m = l /\ c - d = from - place)
      BY <3>1, PositionGrows
    <3>. HIDE DEF l, c, m, d
    <3>. QED
      BY <1>1, <3>1, <3>2
  <2>. QED
    BY <2>1, <2>2
<1>3. /\ m < Len(ls) /\ d <= Len(ls[m + 1])
      /\ FlattenSeq(SubSeq(ls, 1, m)) \o Before(ls[m + 1], d) = Before(content, place)
  BY DEF Fits
<1>4. /\ l < Len(ls) /\ c <= Len(ls[l + 1]) /\ l < Len(ls2)
      /\ ls2[l + 1] = Before(ls[l + 1], c) \o rest
      /\ \A n \in 0 .. l : SubSeq(ls2, 1, n) = SubSeq(ls, 1, n)
      /\ \A n \in 1 .. l : ls2[n] = ls[n]
  BY DEF Fits, Changed, StartLike
<1>5. Len(ls) \in Nat /\ Len(ls2) \in Nat
  OBVIOUS
<1>6. ASSUME m < Len(ls2), d <= Len(ls2[m + 1]),
             FlattenSeq(SubSeq(ls2, 1, m)) \o Before(ls2[m + 1], d) = Before(content, place)
      PROVE  Fits(ls2, content, place)
  BY <1>6 DEF Fits
<1>. HIDE DEF l, c, m, d
<1>7. SubSeq(ls2, 1, m) = SubSeq(ls, 1, m) /\ m < Len(ls2)
  <2>1. m \in 0 .. l
    BY <1>1, <1>2
  <2>2. m < Len(ls2)
    BY <1>1, <1>2, <1>4, <1>5
  <2>. QED
    BY <1>4, <2>1, <2>2
<1>8. CASE m < l
  <2>1. m + 1 \in 1 .. l
    BY <1>1, <1>8
  <2>2. ls2[m + 1] = ls[m + 1]
    BY <1>4, <2>1
  <2>. QED
    BY <1>3, <1>6, <1>7, <2>2
<1>9. CASE m = l /\ d <= c
  <2>1. old \in Seq(S)
    <3>1. l + 1 \in 1 .. Len(ls)
      BY <1>1, <1>4, <1>5
    <3>. QED
      BY <3>1, ElementOfSeq
  <2>. DEFINE begin == Before(old, c)
  <2>2. begin \in Seq(S) /\ Len(begin) = c
    <3>1. Len(old) \in Nat
      BY <2>1
    <3>2. Before(old, c) \in Seq(S) /\ Len(Before(old, c)) = IF c < Len(old) THEN c ELSE Len(old)
      BY <1>1, <2>1, SlicesType
    <3>3. c <= Len(old)
      BY <1>4
    <3>. HIDE DEF old
    <3>. QED
      BY <1>1, <3>1, <3>2, <3>3
  <2>3. ls2[m + 1] = begin \o rest
    BY <1>4, <1>9
  <2>4. Before(begin \o rest, d) = Before(begin, d)
    <3>1. d \in 0 .. Len(begin)
      BY <1>1, <1>9, <2>2
    <3>. HIDE DEF begin
    <3>. QED
      BY <2>2, <3>1, BeforeConcat
  <2>5. Before(begin, d) = Before(old, d)
    <3>1. d \in 0 .. c
      BY <1>1, <1>9
    <3>. QED
      BY <1>1, <2>1, <3>1, BeforeBefore
  <2>6. d <= Len(begin \o rest)
    <3>. HIDE DEF begin
    <3>1. Len(begin \o rest) = c + Len(rest) /\ Len(rest) \in Nat
      <4>1. Len(begin \o rest) = Len(begin) + Len(rest)
        BY <2>2, ConcatProperties
      <4>. QED
        BY <2>2, <4>1
    <3>. QED
      BY <1>1, <1>9, <3>1
  <2>. HIDE DEF begin
  <2>. QED
    BY <1>3, <1>6, <1>7, <1>9, <2>3, <2>4, <2>5, <2>6 DEF old
<1>. QED
  BY <1>2, <1>8, <1>9

(* What an edit leaves of the text: its new text between what was before its  *)
(* start and what was behind its end, and the places up to its start.         *)
Leaves(ls, content, from, to, new, ls2) ==
    /\ ls2 \in Seq(Seq(Characters))
    /\ \E rest \in Seq(Characters) :
          /\ FlattenSeq(ls) = Before(content, to) \o rest
          /\ FlattenSeq(ls2) = Before(content, from) \o (new \o rest)
    /\ \A place \in 0 .. from :
          Fits(ls, content, place) \/ place = from => Fits(ls2, content, place)

(* The edit within the lines.                                                 *)
LEMMA ReplaceLeaves ==
    ASSUME NEW content \in Seq(Characters), NEW ls \in Seq(Seq(Characters)),
           NEW from \in 0 .. Len(content), NEW to \in from .. Len(content),
           NEW new \in Seq(Characters), Fits(ls, content, from),
           NEW rest \in Seq(Characters), NEW tail \in Seq(Seq(Characters)),
           FlattenSeq(ls) = Before(content, to) \o (rest \o FlattenSeq(tail)),
           NEW ls2,
           LET at == Position(content, from) IN
              ls2 = (SubSeq(ls, 1, at[1])
                        \o << (Before(ls[at[1] + 1], at[2]) \o new) \o rest >>) \o tail
    PROVE  Leaves(ls, content, from, to, new, ls2)
<1>. DEFINE C == Characters
            l == Position(content, from)[1]
            c == Position(content, from)[2]
            begin == Before(ls[l + 1], c)
            line == (begin \o new) \o rest
            head == SubSeq(ls, 1, l)
<1>1. from \in Nat /\ l \in Nat /\ c \in Nat
  BY PositionType
<1>2. /\ l < Len(ls) /\ c <= Len(ls[l + 1])
      /\ FlattenSeq(head) \o begin = Before(content, from)
  BY DEF Fits
<1>3. ls[l + 1] \in Seq(C) /\ head \in Seq(Seq(C))
  <2>. HIDE DEF l
  <2>. QED
    BY <1>1, <1>2, CutAtLine
<1>4. begin \in Seq(C)
  <2>. HIDE DEF l, c
  <2>. QED
    BY <1>1, <1>3, SlicesType
<1>5. ls2 = (head \o <<line>>) \o tail
  OBVIOUS
<1>. HIDE DEF begin
<1>6. line \in Seq(C) /\ new \o rest \in Seq(C)
  BY <1>4
<1>7. line = begin \o (new \o rest)
  <2>1. Regroups(C)
    BY Regrouped
  <2>. QED
    BY <1>4, <2>1 DEF Regroups
<1>. HIDE DEF line, l, c
<1>8. ls2 \in Seq(Seq(C)) /\ StartLike(ls2, ls, l, line)
  BY <1>1, <1>2, <1>5, <1>6, NewLine
<1>. DEFINE behind == FlattenSeq(tail)
            before == FlattenSeq(head)
<1>9. behind \in Seq(C) /\ before \in Seq(C)
  BY <1>3, FlattenType
<1>10. FlattenSeq(ls2) = before \o (line \o behind)
  <2>. HIDE DEF head
  <2>1. Surrounds(ls2, head, line, tail)
    BY <1>3, <1>5, <1>6, FlattenLine
  <2>. QED
    BY <2>1 DEF Surrounds
<1>. HIDE DEF behind, before, head
<1>11. before \o (line \o behind) = (before \o begin) \o (new \o (rest \o behind))
  <2>1. Regroups(C)
    BY Regrouped
  <2>. DEFINE b == new \o rest
              e == rest \o behind
  <2>2. b \in Seq(C) /\ e \in Seq(C) /\ new \o e \in Seq(C)
    BY <1>6, <1>9
  <2>3. b \o behind = new \o e
    BY <1>9, <2>1 DEF Regroups
  <2>. HIDE DEF b, e
  <2>4. (begin \o b) \o behind = begin \o (b \o behind)
    <3>1. Regrouping(begin, b, behind)
      BY <1>4, <1>9, <2>2, RegroupedThree
    <3>. QED
      BY <3>1 DEF Regrouping
  <2>5. (before \o begin) \o (new \o e) = before \o (begin \o (new \o e))
    <3>. DEFINE g == new \o e
    <3>1. g \in Seq(C)
      BY <2>2
    <3>. HIDE DEF g
    <3>2. Regrouping(before, begin, g)
      BY <1>4, <1>9, <3>1, RegroupedThree
    <3>. QED
      BY <3>2 DEF Regrouping, g
  <2>. QED
    BY <1>7, <2>3, <2>4, <2>5 DEF b, e
<1>12. FlattenSeq(ls2) = Before(content, from) \o (new \o (rest \o behind))
  BY <1>2, <1>10, <1>11 DEF before
<1>13. ASSUME NEW place \in 0 .. from, Fits(ls, content, place) \/ place = from
       PROVE  Fits(ls2, content, place)
  <2>1. Fits(ls, content, place) /\ place \in Nat /\ place <= from
    BY <1>1, <1>13
  <2>. DEFINE more == new \o rest
  <2>2. more \in Seq(C)
    BY <1>6
  <2>3. Changed(ls2, ls, content, from, more)
    BY <1>8, <1>7 DEF begin, Changed, l, c
  <2>. HIDE DEF more
  <2>. QED
    <3>1. from \in 0 .. Len(content) /\ place \in 0 .. from
      BY <1>1, <1>13
    <3>. QED
      BY <1>1, <1>8, <2>1, <2>2, <2>3, <3>1, StillFits, ZenonT(60)
<1>14. rest \o behind \in Seq(C) /\ FlattenSeq(ls) = Before(content, to) \o (rest \o behind)
  BY <1>9 DEF behind
<1>. QED
  BY <1>8, <1>12, <1>13, <1>14 DEF Leaves

(* The edit behind the last line.                                             *)
LEMMA ExtendLeaves ==
    ASSUME NEW content \in Seq(Characters), NEW ls \in Seq(Seq(Characters)),
           NEW new \in Seq(Characters), Behind(ls, content, Len(content)),
           FlattenSeq(ls) = content, NEW ls2, ls2 = ls \o <<new>>
    PROVE  Leaves(ls, content, Len(content), Len(content), new, ls2)
<1>. DEFINE C == Characters
            N == Len(content)
            K == Len(ls)
<1>1. N \in Nat /\ K \in Nat /\ Position(content, N) = <<K, 0>>
  BY DEF Behind
<1>2. <<new>> \in Seq(Seq(C)) /\ ls2 \in Seq(Seq(C)) /\ Len(ls2) = K + 1 /\ ls2[K + 1] = new
      /\ \A m \in 1 .. K : ls2[m] = ls[m]
  OBVIOUS
<1>3. FlattenSeq(ls2) = content \o new
  BY FlattenAppend
<1>4. Before(content, N) = content
  <2>1. Before(content, N) = SubSeq(content, 1, N)
    BY DEF Before
  <2>. QED
    BY <2>1, SubSeqFull
<1>5. /\ FlattenSeq(ls) = Before(content, N) \o <<>>
      /\ FlattenSeq(ls2) = Before(content, N) \o (new \o <<>>)
      /\ <<>> \in Seq(C)
  <2>1. content \o <<>> = content /\ new \o <<>> = new /\ <<>> \in Seq(C)
    BY ConcatEmptySeq
  <2>. QED
    BY <1>3, <1>4, <2>1
<1>6. ASSUME NEW m \in 0 .. K
      PROVE  SubSeq(ls2, 1, m) = SubSeq(ls, 1, m)
  <2>1. m \in Nat /\ m <= K
    BY <1>1
  <2>2. \A i \in 1 .. m : ls2[i] = ls[i]
    BY <1>1, <1>2, <2>1
  <2>3. /\ SubSeq(ls2, 1, m) = [i \in 1 .. m |-> ls2[i]]
        /\ SubSeq(ls, 1, m) = [i \in 1 .. m |-> ls[i]]
    BY <1>1, <1>2, <2>1
  <2>. QED
    BY <2>2, <2>3
<1>7. Fits(ls2, content, N)
  <2>1. K < Len(ls2) /\ 0 <= Len(ls2[K + 1])
    BY <1>1, <1>2
  <2>2. SubSeq(ls2, 1, K) = ls
    <3>1. K \in 0 .. K
      BY <1>1
    <3>2. SubSeq(ls, 1, K) = ls
      BY SubSeqFull
    <3>. QED
      BY <1>6, <3>1, <3>2
  <2>3. Before(ls2[K + 1], 0) = <<>>
    <3>1. Before(new, 0) = SubSeq(new, 1, 0)
      <4>1. Len(new) \in Nat
        OBVIOUS
      <4>. QED
        BY <4>1 DEF Before
    <3>2. SubSeq(new, 1, 0) = <<>>
      BY SubSeqEmpty
    <3>. QED
      BY <1>2, <3>1, <3>2
  <2>4. FlattenSeq(SubSeq(ls2, 1, K)) \o Before(ls2[K + 1], 0) = Before(content, N)
    <3>1. FlattenSeq(SubSeq(ls2, 1, K)) = content
      BY <2>2
    <3>2. content \o <<>> = content
      BY ConcatEmptySeq
    <3>. QED
      BY <1>4, <2>3, <3>1, <3>2
  <2>5. Position(content, N)[1] = K /\ Position(content, N)[2] = 0
    BY <1>1
  <2>. HIDE DEF K, N
  <2>. QED
    BY <2>1, <2>4, <2>5 DEF Fits
<1>8. ASSUME NEW place \in 0 .. N, Fits(ls, content, place)
      PROVE  Fits(ls2, content, place)
  <2>. DEFINE l == Position(content, place)[1]
              d == Position(content, place)[2]
  <2>1. l \in Nat
    <3>1. place \in Nat
      BY <1>1
    <3>. QED
      BY <3>1, PositionType
  <2>2. /\ l < K /\ d <= Len(ls[l + 1])
        /\ FlattenSeq(SubSeq(ls, 1, l)) \o Before(ls[l + 1], d) = Before(content, place)
    BY <1>8 DEF Fits
  <2>3. l \in 0 .. K /\ l + 1 \in 1 .. K /\ l < K + 1
    <3>. HIDE DEF l, K
    <3>1. K \in Nat /\ l < K
      BY <1>1, <2>2
    <3>. QED
      BY <2>1, <3>1
  <2>4. SubSeq(ls2, 1, l) = SubSeq(ls, 1, l) /\ ls2[l + 1] = ls[l + 1] /\ l < Len(ls2)
    BY <1>2, <1>6, <2>3
  <2>5. /\ l < Len(ls2) /\ d <= Len(ls2[l + 1])
        /\ FlattenSeq(SubSeq(ls2, 1, l)) \o Before(ls2[l + 1], d) = Before(content, place)
    BY <2>2, <2>4
  <2>. QED
    BY <2>5 DEF Fits
<1>9. \A place \in 0 .. N : Fits(ls, content, place) \/ place = N => Fits(ls2, content, place)
  BY <1>7, <1>8
<1>. QED
  BY <1>2, <1>5, <1>9 DEF Leaves

(* After the first edits: before the start of the last the lines are the text *)
(* as it was and its places are found, behind it they are what is meant.      *)
Held(ls, content, ss, order, k) ==
    LET q == Reached(content, ss, order, k) IN
    /\ ls \in Seq(Seq(Characters))
    /\ FlattenSeq(ls) = Before(content, q)
                           \o FlattenSeq(SubSeq(Pieces(content, ss), q + 1, Len(content) + 1))
    /\ \A place \in 0 .. Len(content) :
          place <= q => \/ Fits(ls, content, place)
                        \/ ls = SplitLines(content) /\ Behind(ls, content, place)

LEMMA WholeBefore ==
    ASSUME NEW S, NEW content \in Seq(S), NEW n \in Nat, n >= Len(content)
    PROVE  Before(content, n) = content
<1>1. Before(content, n) = SubSeq(content, 1, Len(content))
  <2>1. Len(content) \in Nat
    OBVIOUS
  <2>. QED
    BY <2>1 DEF Before
<1>. QED
  BY <1>1, SubSeqFull

(* All lines are the whole text.                                              *)
LEMMA SplitWhole ==
    ASSUME NEW S, NEW content \in Seq(S)
    PROVE  FlattenSeq(SplitLines(content)) = content
<1>. DEFINE ls == SplitLines(content)
            K == Cardinality(Ends(content))
<1>1. /\ ls \in Seq(Seq(S)) /\ K \in Nat /\ Len(ls) = K
      /\ EndOf(content, K) = Len(content)
  BY EndsType, SplitType, LastEnd
<1>2. FlattenSeq(SubSeq(ls, 1, K)) = SubSeq(content, 1, EndOf(content, K))
  <2>1. K \in 0 .. K
    BY <1>1
  <2>. QED
    BY <2>1, SplitFlatten
<1>3. SubSeq(ls, 1, K) = ls
  <2>. HIDE DEF ls, K
  <2>. QED
    BY <1>1, SubSeqFull
<1>4. SubSeq(content, 1, Len(content)) = content
  BY SubSeqFull
<1>. QED
  BY <1>1, <1>2, <1>3, <1>4

(* It holds of the lines of the text.                                         *)
LEMMA HeldFirst ==
    ASSUME NEW content \in Seq(Characters), NEW ss, SpansFit(content, ss), NEW order
    PROVE  Held(SplitLines(content), content, ss, order, 0)
<1>. DEFINE N == Len(content)
            ls == SplitLines(content)
<1>1. N \in Nat /\ Reached(content, ss, order, 0) = N + 1
  BY DEF Reached
<1>2. ls \in Seq(Seq(Characters))
  BY SplitType
<1>3. FlattenSeq(ls) = content
  BY SplitWhole
<1>4. Before(content, N + 1) = content
  BY <1>1, WholeBefore
<1>5. FlattenSeq(SubSeq(Pieces(content, ss), (N + 1) + 1, N + 1)) = <<>>
  <2>1. SubSeq(Pieces(content, ss), (N + 1) + 1, N + 1) = <<>>
    BY <1>1, SubSeqEmpty
  <2>. QED
    BY <2>1, FlattenEmpty
<1>6. content \o <<>> = content
  BY ConcatEmptySeq
<1>7. \A place \in 0 .. N : Fits(ls, content, place) \/ Behind(ls, content, place)
  BY PlaceFound
<1>. HIDE DEF ls, N
<1>. QED
  BY <1>1, <1>2, <1>3, <1>4, <1>5, <1>6, <1>7 DEF Held, ls, N

(* Either is what applying the next edit does.                                *)
LEMMA EditLeaves ==
    ASSUME NEW content \in Seq(Characters), NEW ss, SpansFit(content, ss),
           NEW order, InOrder(ss, order), NEW k \in 0 .. Len(ss), k < Len(ss),
           Held(lines, content, ss, order, k), NEW edit,
           edit = AsEdit(content, ss[order[k + 1]]),
           edit.end[1] >= Len(SplitLines(content))
              => edit.start[1] >= Len(SplitLines(content)) - 1,
           NEW ls2, ls2 = IF edit.start[1] >= Len(lines) THEN Extend(edit) ELSE Replace(edit)
    PROVE  LET span == ss[order[k + 1]] IN
           Leaves(lines, content, span.from, span.to, span.new, ls2)
<1>. DEFINE C == Characters
            N == Len(content)
            i == order[k + 1]
            f == ss[i].from
            t == ss[i].to
            new == ss[i].new
            q == Reached(content, ss, order, k)
            K == Len(lines)
            l == Position(content, f)[1]
            c == Position(content, f)[2]
            l2 == Position(content, t)[1]
            c2 == Position(content, t)[2]
<1>1. N \in Nat /\ Len(ss) \in Nat /\ DOMAIN ss = 1 .. Len(ss) /\ k + 1 \in 1 .. Len(ss)
      /\ k + 1 \in k + 1 .. Len(ss)
  BY DEF SpansFit
<1>2. i \in DOMAIN ss
  BY <1>1 DEF InOrder
<1>3. f \in Nat /\ t \in Nat /\ f <= t /\ t <= N /\ new \in Seq(C)
  BY <1>2, SpanType, CharactersType
<1>4. f <= q /\ t <= q
  <2>1. q \in 0 .. N + 1 /\ f < q /\ t <= q
    BY <1>1, ReachedWhere
  <2>. HIDE DEF q, f, t
  <2>. QED
    BY <1>1, <1>3, <2>1
<1>5. /\ edit.start = Position(content, f) /\ edit.end = Position(content, t) /\ edit.new = new
  BY DEF AsEdit, TextEdit
<1>6. l \in Nat /\ c \in Nat /\ l2 \in Nat /\ c2 \in Nat
  BY <1>3, PositionType
<1>7. lines \in Seq(Seq(C)) /\ K \in Nat
  BY DEF Held
<1>8. ASSUME NEW p \in Nat, p <= t
      PROVE  \/ Fits(lines, content, p)
             \/ lines = SplitLines(content) /\ Behind(lines, content, p)
  <2>1. p \in 0 .. N /\ p <= q
    <3>1. q \in Nat
      BY <1>1, ReachedWhere
    <3>. HIDE DEF q, t
    <3>. QED
      BY <1>1, <1>3, <1>4, <1>8, <3>1
  <2>. QED
    BY <2>1 DEF Held
<1>9. f \in 0 .. N /\ t \in f .. N
  BY <1>1, <1>3
<1>. HIDE DEF f, t, new, q, N, l, c, l2, c2, i, K
<1>10. CASE l >= K
  <2>1. ~ Fits(lines, content, f)
    BY <1>6, <1>7, <1>10 DEF Fits, l, K
  <2>2. Behind(lines, content, f) /\ lines = SplitLines(content)
    BY <1>3, <1>8, <2>1
  <2>3. f = N /\ t = N /\ l = K
    BY <1>1, <1>3, <2>2 DEF Behind, l, K, N
  <2>4. ls2 = lines \o <<new>>
    <3>1. ls2 = Extend(edit)
      BY <1>5, <1>10 DEF l, K
    <3>2. edit.start[1] - Len(lines) = 0
      BY <1>5, <1>7, <2>3 DEF l, K
    <3>3. [n \in 1 .. 0 |-> <<Newline>>] = <<>>
      OBVIOUS
    <3>4. lines \o <<>> = lines
      BY <1>7, ConcatEmptySeq
    <3>. QED
      BY <1>5, <3>1, <3>2, <3>3, <3>4 DEF Extend
  <2>5. FlattenSeq(lines) = content
    BY <2>2, SplitWhole
  <2>6. Leaves(lines, content, N, N, new, ls2)
    <3>1. Behind(lines, content, Len(content))
      BY <2>2, <2>3 DEF N
    <3>. QED
      BY <1>3, <1>7, <2>4, <2>5, <3>1, ExtendLeaves DEF N
  <2>. QED
    BY <2>3, <2>6 DEF f, t, new, i
<1>11. CASE ~ (l >= K)
  <2>1. l < K
    BY <1>6, <1>7, <1>11
  <2>2. Fits(lines, content, f)
    <3>1. ~ Behind(lines, content, f)
      BY <1>7, <2>1 DEF Behind, l, K
    <3>. QED
      BY <1>3, <1>8, <3>1
  <2>. DEFINE rest == IF l2 >= K THEN <<>> ELSE From(lines[l2 + 1], c2)
              tail == SubSeq(lines, IF l2 >= K THEN l + 2 ELSE l2 + 2, K)
              line == (Before(lines[l + 1], c) \o new) \o rest
  <2>3. ls2 = (SubSeq(lines, 1, l) \o << line >>) \o tail
    <3>1. ls2 = Replace(edit)
      BY <1>5, <1>11 DEF l, K
    <3>. QED
      BY <1>5, <3>1 DEF Replace, l, c, l2, c2, K
  <2>4. /\ rest \in Seq(C) /\ tail \in Seq(Seq(C))
        /\ FlattenSeq(lines) = Before(content, t) \o (rest \o FlattenSeq(tail))
    <3>1. CASE Fits(lines, content, t)
      <4>. DEFINE last == lines[l2 + 1]
                  head == SubSeq(lines, 1, l2)
                  begin == Before(last, c2)
                  end == From(last, c2)
                  behind == SubSeq(lines, l2 + 2, K)
      <4>1. l2 < K /\ FlattenSeq(head) \o begin = Before(content, t)
        BY <3>1 DEF Fits, l2, c2, K
      <4>2. last \in Seq(C) /\ head \in Seq(Seq(C)) /\ behind \in Seq(Seq(C))
            /\ lines = (head \o <<last>>) \o behind
        BY <1>6, <1>7, <4>1, CutAtLine DEF K
      <4>3. begin \in Seq(C) /\ end \in Seq(C) /\ begin \o end = last
        <5>. HIDE DEF last
        <5>. QED
          BY <1>6, <4>2, SlicesType
      <4>4. rest = end /\ tail = behind
        BY <1>6, <1>7, <4>1
      <4>. HIDE DEF last, head, begin, end, behind, rest, tail
      <4>5. Surrounds(lines, head, last, behind)
        BY <4>2, FlattenLine
      <4>6. FlattenSeq(lines) = FlattenSeq(head) \o (last \o FlattenSeq(behind))
        BY <4>5 DEF Surrounds
      <4>. DEFINE before == FlattenSeq(head)
                  after == FlattenSeq(behind)
      <4>7. before \in Seq(C) /\ after \in Seq(C)
        BY <4>2, FlattenType
      <4>. HIDE DEF before, after
      <4>8. Exchanges(before, begin, end, after)
        BY <4>3, <4>7, Exchanged
      <4>9. FlattenSeq(lines) = Before(content, t) \o (end \o after)
        BY <4>1, <4>3, <4>6, <4>8 DEF Exchanges, before, after
      <4>. QED
        BY <4>2, <4>3, <4>4, <4>9 DEF after
    <3>2. CASE ~ Fits(lines, content, t)
      <4>1. Behind(lines, content, t) /\ lines = SplitLines(content)
        BY <1>3, <1>8, <3>2
      <4>2. t = N /\ l2 = K
        BY <4>1 DEF Behind, l2, K, N
      <4>3. l >= K - 1
        BY <1>5, <1>6, <1>7, <4>1, <4>2 DEF l, l2, K
      <4>4. rest = <<>> /\ tail = <<>>
        <5>1. l2 >= K /\ K < l + 2
          BY <1>6, <1>7, <4>2, <4>3
        <5>2. SubSeq(lines, l + 2, K) = <<>>
          BY <1>6, <1>7, <5>1, SubSeqEmpty
        <5>. QED
          BY <5>1, <5>2
      <4>5. FlattenSeq(lines) = content
        BY <4>1, SplitWhole
      <4>6. Before(content, N) = content
        BY <1>1, WholeBefore DEF N
      <4>7. <<>> \o <<>> = <<>> /\ content \o <<>> = content
        BY ConcatEmptySeq
      <4>. HIDE DEF rest, tail
      <4>8. <<>> \in Seq(C) /\ <<>> \in Seq(Seq(C))
        OBVIOUS
      <4>. QED
        BY <4>2, <4>4, <4>5, <4>6, <4>7, <4>8, FlattenEmpty
    <3>. QED
      BY <3>1, <3>2
  <2>. HIDE DEF rest, tail
  <2>5. Leaves(lines, content, f, t, new, ls2)
    BY <1>3, <1>7, <1>9, <2>2, <2>3, <2>4, ReplaceLeaves DEF N, l, c
  <2>. QED
    BY <2>5 DEF f, t, new, i
<1>. QED
  BY <1>10, <1>11

LEMMA LeftCancelled ==
    ASSUME NEW S, NEW s \in Seq(S), NEW t \in Seq(S), NEW v \in Seq(S), s \o t = s \o v
    PROVE  t = v
  BY ConcatSimplifications

(* The next edit takes the lines one piece on.                                *)
LEMMA HeldOn ==
    ASSUME NEW content \in Seq(Characters), NEW ss, SpansFit(content, ss),
           NEW order, InOrder(ss, order), NEW k \in 0 .. Len(ss), k < Len(ss),
           NEW ls, Held(ls, content, ss, order, k), NEW ls2,
           LET span == ss[order[k + 1]] IN
           Leaves(ls, content, span.from, span.to, span.new, ls2)
    PROVE  Held(ls2, content, ss, order, k + 1)
<1>. DEFINE C == Characters
            N == Len(content)
            i == order[k + 1]
            f == ss[i].from
            t == ss[i].to
            new == ss[i].new
            q == Reached(content, ss, order, k)
            pieces == Pieces(content, ss)
            behind == FlattenSeq(SubSeq(pieces, q + 1, N + 1))
            part == Part(content, t, q)
<1>1. N \in Nat /\ Len(ss) \in Nat /\ DOMAIN ss = 1 .. Len(ss) /\ k + 1 \in 1 .. Len(ss)
      /\ k + 1 \in k + 1 .. Len(ss) /\ k + 1 # 0
  BY DEF SpansFit
<1>2. i \in DOMAIN ss
  BY <1>1 DEF InOrder
<1>3. f \in Nat /\ t \in Nat /\ f <= t /\ t <= N /\ new \in Seq(C)
  BY <1>2, SpanType, CharactersType
<1>4. q \in 0 .. N + 1 /\ f < q /\ t <= q
  BY <1>1, ReachedWhere
<1>5. Reached(content, ss, order, k + 1) = f
  BY <1>1 DEF Reached
<1>6. pieces \in Seq(Seq(C)) /\ Len(pieces) = N + 1
  BY PiecesType
<1>7. /\ FlattenSeq(ls) = Before(content, q) \o behind
      /\ \A place \in 0 .. N : place <= q =>
            Fits(ls, content, place) \/ (ls = SplitLines(content) /\ Behind(ls, content, place))
  BY DEF Held
<1>8. ls2 \in Seq(Seq(C))
  BY DEF Leaves
<1>9. PICK rest \in Seq(C) : /\ FlattenSeq(ls) = Before(content, t) \o rest
                             /\ FlattenSeq(ls2) = Before(content, f) \o (new \o rest)
  BY DEF Leaves
<1>10. \A place \in 0 .. f : Fits(ls, content, place) \/ place = f => Fits(ls2, content, place)
  BY DEF Leaves
<1>11. FlattenSeq(SubSeq(pieces, f + 1, q)) = new \o part
  BY NextPiece
<1>12. part \in Seq(C) /\ Before(content, t) \o part = Before(content, q)
       /\ Before(content, t) \in Seq(C)
  <2>1. t \in 0 .. Len(content) /\ q \in Nat
    BY <1>1, <1>3, <1>4
  <2>. HIDE DEF t, q
  <2>2. part \in Seq(C) /\ Before(content, t) \o part = Before(content, q)
    BY <1>4, <2>1, PartType
  <2>. QED
    BY <1>3, <2>2, SlicesType
<1>. HIDE DEF i, f, t, new, q, pieces, part, N
<1>13. SubSeq(pieces, q + 1, N + 1) \in Seq(Seq(C)) /\ SubSeq(pieces, f + 1, q) \in Seq(Seq(C))
  <2>1. \A j \in 1 .. N + 1 : pieces[j] \in Seq(C)
    BY <1>6, ElementOfSeq
  <2>2. (\A j \in q + 1 .. N + 1 : j \in 1 .. N + 1) /\ (\A j \in f + 1 .. q : j \in 1 .. N + 1)
        /\ q + 1 \in Int /\ N + 1 \in Int /\ f + 1 \in Int /\ q \in Int
    BY <1>1, <1>3, <1>4
  <2>. QED
    BY <2>1, <2>2, SubSeqProperties
<1>14. behind \in Seq(C)
  BY <1>13, FlattenType
<1>15. FlattenSeq(SubSeq(pieces, f + 1, N + 1)) = (new \o part) \o behind
  <2>1. SubSeq(pieces, f + 1, q) \o SubSeq(pieces, q + 1, N + 1) = SubSeq(pieces, f + 1, N + 1)
    <3>1. /\ f + 1 \in 1 .. Len(pieces) + 1 /\ q \in (f + 1) - 1 .. Len(pieces)
          /\ N + 1 \in q .. Len(pieces)
      BY <1>1, <1>3, <1>4, <1>6
    <3>. QED
      BY <1>6, <3>1, ConcatAdjacentSubSeq
  <2>2. FlattenSeq(SubSeq(pieces, f + 1, q) \o SubSeq(pieces, q + 1, N + 1))
           = FlattenSeq(SubSeq(pieces, f + 1, q)) \o behind
    BY <1>13, FlattenConcat
  <2>. QED
    BY <1>11, <2>1, <2>2
<1>. HIDE DEF behind
<1>16. (Before(content, t) \o part) \o behind = Before(content, t) \o (part \o behind)
       /\ (new \o part) \o behind = new \o (part \o behind)
       /\ part \o behind \in Seq(C)
  <2>2. part \o behind \in Seq(C)
    BY <1>12, <1>14
  <2>. DEFINE before == Before(content, t)
  <2>3. before \in Seq(C)
    BY <1>12
  <2>. HIDE DEF before
  <2>4. (before \o part) \o behind = before \o (part \o behind)
    <3>1. Regrouping(before, part, behind)
      BY <1>12, <1>14, <2>3, RegroupedThree
    <3>. QED
      BY <3>1 DEF Regrouping
  <2>5. (new \o part) \o behind = new \o (part \o behind)
    <3>1. Regrouping(new, part, behind)
      BY <1>3, <1>12, <1>14, RegroupedThree
    <3>. QED
      BY <3>1 DEF Regrouping
  <2>. QED
    BY <2>2, <2>4, <2>5 DEF before
<1>17. rest = part \o behind
  <2>. DEFINE both == part \o behind
              before == Before(content, t)
  <2>1. before \o rest = before \o both /\ both \in Seq(C) /\ before \in Seq(C)
    BY <1>7, <1>9, <1>12, <1>16
  <2>. HIDE DEF both, before
  <2>2. rest = both
    BY <2>1, LeftCancelled
  <2>. QED
    BY <2>2 DEF both
<1>18. FlattenSeq(ls2) = Before(content, f) \o FlattenSeq(SubSeq(pieces, f + 1, N + 1))
  BY <1>9, <1>15, <1>16, <1>17
<1>19. ASSUME NEW place \in 0 .. N, place <= f
       PROVE  Fits(ls2, content, place)
  <2>1. place \in 0 .. f /\ place <= q
    BY <1>1, <1>3, <1>4, <1>19
  <2>2. Fits(ls, content, place) \/ Behind(ls, content, place)
    BY <1>7, <2>1
  <2>3. Behind(ls, content, place) => place = f
    BY <1>1, <1>3, <1>19 DEF Behind, N
  <2>. QED
    BY <1>10, <2>1, <2>2, <2>3
<1>. QED
  BY <1>5, <1>8, <1>18, <1>19 DEF Held, pieces, N

-----------------------------------------------------------------------------
(* Every state: of spans that are apart and sound, some have been applied,    *)
(* the last first, and the lines are what they left.                          *)
AppliedSoFar(order, k) ==
    /\ pending = [n \in 1 .. Len(spans) - k |-> AsEdits(text, spans)[order[k + n]]]
    /\ Held(lines, text, spans, order, k)

IInv ==
    /\ text \in Texts
    /\ spans \in Seq(Spans(text))
    /\ \A m, n \in DOMAIN spans : m < n => Apart(spans[m], spans[n])
    /\ Sound => \E order \in [DOMAIN spans -> DOMAIN spans], k \in 0 .. Len(spans) :
                   InOrder(spans, order) /\ AppliedSoFar(order, k)

(* Sound spans are in one order or the other.                                 *)
LEMMA SoundFits ==
    ASSUME spans \in Seq(Spans(text)), Sound,
           \A m, n \in DOMAIN spans : m < n => Apart(spans[m], spans[n])
    PROVE  SpansFit(text, spans)
<1>1. DOMAIN spans = 1 .. Len(spans) /\ Len(spans) \in Nat
  OBVIOUS
<1>2. ASSUME NEW m \in DOMAIN spans, NEW n \in DOMAIN spans, m # n
      PROVE  Apart(spans[m], spans[n]) /\ spans[m].from # spans[n].from
  <2>1. m < n \/ n < m
    BY <1>1, <1>2
  <2>2. Apart(spans[m], spans[n]) \/ Apart(spans[n], spans[m])
    BY <2>1
  <2>. QED
    BY <1>2, <2>2 DEF Apart, Sound
<1>. QED
  BY <1>2 DEF SpansFit

LEMMA InitIInv == Init => IInv
<1>. SUFFICES ASSUME Init
              PROVE  IInv
  OBVIOUS
<1>1. text \in Texts /\ text \in Seq(Characters)
  BY CharactersType DEF Init
<1>2. PICK count \in 0 .. MaxEdits : spans \in [1 .. count -> Spans(text)]
  BY DEF Init
<1>3. spans \in Seq(Spans(text)) /\ Len(spans) = count /\ count \in Nat
  BY <1>2, TextsAssumption
<1>4. \A m, n \in DOMAIN spans : m < n => Apart(spans[m], spans[n])
  BY DEF Init
<1>5. ASSUME Sound
      PROVE  \E order \in [DOMAIN spans -> DOMAIN spans], k \in 0 .. Len(spans) :
                InOrder(spans, order) /\ AppliedSoFar(order, k)
  <2>1. SpansFit(text, spans)
    BY <1>3, <1>4, <1>5, SoundFits
  <2>2. PICK order : /\ InOrder(spans, order)
                     /\ LastToFirst(AsEdits(text, spans))
                           = [n \in DOMAIN spans |-> AsEdits(text, spans)[order[n]]]
    BY <1>1, <2>1, SortedSpans
  <2>3. pending = LastToFirst(AsEdits(text, spans))
    BY DEF Init, AsEdits
  <2>4. pending = [n \in 1 .. Len(spans) - 0 |-> AsEdits(text, spans)[order[0 + n]]]
    <3>1. DOMAIN spans = 1 .. Len(spans) - 0 /\ \A n \in 1 .. Len(spans) - 0 : 0 + n = n
      BY <1>3
    <3>. QED
      BY <2>2, <2>3, <3>1
  <2>5. Held(lines, text, spans, order, 0)
    BY <1>1, <2>1, HeldFirst DEF Init
  <2>6. 0 \in 0 .. Len(spans) /\ order \in [DOMAIN spans -> DOMAIN spans]
    BY <1>3, <2>2 DEF InOrder
  <2>. QED
    BY <2>2, <2>4, <2>5, <2>6 DEF AppliedSoFar
<1>. QED
  BY <1>1, <1>3, <1>4, <1>5 DEF IInv

LEMMA ApplyNextIInv == IInv /\ ApplyNext => IInv'
<1>. SUFFICES ASSUME IInv, ApplyNext
              PROVE  IInv'
  OBVIOUS
<1>1. text' = text /\ spans' = spans
  BY DEF ApplyNext
<1>2. text \in Texts /\ text \in Seq(Characters) /\ spans \in Seq(Spans(text))
      /\ \A m, n \in DOMAIN spans : m < n => Apart(spans[m], spans[n])
  BY CharactersType DEF IInv
<1>3. /\ text' \in Texts
      /\ spans' \in Seq(Spans(text'))
      /\ \A m, n \in DOMAIN spans' : m < n => Apart(spans'[m], spans'[n])
  BY <1>1, <1>2
<1>4. Sound' <=> Sound
  BY <1>1 DEF Sound
<1>5. ASSUME Sound
      PROVE  \E order \in [DOMAIN spans -> DOMAIN spans], k \in 0 .. Len(spans) :
                /\ InOrder(spans, order)
                /\ pending' = [n \in 1 .. Len(spans) - k |-> AsEdits(text, spans)[order[k + n]]]
                /\ Held(lines', text, spans, order, k)
  <2>1. SpansFit(text, spans)
    BY <1>2, <1>5, SoundFits
  <2>2. PICK order \in [DOMAIN spans -> DOMAIN spans], k \in 0 .. Len(spans) :
           InOrder(spans, order) /\ AppliedSoFar(order, k)
    BY <1>5 DEF IInv
  <2>. DEFINE edit(n) == AsEdits(text, spans)[order[n]]
  <2>3. Len(spans) \in Nat /\ DOMAIN spans = 1 .. Len(spans) /\ k \in Nat /\ k <= Len(spans)
    BY <1>2
  <2>4. pending = [n \in 1 .. Len(spans) - k |-> edit(k + n)] /\ pending # <<>>
        /\ Held(lines, text, spans, order, k)
    BY <2>2 DEF AppliedSoFar, ApplyNext
  <2>. HIDE DEF edit
  <2>5. k < Len(spans)
    <3>1. ASSUME Len(spans) - k = 0
          PROVE  FALSE
      <4>1. pending = [n \in 1 .. 0 |-> edit(k + n)]
        BY <2>4, <3>1
      <4>. QED
        BY <2>4, <4>1
    <3>. DEFINE K == Len(spans)
    <3>2. K \in Nat /\ k \in Nat /\ k <= K /\ K - k # 0
      BY <2>3, <3>1
    <3>. HIDE DEF K
    <3>3. k < K
      BY <3>2
    <3>. QED
      BY <3>3 DEF K
  <2>6. Head(pending) = edit(k + 1)
        /\ Tail(pending) = [n \in 1 .. Len(spans) - (k + 1) |-> edit((k + 1) + n)]
    <3>. DEFINE m == Len(spans) - k
    <3>1. m \in Nat /\ m # 0 /\ Len(spans) - (k + 1) = m - 1
      <4>. DEFINE K == Len(spans)
      <4>1. K \in Nat /\ k \in Nat /\ k < K
        BY <2>3, <2>5
      <4>. HIDE DEF K
      <4>2. K - k \in Nat /\ K - k # 0 /\ K - (k + 1) = (K - k) - 1
        BY <4>1
      <4>. QED
        BY <4>2 DEF K
    <3>. HIDE DEF m
    <3>2. pending = [n \in 1 .. m |-> edit(k + n)]
      BY <2>4 DEF m
    <3>3. Len(pending) = m /\ Head(pending) = pending[1]
          /\ Tail(pending) = [n \in 1 .. m - 1 |-> pending[n + 1]]
      BY <3>1, <3>2
    <3>4. pending[1] = edit(k + 1)
      BY <3>1, <3>2
    <3>5. ASSUME NEW n \in 1 .. m - 1
          PROVE  pending[n + 1] = edit((k + 1) + n)
      <4>1. n + 1 \in 1 .. m /\ k + (n + 1) = (k + 1) + n
        BY <2>3, <3>1
      <4>2. pending[n + 1] = edit(k + (n + 1))
        BY <3>2, <4>1
      <4>. QED
        BY <4>1, <4>2
    <3>. QED
      BY <3>1, <3>3, <3>4, <3>5
  <2>. DEFINE i == order[k + 1]
  <2>7. i \in DOMAIN spans
    BY <2>2, <2>3, <2>5
  <2>8. edit(k + 1) = AsEdit(text, spans[i])
    BY <2>7 DEF edit, AsEdits
  <2>9. /\ pending' = Tail(pending)
        /\ lines' = IF edit(k + 1).start[1] >= Len(lines)
                      THEN Extend(edit(k + 1)) ELSE Replace(edit(k + 1))
    BY <2>6 DEF ApplyNext
  <2>10. edit(k + 1).end[1] >= Len(SplitLines(text))
            => edit(k + 1).start[1] >= Len(SplitLines(text)) - 1
    BY <1>5, <2>7, <2>8 DEF Sound
  <2>. HIDE DEF i
  <2>11. Leaves(lines, text, spans[i].from, spans[i].to, spans[i].new, lines')
    BY <1>2, <2>1, <2>2, <2>4, <2>5, <2>8, <2>9, <2>10, EditLeaves DEF i
  <2>12. Held(lines', text, spans, order, k + 1)
    BY <1>2, <2>1, <2>2, <2>4, <2>5, <2>11, HeldOn DEF i
  <2>13. k + 1 \in 0 .. Len(spans)
    BY <2>3, <2>5
  <2>. QED
    BY <2>2, <2>6, <2>9, <2>12, <2>13 DEF edit
<1>6. Sound' => \E order \in [DOMAIN spans' -> DOMAIN spans'], k \in 0 .. Len(spans') :
                   /\ InOrder(spans', order)
                   /\ pending' = [n \in 1 .. Len(spans') - k |->
                                    AsEdits(text', spans')[order[k + n]]]
                   /\ Held(lines', text', spans', order, k)
  BY <1>1, <1>4, <1>5
<1>. QED
  BY <1>3, <1>6 DEF IInv, AppliedSoFar

(* IInv holds of every state: the order of the edits, the lines they left and *)
(* the pieces of the text behind them stay together whatever is applied.      *)
THEOREM Invariant == Spec => []IInv
<1>1. IInv /\ UNCHANGED vars => IInv'
  <2>. SUFFICES ASSUME IInv, UNCHANGED vars
                PROVE  IInv'
    OBVIOUS
  <2>1. text' = text /\ spans' = spans /\ lines' = lines /\ pending' = pending
    BY DEF vars
  <2>2. Sound' <=> Sound
    BY <2>1 DEF Sound
  <2>3. /\ text' \in Texts
        /\ spans' \in Seq(Spans(text'))
        /\ \A m, n \in DOMAIN spans' : m < n => Apart(spans'[m], spans'[n])
    BY <2>1 DEF IInv
  <2>4. ASSUME Sound
        PROVE  \E order \in [DOMAIN spans' -> DOMAIN spans'], k \in 0 .. Len(spans') :
                  /\ InOrder(spans', order)
                  /\ pending' = [n \in 1 .. Len(spans') - k |->
                                   AsEdits(text', spans')[order[k + n]]]
                  /\ Held(lines', text', spans', order, k)
    BY <2>1, <2>4 DEF IInv, AppliedSoFar
  <2>. QED
    BY <2>2, <2>3, <2>4 DEF IInv, AppliedSoFar
<1>2. IInv /\ [ApplyNext]_vars => IInv'
  BY <1>1, ApplyNextIInv
<1>. QED
  BY <1>2, InitIInv, PTL DEF Spec

(* An edit that is still to come ends before what was reached.                *)
LEMMA KeptByIInv == IInv => PositionsKept
<1>. SUFFICES ASSUME IInv, Sound, NEW n \in DOMAIN spans,
                     AsEdit(text, spans[n]) \in ToSet(pending)
              PROVE  Before(FlattenSeq(lines), spans[n].to) = Before(text, spans[n].to)
  BY DEF PositionsKept
<1>1. text \in Seq(Characters) /\ spans \in Seq(Spans(text))
  BY CharactersType DEF IInv
<1>2. SpansFit(text, spans)
  BY <1>1, SoundFits DEF IInv
<1>3. PICK order \in [DOMAIN spans -> DOMAIN spans], k \in 0 .. Len(spans) :
         InOrder(spans, order) /\ AppliedSoFar(order, k)
  BY DEF IInv
<1>4. pending = [m \in 1 .. Len(spans) - k |-> AsEdits(text, spans)[order[k + m]]]
      /\ Held(lines, text, spans, order, k)
  BY <1>3 DEF AppliedSoFar
<1>5. PICK m \in 1 .. Len(spans) - k :
         AsEdit(text, spans[n]) = AsEdits(text, spans)[order[k + m]]
  BY <1>4 DEF ToSet
<1>6. Len(spans) \in Nat /\ k \in Nat /\ k + m \in k + 1 .. Len(spans)
      /\ k + m \in 1 .. Len(spans) /\ DOMAIN spans = 1 .. Len(spans)
  BY <1>1
<1>. DEFINE i == order[k + m]
            to == spans[n].to
            q == Reached(text, spans, order, k)
            N == Len(text)
<1>7. i \in DOMAIN spans
  BY <1>6
<1>8. spans[i].to = to /\ to \in Nat /\ to <= N
  <2>1. AsEdit(text, spans[n]) = AsEdit(text, spans[i])
    BY <1>5, <1>7 DEF AsEdits
  <2>2. Position(text, to) = Position(text, spans[i].to)
    BY <2>1 DEF AsEdit, TextEdit
  <2>3. to \in Nat /\ spans[i].to \in Nat /\ to <= N
    BY <1>1, <1>2, <1>7, SpanType
  <2>. QED
    BY <2>2, <2>3, PositionPrecedes
<1>9. q \in 0 .. N + 1 /\ spans[i].to <= q /\ N \in Nat
  <2>1. \A j \in k + 1 .. Len(spans) : spans[order[j]].to <= q
    BY <1>1, <1>2, <1>3, ReachedWhere
  <2>2. q \in 0 .. N + 1
    BY <1>1, <1>2, <1>3, ReachedWhere
  <2>. QED
    BY <1>1, <1>6, <2>1, <2>2
<1>. DEFINE begin == Before(text, q)
            behind == FlattenSeq(SubSeq(Pieces(text, spans), q + 1, N + 1))
<1>10. FlattenSeq(lines) = begin \o behind
  BY <1>4 DEF Held
<1>11. begin \in Seq(Characters) /\ behind \in Seq(Characters)
  <2>1. Pieces(text, spans) \in Seq(Seq(Characters)) /\ Len(Pieces(text, spans)) = N + 1
    BY <1>1, <1>2, PiecesType
  <2>2. q + 1 \in Int /\ N + 1 \in Int /\ \A j \in q + 1 .. N + 1 : j \in 1 .. N + 1
    BY <1>9
  <2>. HIDE DEF q, N
  <2>3. \A j \in q + 1 .. N + 1 : Pieces(text, spans)[j] \in Seq(Characters)
    BY <2>1, <2>2, ElementOfSeq
  <2>4. SubSeq(Pieces(text, spans), q + 1, N + 1) \in Seq(Seq(Characters))
    BY <2>2, <2>3, SubSeqProperties
  <2>5. q \in Nat
    BY <1>9
  <2>. QED
    BY <1>1, <2>4, <2>5, FlattenType, SlicesType
<1>12. to \in 0 .. Len(begin) /\ q \in Nat /\ to \in 0 .. q
  <2>1. q \in Nat /\ to <= q
    BY <1>8, <1>9
  <2>2. Len(begin) = IF q < N THEN q ELSE N
    BY <1>1, <2>1, SlicesType
  <2>. HIDE DEF q, N, to, begin
  <2>. QED
    BY <1>8, <1>9, <2>1, <2>2
<1>. HIDE DEF begin, behind, q, N, to
<1>13. Before(begin \o behind, to) = Before(begin, to)
  BY <1>11, <1>12, BeforeConcat
<1>14. Before(begin, to) = Before(text, to)
  BY <1>1, <1>12, BeforeBefore DEF begin
<1>. QED
  BY <1>10, <1>13, <1>14 DEF to

(* Every edit, in its turn, finds all the text up to its end unchanged and in *)
(* its place (utils/workspace_edit.py:43), for every text and number of edits.*)
THEOREM Kept == Spec => []PositionsKept
<1>. QED
  BY Invariant, KeptByIInv, PTL

(* After the last edit the text before it and the pieces behind it are Meant. *)
LEMMA TogetherByIInv == IInv => AppliedTogether
<1>. SUFFICES ASSUME IInv, Sound, pending = <<>>
              PROVE  FlattenSeq(lines) = Meant
  BY DEF AppliedTogether
<1>1. text \in Seq(Characters) /\ spans \in Seq(Spans(text))
  BY CharactersType DEF IInv
<1>2. SpansFit(text, spans)
  BY <1>1, SoundFits DEF IInv
<1>3. PICK order \in [DOMAIN spans -> DOMAIN spans], k \in 0 .. Len(spans) :
         InOrder(spans, order) /\ AppliedSoFar(order, k)
  BY DEF IInv
<1>4. pending = [m \in 1 .. Len(spans) - k |-> AsEdits(text, spans)[order[k + m]]]
      /\ Held(lines, text, spans, order, k)
  BY <1>3 DEF AppliedSoFar
<1>5. k = Len(spans)
  <2>1. Len(spans) \in Nat /\ k \in Nat /\ k <= Len(spans)
    BY <1>1
  <2>2. DOMAIN pending = {}
    OBVIOUS
  <2>3. DOMAIN pending = 1 .. Len(spans) - k
    BY <1>4
  <2>. QED
    BY <2>1, <2>2, <2>3
<1>. DEFINE q == Reached(text, spans, order, Len(spans))
            N == Len(text)
            pieces == Pieces(text, spans)
<1>6. q \in 0 .. N + 1 /\ N \in Nat
  <2>1. Len(spans) \in 0 .. Len(spans)
    BY <1>1
  <2>. QED
    BY <1>1, <1>2, <1>3, <2>1, ReachedWhere
<1>7. FlattenSeq(lines) = Before(text, q) \o FlattenSeq(SubSeq(pieces, q + 1, N + 1))
  BY <1>4, <1>5 DEF Held
<1>8. FlattenSeq(SubSeq(pieces, 1, q)) = Before(text, q)
  BY <1>1, <1>2, <1>3, FirstPieces
<1>9. pieces \in Seq(Seq(Characters)) /\ Len(pieces) = N + 1
  BY <1>1, <1>2, PiecesType
<1>. HIDE DEF q, N, pieces
<1>. DEFINE first == SubSeq(pieces, 1, q)
            last == SubSeq(pieces, q + 1, N + 1)
<1>10. first \o last = pieces
  <2>1. 1 \in 1 .. Len(pieces) + 1 /\ q \in 1 - 1 .. Len(pieces) /\ N + 1 \in q .. Len(pieces)
    BY <1>6, <1>9
  <2>2. first \o last = SubSeq(pieces, 1, N + 1)
    BY <1>9, <2>1, ConcatAdjacentSubSeq
  <2>. QED
    BY <1>9, <2>2, SubSeqFull
<1>11. first \in Seq(Seq(Characters)) /\ last \in Seq(Seq(Characters))
  <2>1. \A j \in 1 .. N + 1 : pieces[j] \in Seq(Characters)
    BY <1>9, ElementOfSeq
  <2>2. (\A j \in q + 1 .. N + 1 : j \in 1 .. N + 1) /\ (\A j \in 1 .. q : j \in 1 .. N + 1)
        /\ q + 1 \in Int /\ N + 1 \in Int /\ q \in Int /\ 1 \in Int
    BY <1>6
  <2>. QED
    BY <2>1, <2>2, SubSeqProperties
<1>. HIDE DEF first, last
<1>12. FlattenSeq(pieces) = FlattenSeq(first) \o FlattenSeq(last)
  BY <1>10, <1>11, FlattenConcat
<1>. QED
  BY <1>7, <1>8, <1>12, MeantPieces DEF first, last, pieces

(* Applied one after the other, edits leave what they mean when made at once: *)
(* apply_text_edits is right for every text, every number of edits that do    *)
(* not overlap, and every order they are given in.                            *)
THEOREM Together == Spec => []AppliedTogether
<1>. QED
  BY Invariant, TogetherByIInv, PTL
=============================================================================
