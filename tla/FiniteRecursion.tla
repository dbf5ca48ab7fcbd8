-------------------------- MODULE FiniteRecursion --------------------------
(***************************************************************************)
(* Recursive functions on finite sets: that a CHOOSE of a function by its  *)
(* own equation chooses one that satisfies it, and induction over what it  *)
(* yields.  The library's induction theorems take an operator as a         *)
(* parameter; these take a set, of the values of which a claim holds, and  *)
(* follow from the well-foundedness of the strict subset ordering.         *)
(***************************************************************************)
EXTENDS Naturals, Sequences, FiniteSets, SequencesExt, FiniteSetTheorems, SequenceTheorems, TLAPS

(* Strong induction over the subsets of a finite set, for a set of them.   *)
LEMMA SubsetInduction ==
  ASSUME NEW S, IsFiniteSet(S), NEW T,
         \A X \in SUBSET S : (\A Y \in SUBSET X : Y # X => Y \in T) => X \in T
  PROVE  SUBSET S \subseteq T
<1> SUFFICES ASSUME (SUBSET S) \ T # {} PROVE FALSE
  OBVIOUS
<1>1. IsWellFoundedOn(StrictSubsetOrdering(S), FiniteSubsetsOf(S))
  BY FS_StrictSubsetOrderingWellFounded
<1>2. FiniteSubsetsOf(S) = SUBSET S
  BY FS_FiniteSubsetsOfFinite
<1>3. \E x \in (SUBSET S) \ T : \A y \in (SUBSET S) \ T : ~(<<y, x>> \in StrictSubsetOrdering(S))
  <2>1. PICK R, U : R = StrictSubsetOrdering(S) /\ U = (SUBSET S) \ T
    OBVIOUS
  <2>2. IsWellFoundedOn(R, SUBSET S) /\ U \subseteq SUBSET S /\ U # {}
    BY <1>1, <1>2, <2>1
  <2>3. \E x \in U : \A y \in U : ~(<<y, x>> \in R)
    BY <2>2, WFMin
  <2>4. QED
    BY <2>1, <2>3
<1>4. PICK X \in (SUBSET S) \ T : \A y \in (SUBSET S) \ T : ~(<<y, X>> \in StrictSubsetOrdering(S))
  BY <1>3
<1>5. \A Y \in SUBSET X : Y # X => Y \in T
  BY <1>4 DEF StrictSubsetOrdering
<1>6. QED
  BY <1>4, <1>5

(* A set of natural numbers that is not empty has a least one.             *)
LEMMA LeastNatural ==
  ASSUME NEW T \in SUBSET Nat, T # {}
  PROVE  \E x \in T : \A y \in T : x <= y
<1> SUFFICES ASSUME \A x \in T : \E y \in T : y < x PROVE FALSE
  OBVIOUS
<1>1. PICK n \in T : TRUE
  OBVIOUS
<1>2. PICK I, Q : I = 0 .. n /\ Q = {X \in SUBSET I : ~ \E m \in T : X = 0 .. m}
  OBVIOUS
<1>3. IsFiniteSet(I)
  BY <1>2, FS_Interval
<1>4. ASSUME NEW X \in SUBSET I, \A Y \in SUBSET X : Y # X => Y \in Q
      PROVE  X \in Q
  <2> SUFFICES ASSUME NEW m \in T, X = 0 .. m PROVE FALSE
    BY <1>2
  <2>1. PICK k \in T : k < m
    OBVIOUS
  <2>2. k \in Nat /\ m \in Nat
    OBVIOUS
  <2>3. 0 .. k \subseteq X /\ m \in X /\ m \notin 0 .. k
    BY <2>1, <2>2
  <2>4. QED
    BY <1>2, <1>4, <2>3
<1>5. SUBSET I \subseteq Q
  BY <1>3, <1>4, SubsetInduction
<1>6. QED
  BY <1>1, <1>2, <1>5

(* Induction for a set of natural numbers.                                 *)
LEMMA SetInduction ==
  ASSUME NEW S, 0 \in S, \A n \in Nat : n \in S => n + 1 \in S
  PROVE  Nat \subseteq S
<1> SUFFICES ASSUME Nat \ S # {} PROVE FALSE
  OBVIOUS
<1>1. PICK n \in Nat \ S : \A y \in Nat \ S : n <= y
  BY LeastNatural
<1>2. n # 0 /\ n - 1 \in Nat /\ n - 1 \notin Nat \ S
  BY <1>1
<1>3. QED
  BY <1>1, <1>2
(* R has no infinite descent in S; and B, which yields the next function   *)
(* from the last, looks at x only where R leads down from x.               *)
NoDescent(R, S) == \A T \in SUBSET S : T # {} => \E x \in T : \A y \in T : <<y, x>> \notin R
Recurs(B, R, S, V) ==
  /\ B \in [[S -> V] -> [S -> V]] /\ V # {}
  /\ \A g, h \in [S -> V] : \A x \in S :
       (\A y \in S : <<y, x>> \in R => g[y] = h[y]) => B[g][x] = B[h][x]

(* A function can be defined on a finite set by recursion along a relation *)
(* that has no infinite descent.                                           *)
LEMMA Definable ==
  ASSUME NEW S, IsFiniteSet(S), NEW R, NoDescent(R, S), NEW V, NEW B, Recurs(B, R, S, V)
  PROVE  \E g \in [S -> V] : g = B[g]
<1> USE DEF NoDescent, Recurs
<1> DEFINE Closed(D) == \A x \in D : \A y \in S : <<y, x>> \in R => y \in D
           Solves(g, D) == \A x \in D : g[x] = B[g][x]
           Solvable(D) == Closed(D) /\ \E g \in [S -> V] : Solves(g, D)
           Goal == \E g \in [S -> V] : g = B[g]
<1>1. PICK Q : Q = {X \in SUBSET S : Solvable(S \ X) => Goal}
  OBVIOUS
<1>2. ASSUME NEW X \in SUBSET S, \A Y \in SUBSET X : Y # X => Y \in Q
      PROVE  X \in Q
  <2> SUFFICES ASSUME Closed(S \ X), NEW g \in [S -> V], Solves(g, S \ X) PROVE Goal
    BY <1>1
  <2>1. CASE X = {}
    <3>1. B[g] \in [S -> V]
      OBVIOUS
    <3>2. \A x \in S : g[x] = B[g][x]
      BY <2>1
    <3>3. g = B[g]
      BY <3>1, <3>2
    <3>4. QED
      BY <3>3
  <2>2. CASE X # {}
    <3>1. PICK x \in X : \A y \in X : <<y, x>> \notin R
      BY <2>2
    <3>2. B[g][x] \in V
      OBVIOUS
    <3>3. PICK h : h = [g EXCEPT ![x] = B[g][x]]
      OBVIOUS
    <3>4. h \in [S -> V] /\ h[x] = B[g][x] /\ \A y \in S \ {x} : h[y] = g[y]
      BY <3>2, <3>3
    <3>5. Closed(S \ (X \ {x}))
      BY <3>1
    <3>6. \A z \in S \ (X \ {x}) : \A y \in S : <<y, z>> \in R => g[y] = h[y]
      BY <3>1, <3>4
    <3>7. \A z \in S \ (X \ {x}) : B[g][z] = B[h][z]
      BY <3>4, <3>6
    <3>8. Solves(h, S \ (X \ {x}))
      BY <3>4, <3>7
    <3>9. Solvable(S \ (X \ {x}))
      BY <3>4, <3>5, <3>8
    <3>10. X \ {x} \in Q
      BY <1>2, <3>1
    <3>11. QED
      BY <1>1, <3>9, <3>10
  <2>3. QED
    BY <2>1, <2>2
<1>3. S \in Q
  <2>1. SUBSET S \subseteq Q
    BY <1>2, SubsetInduction
  <2>2. QED
    BY <2>1
<1>4. Solvable(S \ S)
  <2>1. PICK v \in V : TRUE
    OBVIOUS
  <2>2. [x \in S |-> v] \in [S -> V]
    OBVIOUS
  <2>3. QED
    BY <2>2
<1>5. QED
  BY <1>1, <1>3, <1>4
(* Induction along an interval, for a set of numbers.                      *)
LEMMA IntervalInduction ==
  ASSUME NEW m \in Nat, NEW n \in Nat, NEW S, m \in S,
         \A i \in m .. n : i # n /\ i \in S => i + 1 \in S
  PROVE  m .. n \subseteq S
<1> SUFFICES ASSUME NEW k \in m .. n, k \notin S PROVE FALSE
  OBVIOUS
<1>1. PICK T : T = {i \in m .. n : i \notin S}
  OBVIOUS
<1>2. T \in SUBSET Nat /\ T # {}
  BY <1>1
<1>3. PICK x \in T : \A y \in T : x <= y
  BY <1>2, LeastNatural
<1>4. x \in m .. n /\ x # m
  BY <1>1, <1>3
<1>5. x - 1 \in m .. n /\ x - 1 # n /\ x - 1 \notin T /\ (x - 1) + 1 = x
  BY <1>3, <1>4
<1>6. QED
  BY <1>1, <1>3, <1>5

(* Recursion along an interval.                                            *)
Steps(S) == {e \in S \X S : e[2] = e[1] + 1}

(* A function can be defined along a finite set of numbers, each value     *)
(* from the one before.                                                    *)
LEMMA IntervalDefinable ==
  ASSUME NEW S \in SUBSET Nat, IsFiniteSet(S), NEW V, NEW B,
         Recurs(B, Steps(S), S, V)
  PROVE  \E g \in [S -> V] : g = B[g]
<1>1. PICK R : R = Steps(S)
  OBVIOUS
<1>2. IsFiniteSet(S)
  OBVIOUS
<1>3. NoDescent(R, S)
  <2> SUFFICES ASSUME NEW T \in SUBSET S, T # {}
               PROVE  \E x \in T : \A y \in T : <<y, x>> \notin R
    BY DEF NoDescent
  <2>1. PICK x \in T : \A y \in T : x <= y
    BY LeastNatural
  <2>2. \A y \in T : <<y, x>> \notin R
    BY <1>1, <2>1 DEF Steps
  <2>3. QED
    BY <2>2
<1>4. Recurs(B, R, S, V)
  BY <1>1
<1>5. QED
  BY ONLY <1>2, <1>3, <1>4, Definable

(* A value changed n times over, by F.                                     *)
Changes(F, n, v, V) == n \in Nat /\ v \in V /\ F \in [V \X (1 .. n) -> V]
Iterated(g, F, n, v, V) ==
  g \in [0 .. n -> V] /\ \A i \in 0 .. n : g[i] = IF i = 0 THEN v ELSE F[<<g[i - 1], i>>]

(* There is a sequence of the values in between.                           *)
LEMMA Iterates ==
  ASSUME NEW F, NEW n, NEW v, NEW V, Changes(F, n, v, V)
  PROVE  \E g : Iterated(g, F, n, v, V)
<1> USE DEF Changes
<1>1. PICK S : S = 0 .. n
  OBVIOUS
<1>2. \A i \in S : i # 0 => i - 1 \in S /\ (i - 1) + 1 = i /\ i \in 1 .. n
  BY <1>1
<1>3. PICK B : B = [g \in [S -> V] |-> [i \in S |-> IF i = 0 THEN v ELSE F[<<g[i - 1], i>>]]]
  OBVIOUS
<1>4. ASSUME NEW g \in [S -> V], NEW i \in S
      PROVE  /\ B[g][i] = IF i = 0 THEN v ELSE F[<<g[i - 1], i>>]
             /\ B[g][i] \in V
  <2>1. B[g][i] = IF i = 0 THEN v ELSE F[<<g[i - 1], i>>]
    BY <1>3
  <2>2. i # 0 => <<g[i - 1], i>> \in V \X (1 .. n)
    BY <1>2
  <2>3. QED
    BY <2>1, <2>2
<1>5. \A g \in [S -> V] : B[g] \in [S -> V]
  BY <1>3, <1>4
<1>6. Recurs(B, Steps(S), S, V)
  <2>1. B \in [[S -> V] -> [S -> V]] /\ V # {}
    BY <1>3, <1>5
  <2>2. ASSUME NEW g \in [S -> V], NEW h \in [S -> V], NEW i \in S,
               \A y \in S : <<y, i>> \in Steps(S) => g[y] = h[y]
        PROVE  B[g][i] = B[h][i]
    <3>1. i # 0 => g[i - 1] = h[i - 1]
      BY <1>2, <2>2 DEF Steps
    <3>2. QED
      BY <1>4, <3>1
  <2>3. QED
    BY <2>1, <2>2 DEF Recurs
<1>7. PICK g \in [S -> V] : g = B[g]
  <2>1. S \in SUBSET Nat /\ IsFiniteSet(S)
    BY <1>1, FS_Interval
  <2>2. QED
    BY ONLY <1>6, <2>1, IntervalDefinable
<1>8. \A i \in S : g[i] = IF i = 0 THEN v ELSE F[<<g[i - 1], i>>]
  BY <1>4, <1>7
<1>9. QED
  BY <1>1, <1>7, <1>8 DEF Iterated

(* The elements of a sequence.                                             *)
LEMMA RangeOf ==
  ASSUME NEW V, NEW s \in Seq(V)
  PROVE  /\ \A i \in 1 .. Len(s) : s[i] \in ToSet(s) /\ s[i] \in V
         /\ \A x \in ToSet(s) : x \in V /\ \E i \in 1 .. Len(s) : x = s[i]
  BY DEF ToSet

(* Sequences one after another.                                            *)
LEMMA ConcatRange ==
  ASSUME NEW V, NEW a \in Seq(V), NEW b \in Seq(V)
  PROVE  /\ a \o b \in Seq(V)
         /\ ToSet(a \o b) = ToSet(a) \cup ToSet(b)
<1>1. PICK c \in Seq(V) :
        /\ c = a \o b /\ Len(c) = Len(a) + Len(b)
        /\ \A i \in 1 .. Len(a) + Len(b) : c[i] = IF i <= Len(a) THEN a[i] ELSE b[i - Len(a)]
  <2>1. /\ a \o b \in Seq(V) /\ Len(a \o b) = Len(a) + Len(b)
        /\ \A i \in 1 .. Len(a) + Len(b) : (a \o b)[i] = IF i <= Len(a) THEN a[i] ELSE b[i - Len(a)]
    BY ConcatProperties
  <2>2. QED
    BY <2>1
<1>2. /\ \A i \in 1 .. Len(a) : i \in 1 .. Len(c) /\ c[i] = a[i]
      /\ \A i \in 1 .. Len(b) : Len(a) + i \in 1 .. Len(c) /\ c[Len(a) + i] = b[i]
  BY <1>1
<1>3. \A i \in 1 .. Len(c) :
        \/ c[i] = a[i] /\ i \in 1 .. Len(a)
        \/ c[i] = b[i - Len(a)] /\ i - Len(a) \in 1 .. Len(b)
  BY <1>1
<1>4. /\ \A i \in 1 .. Len(c) : c[i] \in ToSet(c)
      /\ \A i \in 1 .. Len(a) : a[i] \in ToSet(a)
      /\ \A i \in 1 .. Len(b) : b[i] \in ToSet(b)
  BY RangeOf
<1>5. ASSUME NEW x \in ToSet(c) PROVE x \in ToSet(a) \cup ToSet(b)
  <2>1. PICK i \in 1 .. Len(c) : x = c[i]
    BY RangeOf
  <2>2. QED
    BY <1>3, <1>4, <2>1
<1>6. ASSUME NEW x \in ToSet(a) PROVE x \in ToSet(c)
  <2>1. PICK i \in 1 .. Len(a) : x = a[i]
    BY RangeOf
  <2>2. QED
    BY <1>2, <1>4, <2>1
<1>7. ASSUME NEW x \in ToSet(b) PROVE x \in ToSet(c)
  <2>1. PICK i \in 1 .. Len(b) : x = b[i]
    BY RangeOf
  <2>2. QED
    BY <1>2, <1>4, <2>1
<1>8. QED
  BY <1>1, <1>5, <1>6, <1>7

(* Two sequences without repetition, with no element in common, have none  *)
(* one after the other.                                                    *)
LEMMA ConcatInjective ==
  ASSUME NEW V, NEW a \in Seq(V), NEW b \in Seq(V), IsInjective(a), IsInjective(b),
         ToSet(a) \cap ToSet(b) = {}
  PROVE  IsInjective(a \o b)
<1>1. /\ a \o b \in Seq(V) /\ Len(a \o b) = Len(a) + Len(b)
      /\ \A i \in 1 .. Len(a) + Len(b) : (a \o b)[i] = IF i <= Len(a) THEN a[i] ELSE b[i - Len(a)]
  BY ConcatProperties
<1> SUFFICES ASSUME NEW i \in 1 .. Len(a) + Len(b), NEW k \in 1 .. Len(a) + Len(b),
                    (a \o b)[i] = (a \o b)[k]
             PROVE  i = k
  BY <1>1 DEF IsInjective
<1>2. \A x \in 1 .. Len(a), y \in 1 .. Len(b) : a[x] # b[y]
  BY RangeOf
<1>3. CASE i <= Len(a) /\ k <= Len(a)
  BY <1>1, <1>3 DEF IsInjective
<1>4. CASE i <= Len(a) /\ k > Len(a)
  <2>1. i \in 1 .. Len(a) /\ k - Len(a) \in 1 .. Len(b) /\ a[i] = b[k - Len(a)]
    BY <1>1, <1>4
  <2>2. QED
    BY <1>2, <2>1
<1>5. CASE i > Len(a) /\ k <= Len(a)
  <2>1. k \in 1 .. Len(a) /\ i - Len(a) \in 1 .. Len(b) /\ a[k] = b[i - Len(a)]
    BY <1>1, <1>5
  <2>2. QED
    BY <1>2, <2>1
<1>6. CASE i > Len(a) /\ k > Len(a)
  <2>1. i - Len(a) \in 1 .. Len(b) /\ k - Len(a) \in 1 .. Len(b) /\ b[i - Len(a)] = b[k - Len(a)]
    BY <1>1, <1>6
  <2>2. i - Len(a) = k - Len(a)
    BY <2>1 DEF IsInjective
  <2>3. QED
    BY <2>2
<1>7. QED
  BY <1>3, <1>4, <1>5, <1>6
(* Parts put together, one after the other.                                *)
Accumulated(F, s, S) == F = [i \in S |-> IF i = 1 THEN s[i] ELSE F[i - 1] \o s[i]]

(* There is such a sequence of sums, from any finite sequence of           *)
(* sequences.                                                              *)
LEMMA Accumulates ==
  ASSUME NEW n \in Nat, n # 0, NEW W, NEW s \in [1 .. n -> W], \A a, b \in W : a \o b \in W
  PROVE  \E F \in [1 .. n -> W] : Accumulated(F, s, 1 .. n)
<1>1. PICK S : S = 1 .. n
  OBVIOUS
<1>2. PICK B : B = [g \in [S -> W] |-> [i \in S |-> IF i = 1 THEN s[i] ELSE g[i - 1] \o s[i]]]
  OBVIOUS
<1>3. \A i \in S : i # 1 => i - 1 \in S /\ (i - 1) + 1 = i
  BY <1>1
<1>4. Recurs(B, Steps(S), S, W)
  <2>1. \A g \in [S -> W] : \A i \in S : B[g][i] = IF i = 1 THEN s[i] ELSE g[i - 1] \o s[i]
    BY <1>2
  <2>2. \A g \in [S -> W] : \A i \in S : (IF i = 1 THEN s[i] ELSE g[i - 1] \o s[i]) \in W
    BY <1>1, <1>3
  <2>3. B \in [[S -> W] -> [S -> W]]
    BY <1>2, <2>2
  <2>4. ASSUME NEW g \in [S -> W], NEW h \in [S -> W], NEW i \in S,
               \A y \in S : <<y, i>> \in Steps(S) => g[y] = h[y]
        PROVE  B[g][i] = B[h][i]
    <3>1. CASE i = 1
      BY <2>1, <3>1
    <3>2. CASE i # 1
      <4>1. g[i - 1] = h[i - 1]
        BY <1>3, <2>4, <3>2 DEF Steps
      <4>2. QED
        BY <2>1, <4>1
    <3>3. QED
      BY <3>1, <3>2
  <2>5. W # {}
    BY <1>1
  <2>6. QED
    BY <2>3, <2>4, <2>5 DEF Recurs
<1>5. PICK F \in [S -> W] : F = B[F]
  <2>1. S \in SUBSET Nat /\ IsFiniteSet(S)
    BY <1>1, FS_Interval
  <2>2. QED
    BY ONLY <1>4, <2>1, IntervalDefinable
<1>6. Accumulated(F, s, S)
  BY <1>2, <1>5 DEF Accumulated
<1>7. QED
  BY <1>1, <1>6

(* FlattenSeq, one part after the other.                                   *)
Flattens(F, s, n, V) ==
  /\ F \in [1 .. n -> Seq(V)]
  /\ F[1] = s[1]
  /\ \A i \in 1 .. n : i # n => F[i + 1] = F[i] \o s[i + 1]
  /\ FlattenSeq(s) = F[n]

(* FlattenSeq is the last of them.                                         *)
LEMMA FlattenSteps ==
  ASSUME NEW V, NEW n \in Nat, n # 0, NEW s \in [1 .. n -> Seq(V)]
  PROVE  \E F : Flattens(F, s, n, V)
<1>1. PICK W : W = Seq(V)
  OBVIOUS
<1>2. (\A a, b \in W : a \o b \in W) /\ s \in [1 .. n -> W]
  BY <1>1, ConcatRange
<1>3. PICK F \in [1 .. n -> W] : Accumulated(F, s, 1 .. n)
  BY <1>2, Accumulates
<1>4. Len(s) = n
  OBVIOUS
<1>5. PICK G : G = CHOOSE flatten : flatten = [i \in 1 .. n |-> IF i = 1 THEN s[i] ELSE flatten[i - 1] \o s[i]]
  OBVIOUS
<1>6. FlattenSeq(s) = G[n]
  BY <1>4, <1>5 DEF FlattenSeq
<1>7. G = [i \in 1 .. n |-> IF i = 1 THEN s[i] ELSE G[i - 1] \o s[i]]
  BY ONLY <1>3, <1>5, Zenon DEF Accumulated
<1>8. G[1] = s[1]
  BY <1>7
<1>9. ASSUME NEW i \in 1 .. n, i # n PROVE G[i + 1] = G[i] \o s[i + 1]
  <2>1. i + 1 \in 1 .. n /\ i + 1 # 1 /\ (i + 1) - 1 = i
    BY <1>9
  <2>2. QED
    BY <1>7, <2>1
<1>10. 1 .. n \subseteq {i \in 1 .. n : G[i] \in W}
  <2>1. PICK T : T = {i \in 1 .. n : G[i] \in W}
    OBVIOUS
  <2>2. 1 \in T
    BY <1>2, <1>8, <2>1
  <2>3. ASSUME NEW i \in 1 .. n, i # n, i \in T PROVE i + 1 \in T
    <3>1. i + 1 \in 1 .. n
      BY <2>3
    <3>2. G[i] \in W /\ s[i + 1] \in W
      BY <1>2, <2>1, <2>3, <3>1
    <3>3. G[i + 1] \in W
      BY <1>2, <1>9, <2>3, <3>2
    <3>4. QED
      BY <2>1, <3>1, <3>3
  <2>4. 1 .. n \subseteq T
    BY <2>2, <2>3, IntervalInduction
  <2>5. QED
    BY <2>1, <2>4
<1>11. G \in [1 .. n -> W]
  <2>1. \A i \in 1 .. n : G[i] \in W
    BY <1>10
  <2>2. QED
    BY <1>7, <2>1
<1>12. QED
  BY <1>1, <1>6, <1>8, <1>9, <1>11 DEF Flattens

(* A sequence of sequences put together holds what each of them holds.     *)
LEMMA FlattenRange ==
  ASSUME NEW V, NEW n \in Nat, NEW s \in [1 .. n -> Seq(V)]
  PROVE  FlattenSeq(s) \in Seq(V) /\ ToSet(FlattenSeq(s)) = UNION {ToSet(s[i]) : i \in 1 .. n}
<1>1. CASE n = 0
  <2>1. s = <<>> /\ 1 .. n = {}
    BY <1>1
  <2>2. FlattenSeq(s) = <<>>
    BY <2>1 DEF FlattenSeq
  <2>3. ToSet(<<>>) = {}
    BY DEF ToSet
  <2>4. <<>> \in Seq(V) /\ UNION {ToSet(s[i]) : i \in 1 .. n} = {}
    BY <2>1
  <2>5. QED
    BY <2>2, <2>3, <2>4
<1>2. CASE n # 0
  <2>1. PICK F : Flattens(F, s, n, V)
    BY <1>2, FlattenSteps
  <2> USE DEF Flattens
  <2>2. PICK T : T = {k \in 1 .. n : ToSet(F[k]) = UNION {ToSet(s[i]) : i \in 1 .. k}}
    OBVIOUS
  <2>3. 1 \in T
    BY <1>2, <2>1, <2>2
  <2>4. ASSUME NEW k \in 1 .. n, k # n, k \in T PROVE k + 1 \in T
    <3>1. k + 1 \in 1 .. n /\ 1 .. (k + 1) = (1 .. k) \cup {k + 1}
      BY <2>4
    <3>2. F[k] \in Seq(V) /\ s[k + 1] \in Seq(V)
      BY <2>1, <3>1
    <3>3. ToSet(F[k + 1]) = ToSet(F[k]) \cup ToSet(s[k + 1])
      <4>1. F[k + 1] = F[k] \o s[k + 1]
        BY <2>1, <2>4
      <4>2. QED
        BY ONLY <3>2, <4>1, ConcatRange
    <3>4. ToSet(F[k]) = UNION {ToSet(s[i]) : i \in 1 .. k}
      BY <2>2, <2>4
    <3>5. ToSet(F[k + 1]) = UNION {ToSet(s[i]) : i \in 1 .. (k + 1)}
      BY <3>1, <3>3, <3>4
    <3>6. QED
      BY <2>2, <3>1, <3>5
  <2>5. 1 .. n \subseteq T
    <3>1. 1 \in Nat /\ n \in Nat
      OBVIOUS
    <3>2. QED
      BY ONLY <2>3, <2>4, <3>1, IntervalInduction
  <2>6. n \in T /\ F[n] \in Seq(V)
    BY <1>2, <2>1, <2>5
  <2>7. QED
    BY <2>1, <2>2, <2>6
<1>3. QED
  BY <1>1, <1>2

(* If no two of them share anything, and none has anything twice, nothing  *)
(* is in it twice.                                                         *)
LEMMA FlattenInjective ==
  ASSUME NEW V, NEW n \in Nat, NEW s \in [1 .. n -> Seq(V)],
         \A i \in 1 .. n : IsInjective(s[i]),
         \A i, k \in 1 .. n : i # k => ToSet(s[i]) \cap ToSet(s[k]) = {}
  PROVE  IsInjective(FlattenSeq(s))
<1>1. CASE n = 0
  BY <1>1 DEF FlattenSeq, IsInjective
<1>2. CASE n # 0
  <2>1. PICK F : Flattens(F, s, n, V)
    BY <1>2, FlattenSteps
  <2> USE DEF Flattens
  <2>2. PICK T : T = {k \in 1 .. n : /\ ToSet(F[k]) = UNION {ToSet(s[i]) : i \in 1 .. k}
                                     /\ IsInjective(F[k])}
    OBVIOUS
  <2>3. 1 \in T
    BY <1>2, <2>1, <2>2
  <2>4. ASSUME NEW k \in 1 .. n, k # n, k \in T PROVE k + 1 \in T
    <3>1. k + 1 \in 1 .. n /\ 1 .. (k + 1) = (1 .. k) \cup {k + 1} /\ k + 1 \notin 1 .. k
      BY <2>4
    <3>2. F[k] \in Seq(V) /\ s[k + 1] \in Seq(V)
      BY <2>1, <3>1
    <3>3. F[k + 1] = F[k] \o s[k + 1]
      BY <2>1, <2>4
    <3>4. ToSet(F[k + 1]) = ToSet(F[k]) \cup ToSet(s[k + 1])
      BY ONLY <3>2, <3>3, ConcatRange
    <3>5. ToSet(F[k]) = UNION {ToSet(s[i]) : i \in 1 .. k} /\ IsInjective(F[k])
      BY <2>2, <2>4
    <3>6. ToSet(F[k + 1]) = UNION {ToSet(s[i]) : i \in 1 .. (k + 1)}
      BY <3>1, <3>4, <3>5
    <3>7. \A i \in 1 .. k : ToSet(s[i]) \cap ToSet(s[k + 1]) = {}
      BY <3>1
    <3>8. ToSet(F[k]) \cap ToSet(s[k + 1]) = {}
      BY <3>5, <3>7
    <3>9. IsInjective(s[k + 1])
      BY <3>1
    <3>10. IsInjective(F[k + 1])
      BY ONLY <3>2, <3>3, <3>5, <3>8, <3>9, ConcatInjective
    <3>11. QED
      BY <2>2, <3>1, <3>6, <3>10
  <2>5. 1 .. n \subseteq T
    <3>1. 1 \in Nat /\ n \in Nat
      OBVIOUS
    <3>2. QED
      BY ONLY <2>3, <2>4, <3>1, IntervalInduction
  <2>6. n \in T
    BY <1>2, <2>5
  <2>7. QED
    BY <2>1, <2>2, <2>6
<1>3. QED
  BY <1>1, <1>2

(* What holds of some sequences, and of any two put together, holds of any *)
(* number put together.                                                    *)
LEMMA FlattenClosed ==
  ASSUME NEW V, NEW n \in Nat, NEW W \in SUBSET Seq(V), <<>> \in W, \A a, b \in W : a \o b \in W,
         NEW s \in [1 .. n -> W]
  PROVE  FlattenSeq(s) \in W
<1>1. CASE n = 0
  <2>1. s = <<>>
    BY <1>1
  <2>2. FlattenSeq(s) = <<>>
    BY <2>1 DEF FlattenSeq
  <2>3. QED
    BY <2>2
<1>2. CASE n # 0
  <2>1. s \in [1 .. n -> Seq(V)]
    OBVIOUS
  <2>2. PICK F : Flattens(F, s, n, V)
    BY <1>2, <2>1, FlattenSteps
  <2>3. /\ F[1] = s[1] /\ FlattenSeq(s) = F[n]
        /\ \A i \in 1 .. n : i # n => F[i + 1] = F[i] \o s[i + 1]
    BY <2>2 DEF Flattens
  <2>4. PICK T : T = {k \in 1 .. n : F[k] \in W}
    OBVIOUS
  <2>5. 1 \in T
    BY <1>2, <2>3, <2>4
  <2>6. ASSUME NEW k \in 1 .. n, k # n, k \in T PROVE k + 1 \in T
    <3>1. k + 1 \in 1 .. n
      BY <2>6
    <3>2. F[k] \in W /\ s[k + 1] \in W /\ F[k + 1] = F[k] \o s[k + 1]
      BY <2>3, <2>4, <2>6, <3>1
    <3>3. F[k + 1] \in W
      BY <3>2
    <3>4. QED
      BY <2>4, <3>1, <3>3
  <2>7. 1 .. n \subseteq T
    <3>1. 1 \in Nat /\ n \in Nat
      OBVIOUS
    <3>2. QED
      BY ONLY <2>5, <2>6, <3>1, IntervalInduction
  <2>8. n \in T
    BY <1>2, <2>7
  <2>9. QED
    BY <2>3, <2>4, <2>8
<1>3. QED
  BY <1>1, <1>2
=============================================================================
