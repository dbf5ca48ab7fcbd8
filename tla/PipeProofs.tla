----------------------------- MODULE PipeProofs -----------------------------
(***************************************************************************)
(* Proofs about Pipe: PipeInv is an inductive invariant, for any filters,  *)
(* chains and forks that a program can build.  First what the recursive    *)
(* walks over the tree compute, from FiniteRecursion; then one lemma for   *)
(* each call; then that what the constructors leave are trees; and the     *)
(* theorems.                                                               *)
(*                                                                         *)
(* On top of it, that Pipe implements PipePromise.  First what the filters *)
(* before a queue hold back from it, and that what a filter sends is added *)
(* there once; then that the end of a message moves data only, which takes *)
(* that finish_msg comes to a filter after all that are above it; then     *)
(* StoreInv, that data is only where it may be; and last the steps, call   *)
(* by call.                                                                *)
(***************************************************************************)
EXTENDS Pipe, FiniteRecursion

(* What a port may lead to, and the ports of all filters.                  *)
Nodes == Filters \cup Queues \cup {Null}
IsPorts(nx) == nx \in [Filters -> Seq(Nodes)]

(* Recursion down the tree.                                                *)
TreeRecurs(B, nx, V) ==
  /\ B \in [[Filters -> V] -> [Filters -> V]] /\ V # {}
  /\ \A g, h \in [Filters -> V] : \A x \in Filters :
       (\A j \in DOMAIN nx[x] : nx[x][j] \in Filters => g[nx[x][j]] = h[nx[x][j]])
       => B[g][x] = B[h][x]

(* A function that takes its value at a filter from those at the filters   *)
(* behind its ports is defined on every tree.                              *)
LEMMA TreeDefinable ==
  ASSUME NEW nx, Acyclic(nx), NEW V, NEW B, TreeRecurs(B, nx, V)
  PROVE  \E g \in [Filters -> V] : g = B[g]
<1>1. PICK R : R = {e \in Filters \X Filters : \E j \in DOMAIN nx[e[2]] : nx[e[2]][j] = e[1]}
  OBVIOUS
<1>2. \A x \in Filters : \A j \in DOMAIN nx[x] : nx[x][j] \in Filters => <<nx[x][j], x>> \in R
  BY <1>1
<1>3. NoDescent(R, Filters)
  <2> SUFFICES ASSUME NEW T \in SUBSET Filters, T # {}
               PROVE  \E x \in T : \A y \in T : <<y, x>> \notin R
    BY DEF NoDescent
  <2>1. PICK x \in T : \A j \in DOMAIN nx[x] : nx[x][j] \notin T
    BY DEF Acyclic
  <2>2. \A y \in T : <<y, x>> \notin R
    BY <1>1, <2>1
  <2>3. QED
    BY <2>2
<1>4. Recurs(B, R, Filters, V)
  BY <1>2 DEF Recurs, TreeRecurs
<1>5. IsFiniteSet(Filters)
  BY FiltersAssumption
<1>6. QED
  BY ONLY <1>3, <1>4, <1>5, Definable

(* Seen from below: among some filters one has no parent.                  *)
LEMMA HighestFilter ==
  ASSUME NEW nx, Acyclic(nx), NEW T \in SUBSET Filters, T # {}
  PROVE  \E x \in T : \A y \in T : \A j \in DOMAIN nx[y] : nx[y][j] # x
<1> DEFINE High(U) == \E x \in U : \A y \in U : \A j \in DOMAIN nx[y] : nx[y][j] # x
<1>1. PICK Q : Q = {U \in SUBSET Filters : U # {} => High(U)}
  OBVIOUS
<1>2. ASSUME NEW U \in SUBSET Filters, \A Y \in SUBSET U : Y # U => Y \in Q
      PROVE  U \in Q
  <2>1. SUFFICES ASSUME U # {} PROVE High(U)
    BY <1>1
  <2>2. PICK x \in U : \A j \in DOMAIN nx[x] : nx[x][j] \notin U
    BY <2>1 DEF Acyclic
  <2>3. CASE U = {x}
    BY <2>2, <2>3
  <2>4. CASE U # {x}
    <3>1. U \ {x} # {} /\ U \ {x} \in SUBSET U /\ U \ {x} # U
      BY <2>4
    <3>2. U \ {x} \in Q
      BY <1>2, <3>1
    <3>3. PICK z \in U \ {x} : \A y \in U \ {x} : \A j \in DOMAIN nx[y] : nx[y][j] # z
      BY <1>1, <3>1, <3>2
    <3>4. QED
      BY <2>2, <3>3
  <2>5. QED
    BY <2>3, <2>4
<1>3. IsFiniteSet(Filters)
  BY FiltersAssumption
<1>4. SUBSET Filters \subseteq Q
  BY ONLY <1>2, <1>3, SubsetInduction
<1>5. QED
  BY <1>1, <1>4

-----------------------------------------------------------------------------
(* attach                                                                  *)

(* attach goes from a filter to what is behind its current port, and stops *)
(* where that is no filter.                                                *)
LEMMA LastEquation ==
  ASSUME NEW nx, Acyclic(nx), IsPorts(nx), \A f \in Filters : nx[f] # <<>>
  PROVE  /\ LastOf(nx) \in [Filters -> Filters]
         /\ \A g \in Filters :
              LastOf(nx)[g] = IF nx[g][1] \in Filters THEN LastOf(nx)[nx[g][1]] ELSE g
<1> DEFINE Step(last) == [g \in Filters |-> IF IsFilter(nx[g][1]) THEN last[nx[g][1]] ELSE g]
<1>1. PICK B : B = [last \in [Filters -> Filters] |-> Step(last)]
  OBVIOUS
<1>2. \A g \in Filters : 1 \in DOMAIN nx[g]
  BY DEF IsPorts
<1>3. TreeRecurs(B, nx, Filters)
  <2>1. \A last \in [Filters -> Filters] : B[last] = Step(last) /\ Step(last) \in [Filters -> Filters]
    BY <1>1 DEF IsFilter
  <2>2. B \in [[Filters -> Filters] -> [Filters -> Filters]]
    BY <1>1, <2>1
  <2>3. Filters # {}
    BY FiltersAssumption
  <2>4. ASSUME NEW g \in [Filters -> Filters], NEW h \in [Filters -> Filters], NEW x \in Filters,
               \A j \in DOMAIN nx[x] : nx[x][j] \in Filters => g[nx[x][j]] = h[nx[x][j]]
        PROVE  B[g][x] = B[h][x]
    <3>1. nx[x][1] \in Filters => g[nx[x][1]] = h[nx[x][1]]
      BY <1>2, <2>4
    <3>2. \A l \in [Filters -> Filters] :
            B[l][x] = IF nx[x][1] \in Filters THEN l[nx[x][1]] ELSE x
      <4>1. \A l \in [Filters -> Filters] :
              Step(l)[x] = IF nx[x][1] \in Filters THEN l[nx[x][1]] ELSE x
        BY DEF IsFilter
      <4> HIDE DEF Step
      <4>2. QED
        BY <2>1, <4>1
    <3>3. QED
      BY <3>1, <3>2
  <2>5. QED
    BY <2>2, <2>3, <2>4 DEF TreeRecurs
<1>4. PICK last \in [Filters -> Filters] : last = B[last]
  BY <1>3, TreeDefinable
<1>5. last = Step(last)
  BY <1>1, <1>4
<1>6. PICK G : G = CHOOSE l : l = Step(l)
  OBVIOUS
<1>7. G = Step(G)
  BY ONLY <1>5, <1>6, Zenon
<1>8. LastOf(nx) = G
  BY <1>6 DEF LastOf
<1>9. \A g \in Filters : G[g] = IF nx[g][1] \in Filters THEN G[nx[g][1]] ELSE g
  BY <1>7 DEF IsFilter
<1>10. \A g \in Filters : G[g] \in Filters
  <2> DEFINE T == {g \in Filters : G[g] \notin Filters}
  <2>1. SUFFICES ASSUME T # {} PROVE FALSE
    OBVIOUS
  <2>2. PICK g \in T : \A j \in DOMAIN nx[g] : nx[g][j] \notin T
    BY <2>1 DEF Acyclic
  <2>3. QED
    BY <1>2, <1>9, <2>2
<1>11. QED
  BY <1>7, <1>8, <1>9, <1>10

(* The filters on the way from g down to its last one: each but g is       *)
(* behind port 1 of one before it.                                         *)
IsWay(W, nx, g) ==
  /\ W \subseteq Filters /\ g \in W /\ LastOf(nx)[g] \in W
  /\ \A x \in W \ {g} : \E y \in W : x = nx[y][1]

(* There is a way down to the last filter.                                 *)
LEMMA WayToLast ==
  ASSUME NEW nx, Acyclic(nx), IsPorts(nx), \A f \in Filters : nx[f] # <<>>, NEW g \in Filters
  PROVE  \E W : IsWay(W, nx, g)
<1> DEFINE T == {f \in Filters : ~ \E W : IsWay(W, nx, f)}
<1>1. SUFFICES ASSUME T # {} PROVE FALSE
  OBVIOUS
<1>2. PICK f \in T : \A j \in DOMAIN nx[f] : nx[f][j] \notin T
  BY <1>1 DEF Acyclic
<1>3. 1 \in DOMAIN nx[f]
  BY DEF IsPorts
<1>4. LastOf(nx)[f] = IF nx[f][1] \in Filters THEN LastOf(nx)[nx[f][1]] ELSE f
  BY LastEquation
<1>5. CASE nx[f][1] \in Filters
  <2>1. PICK W : IsWay(W, nx, nx[f][1])
    BY <1>2, <1>3, <1>5
  <2>2. IsWay(W \cup {f}, nx, f)
    BY <1>4, <1>5, <2>1 DEF IsWay
  <2>3. QED
    BY <2>2
<1>6. CASE nx[f][1] \notin Filters
  <2>1. IsWay({f}, nx, f)
    BY <1>4, <1>6 DEF IsWay
  <2>2. QED
    BY <2>1
<1>7. QED
  BY <1>5, <1>6

(* The last filter's port 1 leads to no filter.                            *)
LEMMA LastIsLast ==
  ASSUME NEW nx, Acyclic(nx), IsPorts(nx), \A f \in Filters : nx[f] # <<>>, NEW g \in Filters
  PROVE  LastOf(nx)[g] \in Filters /\ nx[LastOf(nx)[g]][1] \notin Filters
<1> DEFINE T == {f \in Filters : nx[LastOf(nx)[f]][1] \in Filters}
<1>1. SUFFICES ASSUME T # {} PROVE FALSE
  BY LastEquation
<1>2. PICK f \in T : \A j \in DOMAIN nx[f] : nx[f][j] \notin T
  BY <1>1 DEF Acyclic
<1>3. 1 \in DOMAIN nx[f]
  BY DEF IsPorts
<1>4. LastOf(nx)[f] = IF nx[f][1] \in Filters THEN LastOf(nx)[nx[f][1]] ELSE f
  BY LastEquation
<1>5. QED
  BY <1>2, <1>3, <1>4

(* Attaching a root to another tree keeps the trees trees: g becomes the   *)
(* child of f's last filter and everything else stays where it is.         *)
LEMMA AttachedForest ==
  ASSUME NEW nx, Forest(nx), IsPorts(nx), \A f \in Filters : nx[f] # <<>>,
         NEW f \in Filters, NEW g \in Filters, f # g, ~HasParent(nx, f), ~HasParent(nx, g)
  PROVE  /\ Forest(Attached(nx, f, g)) /\ IsPorts(Attached(nx, f, g))
         /\ LastOf(nx)[f] \in Filters /\ nx[LastOf(nx)[f]][1] \notin Filters
         /\ \A x \in Filters : DOMAIN Attached(nx, f, g)[x] = DOMAIN nx[x]
         /\ \A x \in Filters : \A j \in DOMAIN nx[x] :
              Attached(nx, f, g)[x][j] = IF x = LastOf(nx)[f] /\ j = 1 THEN g ELSE nx[x][j]
<1> DEFINE l == LastOf(nx)[f]
           nx2 == Attached(nx, f, g)
<1>1. l \in Filters /\ nx[l][1] \notin Filters
  BY LastIsLast DEF Forest
<1>2. 1 \in DOMAIN nx[l] /\ nx[l] \in Seq(Nodes) /\ g \in Nodes
  BY <1>1 DEF IsPorts, Nodes
<1>3. /\ nx2 \in [Filters -> Seq(Nodes)]
      /\ \A x \in Filters : DOMAIN nx2[x] = DOMAIN nx[x]
      /\ \A x \in Filters : \A j \in DOMAIN nx[x] :
           nx2[x][j] = IF x = l /\ j = 1 THEN g ELSE nx[x][j]
  <2>1. nx2 = [nx EXCEPT ![l] = [nx[l] EXCEPT ![1] = g]]
    BY DEF Attached
  <2>2. [nx[l] EXCEPT ![1] = g] \in Seq(Nodes)
    BY <1>2
  <2>3. DOMAIN [nx[l] EXCEPT ![1] = g] = DOMAIN nx[l]
        /\ \A j \in DOMAIN nx[l] : [nx[l] EXCEPT ![1] = g][j] = IF j = 1 THEN g ELSE nx[l][j]
    OBVIOUS
  <2>4. nx \in [Filters -> Seq(Nodes)]
    BY DEF IsPorts
  <2>5. QED
    BY <1>1, <2>1, <2>2, <2>3, <2>4
<1> HIDE DEF nx2, l
<1>4. OneParent(nx2)
  <2> SUFFICES ASSUME NEW x \in Filters, NEW y \in Filters, NEW j \in DOMAIN nx2[x], NEW k \in DOMAIN nx2[y],
                      nx2[x][j] = nx2[y][k], nx2[x][j] # Null
               PROVE  x = y /\ j = k
    BY DEF OneParent
  <2>1. nx[x][j] = nx[y][k] /\ nx[x][j] # Null => x = y /\ j = k
    BY <1>3 DEF Forest, OneParent
  <2>2. nx[x][j] # g /\ nx[y][k] # g
    BY <1>3 DEF HasParent
  <2>3. QED
    BY <1>3, <2>1, <2>2
<1>5. Acyclic(nx2)
  <2>1. SUFFICES ASSUME NEW T \in SUBSET Filters, T # {},
                        \A x \in T : \E j \in DOMAIN nx2[x] : nx2[x][j] \in T
                 PROVE  FALSE
    BY DEF Acyclic
  <2>2. PICK W : IsWay(W, nx, f)
    BY WayToLast DEF Forest
  <2>3. \A x \in Filters : \A j \in DOMAIN nx[x] : nx[x][j] \in W => x \in W
    <3> SUFFICES ASSUME NEW x \in Filters, NEW j \in DOMAIN nx[x], nx[x][j] \in W PROVE x \in W
      OBVIOUS
    <3>1. nx[x][j] # f
      BY DEF HasParent
    <3>2. PICK y \in W : nx[x][j] = nx[y][1]
      BY <2>2, <3>1 DEF IsWay
    <3>3. y \in Filters /\ 1 \in DOMAIN nx[y] /\ nx[x][j] # Null
      BY <2>2, FiltersAssumption DEF IsWay, IsPorts
    <3>4. QED
      BY <3>2, <3>3 DEF Forest, OneParent
  <2>4. g \notin W
    BY <2>2 DEF IsWay, IsPorts, HasParent
  <2>5. l \in W
    BY <2>2 DEF IsWay, l
  <2>6. T \subseteq W
    <3>1. SUFFICES ASSUME T \ W # {} PROVE FALSE
      OBVIOUS
    <3>2. PICK x \in T \ W : \A j \in DOMAIN nx[x] : nx[x][j] \notin T \ W
      BY <3>1 DEF Forest, Acyclic
    <3>3. PICK j \in DOMAIN nx2[x] : nx2[x][j] \in T
      BY <2>1
    <3>4. x # l /\ nx2[x][j] = nx[x][j] /\ j \in DOMAIN nx[x]
      BY <1>3, <2>5, <3>2
    <3>5. QED
      BY <2>3, <3>2, <3>3, <3>4
  <2>7. PICK x \in T : \A j \in DOMAIN nx[x] : nx[x][j] \notin T
    BY <2>1 DEF Forest, Acyclic
  <2>8. PICK j \in DOMAIN nx2[x] : nx2[x][j] \in T
    BY <2>1
  <2>9. QED
    BY <1>3, <2>4, <2>6, <2>7, <2>8
<1>6. QED
  BY <1>1, <1>3, <1>4, <1>5 DEF Forest, IsPorts, nx2, l

-----------------------------------------------------------------------------
(* The walks                                                               *)

(* What a walk w finds behind the ports of f.                              *)
Parts(w, nx, f) == [j \in DOMAIN nx[f] |-> IF IsFilter(nx[f][j]) THEN w[nx[f][j]] ELSE <<>>]

(* What is found behind each port is a sequence of filters.                *)
LEMMA PartsType ==
  ASSUME NEW nx, IsPorts(nx), NEW f \in Filters, NEW w \in [Filters -> Seq(Filters)]
  PROVE  /\ Len(nx[f]) \in Nat /\ DOMAIN nx[f] = 1 .. Len(nx[f])
         /\ Parts(w, nx, f) \in [1 .. Len(nx[f]) -> Seq(Filters)]
         /\ \A j \in DOMAIN nx[f] :
              Parts(w, nx, f)[j] = IF nx[f][j] \in Filters THEN w[nx[f][j]] ELSE <<>>
  BY DEF Parts, IsFilter, IsPorts

(* A step of the walk yields sequences of filters.                         *)
LEMMA WalkType ==
  ASSUME NEW nx, IsPorts(nx), NEW f \in Filters, NEW w \in [Filters -> Seq(Filters)]
  PROVE  <<f>> \o FlattenSeq(Parts(w, nx, f)) \in Seq(Filters)
<1>1. PICK n, s : n = Len(nx[f]) /\ s = Parts(w, nx, f)
  OBVIOUS
<1>2. n \in Nat /\ s \in [1 .. n -> Seq(Filters)]
  BY <1>1, PartsType
<1>3. FlattenSeq(s) \in Seq(Filters)
  BY <1>2, FlattenRange
<1>4. <<f>> \in Seq(Filters)
  OBVIOUS
<1>5. <<f>> \o FlattenSeq(s) \in Seq(Filters)
  BY ONLY <1>3, <1>4, ConcatRange
<1>6. QED
  BY <1>1, <1>5

(* The walk of finish_msg and destruct is what it calls itself for: the    *)
(* filter, and then what is below each of its ports.                       *)
LEMMA PreorderEquation ==
  ASSUME NEW nx, Acyclic(nx), IsPorts(nx)
  PROVE  /\ Preorders(nx) \in [Filters -> Seq(Filters)]
         /\ \A f \in Filters : Preorders(nx)[f] = <<f>> \o FlattenSeq(Parts(Preorders(nx), nx, f))
<1> DEFINE Walks == [Filters -> Seq(Filters)]
           Step(w) == [f \in Filters |-> <<f>> \o FlattenSeq(Parts(w, nx, f))]
<1>1. PICK B : B = [w \in Walks |-> Step(w)]
  OBVIOUS
<1>2. \A w \in Walks : B[w] = Step(w) /\ Step(w) \in Walks
  <2>1. \A w \in Walks : \A f \in Filters : <<f>> \o FlattenSeq(Parts(w, nx, f)) \in Seq(Filters)
    BY WalkType
  <2>2. QED
    BY <1>1, <2>1
<1>3. TreeRecurs(B, nx, Seq(Filters))
  <2>1. B \in [Walks -> Walks]
    BY <1>1, <1>2
  <2>2. Seq(Filters) # {}
    <3>1. <<>> \in Seq(Filters)
      OBVIOUS
    <3>2. QED
      BY <3>1
  <2>3. ASSUME NEW g \in Walks, NEW h \in Walks, NEW x \in Filters,
               \A j \in DOMAIN nx[x] : nx[x][j] \in Filters => g[nx[x][j]] = h[nx[x][j]]
        PROVE  B[g][x] = B[h][x]
    <3>1. Parts(g, nx, x) = Parts(h, nx, x)
      BY <2>3 DEF Parts, IsFilter
    <3>2. \A w \in Walks : Step(w)[x] = <<x>> \o FlattenSeq(Parts(w, nx, x))
      OBVIOUS
    <3> HIDE DEF Step
    <3>3. QED
      BY <1>2, <3>1, <3>2
  <2>4. QED
    BY <2>1, <2>2, <2>3 DEF TreeRecurs
<1>4. PICK w \in Walks : w = B[w]
  <2>1. PICK V : V = Seq(Filters)
    OBVIOUS
  <2>2. \E w \in [Filters -> V] : w = B[w]
    BY <1>3, <2>1, TreeDefinable
  <2>3. QED
    BY <2>1, <2>2
<1>5. w = Step(w)
  BY <1>2, <1>4
<1>6. PICK G : G = CHOOSE v : v = Step(v)
  OBVIOUS
<1>7. G = Step(G)
  BY ONLY <1>5, <1>6, Zenon
<1>8. Preorders(nx) = G
  BY <1>6 DEF Preorders, Parts
<1>9. \A f \in Filters : G[f] = <<f>> \o FlattenSeq(Parts(G, nx, f))
  BY <1>7
<1>10. \A f \in Filters : G[f] \in Seq(Filters)
  <2> DEFINE T == {f \in Filters : G[f] \notin Seq(Filters)}
  <2>1. SUFFICES ASSUME T # {} PROVE FALSE
    OBVIOUS
  <2>2. PICK f \in T : \A j \in DOMAIN nx[f] : nx[f][j] \notin T
    BY <2>1 DEF Acyclic
  <2>3. \A j \in DOMAIN nx[f] : nx[f][j] \in Filters => G[nx[f][j]] \in Seq(Filters)
    BY <2>2
  <2>4. PICK v \in Walks : \A x \in Filters : v[x] = IF G[x] \in Seq(Filters) THEN G[x] ELSE <<>>
    <3>1. [x \in Filters |-> IF G[x] \in Seq(Filters) THEN G[x] ELSE <<>>] \in Walks
      OBVIOUS
    <3>2. QED
      BY <3>1
  <2>5. Parts(v, nx, f) = Parts(G, nx, f)
    BY <2>3, <2>4 DEF Parts, IsFilter
  <2>6. <<f>> \o FlattenSeq(Parts(v, nx, f)) \in Seq(Filters)
    BY WalkType
  <2>7. QED
    BY <1>9, <2>2, <2>5, <2>6
<1>11. QED
  <2>1. G \in Walks
    BY <1>7, <1>10
  <2> HIDE DEF Step
  <2>2. QED
    BY <1>8, <1>9, <2>1

(* The filters below f, and f.                                             *)
Below(nx, f) == ToSet(Preorders(nx)[f])

(* Below a filter are itself and what is below the filters behind its      *)
(* ports.                                                                  *)
LEMMA BelowEquation ==
  ASSUME NEW nx, Acyclic(nx), IsPorts(nx), NEW f \in Filters
  PROVE  Below(nx, f) = {f} \cup UNION {Below(nx, x) : x \in {nx[f][j] : j \in DOMAIN nx[f]} \cap Filters}
<1>1. PICK n, w, s : n = Len(nx[f]) /\ w = Preorders(nx) /\ s = Parts(w, nx, f)
  OBVIOUS
<1>2. w \in [Filters -> Seq(Filters)] /\ w[f] = <<f>> \o FlattenSeq(s)
  BY <1>1, PreorderEquation
<1>3. /\ n \in Nat /\ DOMAIN nx[f] = 1 .. n /\ s \in [1 .. n -> Seq(Filters)]
      /\ \A j \in 1 .. n : s[j] = IF nx[f][j] \in Filters THEN w[nx[f][j]] ELSE <<>>
  BY <1>1, <1>2, PartsType
<1>4. FlattenSeq(s) \in Seq(Filters) /\ ToSet(FlattenSeq(s)) = UNION {ToSet(s[i]) : i \in 1 .. n}
  BY <1>3, FlattenRange
<1>5. <<f>> \in Seq(Filters) /\ ToSet(<<f>>) = {f} /\ ToSet(<<>>) = {}
  BY DEF ToSet
<1>6. ToSet(w[f]) = {f} \cup ToSet(FlattenSeq(s))
  <2>1. PICK a, b : a = <<f>> /\ b = FlattenSeq(s)
    OBVIOUS
  <2>2. PICK V : V = Filters
    OBVIOUS
  <2>3. a \in Seq(V) /\ b \in Seq(V)
    BY <1>4, <1>5, <2>1, <2>2
  <2>4. ToSet(a \o b) = ToSet(a) \cup ToSet(b)
    BY ONLY <2>3, ConcatRange
  <2>5. w[f] = a \o b
    BY <1>2, <2>1
  <2>6. QED
    BY <1>5, <2>1, <2>4, <2>5
<1>7. ToSet(w[f]) = {f} \cup UNION {ToSet(s[i]) : i \in 1 .. n}
  BY <1>4, <1>6
<1>8. UNION {ToSet(s[i]) : i \in 1 .. n} = UNION {ToSet(w[x]) : x \in {nx[f][j] : j \in 1 .. n} \cap Filters}
  <2>1. ASSUME NEW y \in UNION {ToSet(s[i]) : i \in 1 .. n}
        PROVE  y \in UNION {ToSet(w[x]) : x \in {nx[f][j] : j \in 1 .. n} \cap Filters}
    <3>1. PICK i \in 1 .. n : y \in ToSet(s[i])
      OBVIOUS
    <3>2. nx[f][i] \in Filters /\ y \in ToSet(w[nx[f][i]])
      BY <1>3, <1>5, <3>1
    <3>3. QED
      BY <3>2
  <2>2. ASSUME NEW y \in UNION {ToSet(w[x]) : x \in {nx[f][j] : j \in 1 .. n} \cap Filters}
        PROVE  y \in UNION {ToSet(s[i]) : i \in 1 .. n}
    <3>1. PICK i \in 1 .. n : nx[f][i] \in Filters /\ y \in ToSet(w[nx[f][i]])
      OBVIOUS
    <3>2. y \in ToSet(s[i])
      BY <1>3, <3>1
    <3>3. QED
      BY <3>2
  <2>3. QED
    BY <2>1, <2>2
<1>9. QED
  BY <1>1, <1>3, <1>7, <1>8 DEF Below

(* A filter is below itself.                                               *)
LEMMA BelowType ==
  ASSUME NEW nx, Acyclic(nx), IsPorts(nx), NEW f \in Filters
  PROVE  Below(nx, f) \subseteq Filters /\ f \in Below(nx, f)
<1>1. Preorders(nx)[f] \in Seq(Filters)
  BY PreorderEquation
<1>2. Below(nx, f) \subseteq Filters
  BY <1>1, RangeOf DEF Below
<1>3. QED
  BY <1>2, BelowEquation

(* What is below a filter, as a set: closed under ports, nothing in it but *)
(* f and what a port of it leads to, and the least such set.               *)
LEMMA BelowClosed ==
  ASSUME NEW nx, Acyclic(nx), IsPorts(nx), NEW f \in Filters
  PROVE  /\ \A x \in Below(nx, f) : \A j \in DOMAIN nx[x] :
              nx[x][j] \in Filters => nx[x][j] \in Below(nx, f)
         /\ \A x \in Below(nx, f) \ {f} : \E y \in Below(nx, f) : \E j \in DOMAIN nx[y] : nx[y][j] = x
         /\ \A D \in SUBSET Filters :
              f \in D /\ (\A x \in D : \A j \in DOMAIN nx[x] : nx[x][j] \in Filters => nx[x][j] \in D)
              => Below(nx, f) \subseteq D
<1> DEFINE Kids_(x) == {nx[x][j] : j \in DOMAIN nx[x]} \cap Filters
           Closed(g) == \A x \in Below(nx, g) : Kids_(x) \subseteq Below(nx, g)
           Led(g) == \A x \in Below(nx, g) \ {g} : \E y \in Below(nx, g) : x \in Kids_(y)
           Least(g) == \A D \in SUBSET Filters :
             g \in D /\ (\A x \in D : Kids_(x) \subseteq D) => Below(nx, g) \subseteq D
           T == {g \in Filters : ~(Closed(g) /\ Led(g) /\ Least(g))}
<1>1. T = {}
  <2>1. SUFFICES ASSUME T # {} PROVE FALSE
    OBVIOUS
  <2>2. PICK g \in T : \A j \in DOMAIN nx[g] : nx[g][j] \notin T
    BY <2>1 DEF Acyclic
  <2>3. \A x \in Kids_(g) : x \in Filters /\ Closed(x) /\ Led(x) /\ Least(x)
    BY <2>2
  <2>4. Below(nx, g) = {g} \cup UNION {Below(nx, x) : x \in Kids_(g)}
    BY BelowEquation
  <2>5. \A x \in Kids_(g) : x \in Below(nx, x)
    BY BelowType
  <2> HIDE DEF Kids_
  <2>6. Closed(g)
    BY <2>3, <2>4, <2>5
  <2>7. Led(g)
    <3> SUFFICES ASSUME NEW x \in Below(nx, g), x # g PROVE \E y \in Below(nx, g) : x \in Kids_(y)
      OBVIOUS
    <3>1. PICK z \in Kids_(g) : x \in Below(nx, z)
      BY <2>4
    <3>2. Below(nx, z) \subseteq Below(nx, g) /\ g \in Below(nx, g)
      BY <2>4
    <3>3. CASE x = z
      BY <3>2, <3>3
    <3>4. CASE x # z
      BY <2>3, <3>1, <3>2, <3>4
    <3>5. QED
      BY <3>3, <3>4
  <2>8. Least(g)
    BY <2>3, <2>4
  <2>9. QED
    BY <2>6, <2>7, <2>8
<1>2. Closed(f) /\ Led(f) /\ Least(f)
  BY <1>1
<1>3. \A x \in Below(nx, f) : \A j \in DOMAIN nx[x] : nx[x][j] \in Filters => nx[x][j] \in Below(nx, f)
  BY <1>2
<1>4. \A x \in Below(nx, f) \ {f} : \E y \in Below(nx, f) : \E j \in DOMAIN nx[y] : nx[y][j] = x
  BY <1>2
<1>5. ASSUME NEW D \in SUBSET Filters, f \in D,
             \A x \in D : \A j \in DOMAIN nx[x] : nx[x][j] \in Filters => nx[x][j] \in D
      PROVE  Below(nx, f) \subseteq D
  <2>1. \A x \in D : Kids_(x) \subseteq D
    BY <1>5
  <2> HIDE DEF Kids_
  <2>2. QED
    BY <1>2, <1>5, <2>1
<1>6. QED
  BY <1>3, <1>4, <1>5

(* In a forest a filter is not below its child, two children have nothing  *)
(* in common, and the walk comes to each filter once.                      *)
LEMMA ChildrenApart ==
  ASSUME NEW nx, Forest(nx), IsPorts(nx), NEW f \in Filters,
         NEW j \in DOMAIN nx[f], nx[f][j] \in Filters
  PROVE  /\ f \notin Below(nx, nx[f][j])
         /\ \A k \in DOMAIN nx[f] : nx[f][k] \in Filters /\ k # j =>
              Below(nx, nx[f][j]) \cap Below(nx, nx[f][k]) = {}
<1> DEFINE B(i) == Below(nx, nx[f][i])
<1>1. Acyclic(nx) /\ OneParent(nx)
  BY DEF Forest
<1>2. \A i \in DOMAIN nx[f] : nx[f][i] \in Filters =>
        /\ B(i) \subseteq Filters /\ nx[f][i] \in B(i)
        /\ \A x \in B(i) \ {nx[f][i]} : \E y \in B(i) : \E k \in DOMAIN nx[y] : nx[y][k] = x
  BY <1>1, BelowType, BelowClosed
<1> HIDE DEF B
<1>3. \A i \in DOMAIN nx[f] : nx[f][i] \in Filters => f \notin B(i)
  <2>0. SUFFICES ASSUME NEW i \in DOMAIN nx[f], nx[f][i] \in Filters, f \in B(i) PROVE FALSE
    OBVIOUS
  <2>1. PICK x \in B(i) : \A y \in B(i) : \A k \in DOMAIN nx[y] : nx[y][k] # x
    <3>1. PICK T : T = B(i)
      OBVIOUS
    <3>2. T \in SUBSET Filters /\ T # {}
      BY <1>2, <2>0, <3>1
    <3>3. QED
      BY ONLY <1>1, <3>1, <3>2, HighestFilter
  <2>2. x # nx[f][i]
    BY <2>0, <2>1
  <2>3. QED
    BY <1>2, <2>0, <2>1, <2>2
<1>4. ASSUME NEW k \in DOMAIN nx[f], nx[f][k] \in Filters, k # j, B(j) \cap B(k) # {}
      PROVE  FALSE
  <2>1. PICK x \in B(j) \cap B(k) : \A y \in B(j) \cap B(k) : \A i \in DOMAIN nx[y] : nx[y][i] # x
    <3>1. PICK T : T = B(j) \cap B(k)
      OBVIOUS
    <3>2. T \in SUBSET Filters /\ T # {}
      BY <1>2, <1>4, <3>1
    <3>3. QED
      BY ONLY <1>1, <3>1, <3>2, HighestFilter
  <2>2. x # Null /\ x \in Filters /\ B(j) \subseteq Filters /\ B(k) \subseteq Filters
    BY <1>2, <1>4, <2>1, FiltersAssumption
  <2>3. nx[f][j] # nx[f][k]
    BY <1>1, <1>4, FiltersAssumption DEF OneParent
  <2>4. CASE x = nx[f][j]
    <3>1. PICK y \in B(k) : \E i \in DOMAIN nx[y] : nx[y][i] = x
      BY <1>2, <1>4, <2>1, <2>3, <2>4
    <3>2. y = f
      BY <1>1, <2>2, <2>4, <3>1 DEF OneParent
    <3>3. QED
      BY <1>3, <1>4, <3>1, <3>2
  <2>5. CASE x = nx[f][k]
    <3>1. PICK y \in B(j) : \E i \in DOMAIN nx[y] : nx[y][i] = x
      BY <1>2, <1>4, <2>1, <2>3, <2>5
    <3>2. y = f
      BY <1>1, <1>4, <2>2, <2>5, <3>1 DEF OneParent
    <3>3. QED
      BY <1>3, <3>1, <3>2
  <2>6. CASE x # nx[f][j] /\ x # nx[f][k]
    <3>1. PICK y \in B(j) : \E i \in DOMAIN nx[y] : nx[y][i] = x
      BY <1>2, <2>1, <2>6
    <3>2. PICK z \in B(k) : \E i \in DOMAIN nx[z] : nx[z][i] = x
      BY <1>2, <1>4, <2>1, <2>6
    <3>3. y = z
      BY <1>1, <2>2, <3>1, <3>2 DEF OneParent
    <3>4. QED
      BY <2>1, <3>1, <3>2, <3>3
  <2>7. QED
    BY <2>4, <2>5, <2>6
<1>5. QED
  BY <1>3, <1>4 DEF B

(* A walk over a tree meets each filter only once.                         *)
LEMMA PreorderInjective ==
  ASSUME NEW nx, Forest(nx), IsPorts(nx), NEW f \in Filters
  PROVE  IsInjective(Preorders(nx)[f])
<1> DEFINE T == {g \in Filters : ~IsInjective(Preorders(nx)[g])}
<1>1. SUFFICES ASSUME T # {} PROVE FALSE
  OBVIOUS
<1>2. Acyclic(nx)
  BY DEF Forest
<1>3. PICK g \in T : \A j \in DOMAIN nx[g] : nx[g][j] \notin T
  BY <1>1, <1>2 DEF Acyclic
<1>4. PICK n, w, s : n = Len(nx[g]) /\ w = Preorders(nx) /\ s = Parts(w, nx, g)
  OBVIOUS
<1>5. w \in [Filters -> Seq(Filters)] /\ w[g] = <<g>> \o FlattenSeq(s)
  BY <1>2, <1>4, PreorderEquation
<1>6. /\ n \in Nat /\ DOMAIN nx[g] = 1 .. n /\ s \in [1 .. n -> Seq(Filters)]
      /\ \A j \in 1 .. n : s[j] = IF nx[g][j] \in Filters THEN w[nx[g][j]] ELSE <<>>
  BY <1>4, <1>5, PartsType
<1>7. FlattenSeq(s) \in Seq(Filters) /\ ToSet(FlattenSeq(s)) = UNION {ToSet(s[i]) : i \in 1 .. n}
  BY <1>6, FlattenRange
<1>8. ToSet(<<>>) = {} /\ IsInjective(<<>>)
  BY DEF ToSet, IsInjective
<1>9. \A i \in 1 .. n : IsInjective(s[i])
  BY <1>3, <1>4, <1>6, <1>8
<1>10. \A i \in 1 .. n : ToSet(s[i]) = IF nx[g][i] \in Filters THEN Below(nx, nx[g][i]) ELSE {}
  BY <1>4, <1>6, <1>8 DEF Below
<1>11. \A i, k \in 1 .. n : i # k => ToSet(s[i]) \cap ToSet(s[k]) = {}
  BY <1>6, <1>10, ChildrenApart
<1>12. g \notin ToSet(FlattenSeq(s))
  BY <1>6, <1>7, <1>10, ChildrenApart
<1>13. IsInjective(FlattenSeq(s))
  BY ONLY <1>6, <1>9, <1>11, FlattenInjective
<1>14. <<g>> \in Seq(Filters) /\ IsInjective(<<g>>) /\ ToSet(<<g>>) = {g}
  BY DEF ToSet, IsInjective
<1>15. IsInjective(w[g])
  <2>1. PICK a, b, V : a = <<g>> /\ b = FlattenSeq(s) /\ V = Filters
    OBVIOUS
  <2>2. a \in Seq(V) /\ b \in Seq(V) /\ IsInjective(a) /\ IsInjective(b) /\ ToSet(a) \cap ToSet(b) = {}
    BY <1>7, <1>12, <1>13, <1>14, <2>1
  <2>3. IsInjective(a \o b)
    BY ONLY <2>2, ConcatInjective
  <2>4. QED
    BY <1>5, <2>1, <2>3
<1>16. QED
  BY <1>3, <1>4, <1>15

-----------------------------------------------------------------------------
(* find_endpoints                                                          *)

Pairs == Filters \X Nat
Ends(w, nx, inner, f) ==
  [j \in DOMAIN nx[f] |-> IF nx[f][j] \in inner THEN w[nx[f][j]] ELSE <<<<f, j>>>>]

(* What is found behind each port is a sequence of ports.                  *)
LEMMA EndsType ==
  ASSUME NEW nx, IsPorts(nx), NEW inner \in SUBSET Filters, NEW f \in Filters,
         NEW w \in [Filters -> Seq(Pairs)]
  PROVE  /\ Len(nx[f]) \in Nat /\ DOMAIN nx[f] = 1 .. Len(nx[f])
         /\ Ends(w, nx, inner, f) \in [1 .. Len(nx[f]) -> Seq(Pairs)]
         /\ \A j \in DOMAIN nx[f] :
              Ends(w, nx, inner, f)[j] = IF nx[f][j] \in inner THEN w[nx[f][j]] ELSE <<<<f, j>>>>
<1>1. Len(nx[f]) \in Nat /\ DOMAIN nx[f] = 1 .. Len(nx[f])
  BY DEF IsPorts
<1>2. \A j \in DOMAIN nx[f] : <<f, j>> \in Pairs
  BY <1>1 DEF Pairs
<1>3. \A p \in Pairs : <<p>> \in Seq(Pairs)
  OBVIOUS
<1>4. \A j \in DOMAIN nx[f] : <<<<f, j>>>> \in Seq(Pairs)
  BY <1>2, <1>3
<1>5. QED
  BY <1>1, <1>4 DEF Ends

(* The walk of find_endpoints is what it calls itself for.                 *)
LEMMA FringeEquation ==
  ASSUME NEW nx, Acyclic(nx), IsPorts(nx), NEW inner \in SUBSET Filters
  PROVE  /\ Fringes(nx, inner) \in [Filters -> Seq(Pairs)]
         /\ \A f \in Filters : Fringes(nx, inner)[f] = FlattenSeq(Ends(Fringes(nx, inner), nx, inner, f))
<1> DEFINE Walks == [Filters -> Seq(Pairs)]
           Step(w) == [f \in Filters |-> FlattenSeq(Ends(w, nx, inner, f))]
<1>1. PICK B : B = [w \in Walks |-> Step(w)]
  OBVIOUS
<1>0. \A w \in Walks : \A f \in Filters : FlattenSeq(Ends(w, nx, inner, f)) \in Seq(Pairs)
  BY EndsType, FlattenRange
<1>2. \A w \in Walks : B[w] = Step(w) /\ Step(w) \in Walks
  BY <1>0, <1>1
<1>3. TreeRecurs(B, nx, Seq(Pairs))
  <2>1. B \in [Walks -> Walks]
    BY <1>1, <1>2
  <2>2. Seq(Pairs) # {}
    <3>1. <<>> \in Seq(Pairs)
      OBVIOUS
    <3>2. QED
      BY <3>1
  <2>3. ASSUME NEW g \in Walks, NEW h \in Walks, NEW x \in Filters,
               \A j \in DOMAIN nx[x] : nx[x][j] \in Filters => g[nx[x][j]] = h[nx[x][j]]
        PROVE  B[g][x] = B[h][x]
    <3>1. Ends(g, nx, inner, x) = Ends(h, nx, inner, x)
      BY <2>3 DEF Ends
    <3>2. \A w \in Walks : Step(w)[x] = FlattenSeq(Ends(w, nx, inner, x))
      OBVIOUS
    <3> HIDE DEF Step
    <3>3. QED
      BY <1>2, <3>1, <3>2
  <2>4. QED
    BY <2>1, <2>2, <2>3 DEF TreeRecurs
<1>4. PICK w \in Walks : w = B[w]
  <2>1. PICK V : V = Seq(Pairs)
    OBVIOUS
  <2>2. \E w \in [Filters -> V] : w = B[w]
    BY <1>3, <2>1, TreeDefinable
  <2>3. QED
    BY <2>1, <2>2
<1>5. w = Step(w)
  BY <1>2, <1>4
<1>6. PICK G : G = CHOOSE v : v = Step(v)
  OBVIOUS
<1>7. G = Step(G)
  BY ONLY <1>5, <1>6, Zenon
<1>8. Fringes(nx, inner) = G
  BY <1>6 DEF Fringes, Ends
<1>9. \A f \in Filters : G[f] = FlattenSeq(Ends(G, nx, inner, f))
  BY <1>7
<1>10. \A f \in Filters : G[f] \in Seq(Pairs)
  <2> DEFINE T == {f \in Filters : G[f] \notin Seq(Pairs)}
  <2>1. SUFFICES ASSUME T # {} PROVE FALSE
    OBVIOUS
  <2>2. PICK f \in T : \A j \in DOMAIN nx[f] : nx[f][j] \notin T
    BY <2>1 DEF Acyclic
  <2>3. \A j \in DOMAIN nx[f] : nx[f][j] \in Filters => G[nx[f][j]] \in Seq(Pairs)
    BY <2>2
  <2>4. PICK v \in Walks : \A x \in Filters : v[x] = IF G[x] \in Seq(Pairs) THEN G[x] ELSE <<>>
    <3>1. [x \in Filters |-> IF G[x] \in Seq(Pairs) THEN G[x] ELSE <<>>] \in Walks
      OBVIOUS
    <3>2. QED
      BY <3>1
  <2>5. Ends(v, nx, inner, f) = Ends(G, nx, inner, f)
    BY <2>3, <2>4 DEF Ends
  <2>6. FlattenSeq(Ends(v, nx, inner, f)) \in Seq(Pairs)
    BY <1>0
  <2>7. QED
    BY <1>9, <2>2, <2>5, <2>6
<1>11. QED
  <2>1. G \in Walks
    BY <1>7, <1>10
  <2> HIDE DEF Step
  <2>2. QED
    BY <1>8, <1>9, <2>1

(* The part of the tree that is reached through the inner filters only.    *)
Inside(nx, inner) ==
  [x \in Filters |-> [j \in DOMAIN nx[x] |-> IF nx[x][j] \in inner THEN nx[x][j] ELSE Null]]
Within(nx, inner, f) == Below(Inside(nx, inner), f)
LEMMA InsideType ==
  ASSUME NEW nx, Acyclic(nx), IsPorts(nx), NEW inner \in SUBSET Filters
  PROVE  /\ Acyclic(Inside(nx, inner)) /\ IsPorts(Inside(nx, inner))
         /\ \A x \in Filters : DOMAIN Inside(nx, inner)[x] = DOMAIN nx[x]
         /\ \A x \in Filters : \A j \in DOMAIN nx[x] :
              Inside(nx, inner)[x][j] = IF nx[x][j] \in inner THEN nx[x][j] ELSE Null
<1>1. PICK m : m = Inside(nx, inner)
  OBVIOUS
<1>2. /\ \A x \in Filters : DOMAIN m[x] = DOMAIN nx[x]
      /\ \A x \in Filters : \A j \in DOMAIN nx[x] : m[x][j] = IF nx[x][j] \in inner THEN nx[x][j] ELSE Null
  BY <1>1 DEF Inside
<1>3. IsPorts(m)
  <2>1. ASSUME NEW x \in Filters PROVE m[x] \in Seq(Nodes)
    <3>1. PICK n : n = Len(nx[x])
      OBVIOUS
    <3>2. n \in Nat /\ DOMAIN nx[x] = 1 .. n
      BY <3>1 DEF IsPorts
    <3>3. m[x] = [j \in 1 .. n |-> IF nx[x][j] \in inner THEN nx[x][j] ELSE Null]
      BY <1>1, <3>2 DEF Inside
    <3>4. \A j \in 1 .. n : (IF nx[x][j] \in inner THEN nx[x][j] ELSE Null) \in Nodes
      BY DEF Nodes
    <3>5. QED
      BY ONLY <3>2, <3>3, <3>4
  <2>2. QED
    BY <1>1, <2>1 DEF IsPorts, Inside
<1>4. Acyclic(m)
  <2> SUFFICES ASSUME NEW T \in SUBSET Filters, T # {} PROVE \E x \in T : \A j \in DOMAIN m[x] : m[x][j] \notin T
    BY DEF Acyclic
  <2>1. PICK x \in T : \A j \in DOMAIN nx[x] : nx[x][j] \notin T
    BY DEF Acyclic
  <2>2. \A j \in DOMAIN m[x] : m[x][j] \notin T
    BY <1>2, <2>1, FiltersAssumption
  <2>3. QED
    BY <2>2
<1>5. QED
  BY <1>1, <1>2, <1>3, <1>4

LEMMA WithinIs ==
  ASSUME NEW nx, Acyclic(nx), IsPorts(nx), NEW inner \in SUBSET Filters, NEW f \in Filters
  PROVE  /\ Within(nx, inner, f) = {f} \cup UNION {Within(nx, inner, x) : x \in {nx[f][j] : j \in DOMAIN nx[f]} \cap inner}
         /\ Within(nx, inner, f) \subseteq Filters /\ f \in Within(nx, inner, f)
         /\ \A x \in Within(nx, inner, f) : \A j \in DOMAIN nx[x] :
              nx[x][j] \in inner => nx[x][j] \in Within(nx, inner, f)
         /\ \A x \in Within(nx, inner, f) \ {f} :
              x \in inner /\ \E y \in Within(nx, inner, f) : \E j \in DOMAIN nx[y] : nx[y][j] = x
         /\ \A D \in SUBSET Filters :
              f \in D /\ (\A x \in D : \A j \in DOMAIN nx[x] : nx[x][j] \in inner => nx[x][j] \in D)
              => Within(nx, inner, f) \subseteq D
<1>1. PICK m : m = Inside(nx, inner)
  OBVIOUS
<1>2. /\ Acyclic(m) /\ IsPorts(m)
      /\ \A x \in Filters : DOMAIN m[x] = DOMAIN nx[x]
      /\ \A x \in Filters : \A j \in DOMAIN nx[x] : m[x][j] = IF nx[x][j] \in inner THEN nx[x][j] ELSE Null
  BY <1>1, InsideType
<1>3. \A x \in Filters : Within(nx, inner, x) = Below(m, x)
  BY <1>1 DEF Within
<1>4. \A x \in Filters : \A j \in DOMAIN nx[x] :
        /\ m[x][j] \in Filters <=> nx[x][j] \in inner
        /\ nx[x][j] \in inner => m[x][j] = nx[x][j]
  BY <1>2, FiltersAssumption
<1>5. Below(m, f) \subseteq Filters /\ f \in Below(m, f)
  BY <1>2, BelowType
<1>6. Within(nx, inner, f) = {f} \cup UNION {Within(nx, inner, x) : x \in {nx[f][j] : j \in DOMAIN nx[f]} \cap inner}
  <2>1. Below(m, f) = {f} \cup UNION {Below(m, x) : x \in {m[f][j] : j \in DOMAIN m[f]} \cap Filters}
    BY <1>2, BelowEquation
  <2>2. {m[f][j] : j \in DOMAIN m[f]} \cap Filters = {nx[f][j] : j \in DOMAIN nx[f]} \cap inner
    BY <1>2, <1>4
  <2>3. QED
    BY <1>3, <2>1, <2>2
<1>7. \A x \in Below(m, f) : \A j \in DOMAIN nx[x] : nx[x][j] \in inner => nx[x][j] \in Below(m, f)
  <2>1. \A x \in Below(m, f) : \A j \in DOMAIN m[x] : m[x][j] \in Filters => m[x][j] \in Below(m, f)
    BY <1>2, BelowClosed
  <2>2. QED
    BY <1>2, <1>4, <1>5, <2>1
<1>8. \A x \in Below(m, f) \ {f} :
        x \in inner /\ \E y \in Below(m, f) : \E j \in DOMAIN nx[y] : nx[y][j] = x
  <2> SUFFICES ASSUME NEW x \in Below(m, f) \ {f}
               PROVE  x \in inner /\ \E y \in Below(m, f) : \E j \in DOMAIN nx[y] : nx[y][j] = x
    OBVIOUS
  <2>1. PICK y \in Below(m, f) : \E j \in DOMAIN m[y] : m[y][j] = x
    BY <1>2, BelowClosed
  <2>2. PICK j \in DOMAIN m[y] : m[y][j] = x
    BY <2>1
  <2>3. y \in Filters /\ x \in Filters /\ j \in DOMAIN nx[y]
    BY <1>2, <1>5, <2>1, <2>2
  <2>4. nx[y][j] \in inner /\ nx[y][j] = x
    BY <1>4, <2>2, <2>3
  <2>5. QED
    BY <2>3, <2>4
<1>9. \A D \in SUBSET Filters :
        f \in D /\ (\A x \in D : \A j \in DOMAIN nx[x] : nx[x][j] \in inner => nx[x][j] \in D)
        => Below(m, f) \subseteq D
  <2> SUFFICES ASSUME NEW D \in SUBSET Filters, f \in D,
                      \A x \in D : \A j \in DOMAIN nx[x] : nx[x][j] \in inner => nx[x][j] \in D
               PROVE  Below(m, f) \subseteq D
    OBVIOUS
  <2>1. \A x \in D : \A j \in DOMAIN m[x] : m[x][j] \in Filters => m[x][j] \in D
    BY <1>2, <1>4
  <2>2. QED
    BY <1>2, <2>1, BelowClosed
<1>10. QED
  BY <1>3, <1>5, <1>6, <1>7, <1>8, <1>9

(* The ports where the walk through the inner filters ends.                *)
LEMMA FringePorts ==
  ASSUME NEW nx, Acyclic(nx), IsPorts(nx), NEW inner \in SUBSET Filters, NEW f \in Filters
  PROVE  /\ Fringes(nx, inner)[f] \in Seq(Pairs)
         /\ \A x \in Filters, j \in Nat :
              <<x, j>> \in ToSet(Fringes(nx, inner)[f]) <=>
                x \in Within(nx, inner, f) /\ j \in DOMAIN nx[x] /\ nx[x][j] \notin inner
<1> DEFINE IsEnd(x, j) == j \in DOMAIN nx[x] /\ nx[x][j] \notin inner
           Exact(g) == \A x \in Filters, j \in Nat :
             <<x, j>> \in ToSet(Fringes(nx, inner)[g]) <=> x \in Within(nx, inner, g) /\ IsEnd(x, j)
           T == {g \in Filters : ~Exact(g)}
<1>1. T = {}
  <2>1. SUFFICES ASSUME T # {} PROVE FALSE
    OBVIOUS
  <2>2. PICK g \in T : \A j \in DOMAIN nx[g] : nx[g][j] \notin T
    BY <2>1 DEF Acyclic
  <2>3. PICK n, w, s : n = Len(nx[g]) /\ w = Fringes(nx, inner) /\ s = Ends(w, nx, inner, g)
    OBVIOUS
  <2>4. w \in [Filters -> Seq(Pairs)] /\ w[g] = FlattenSeq(s)
    BY <2>3, FringeEquation
  <2>5. /\ n \in Nat /\ DOMAIN nx[g] = 1 .. n /\ s \in [1 .. n -> Seq(Pairs)]
        /\ \A j \in 1 .. n : s[j] = IF nx[g][j] \in inner THEN w[nx[g][j]] ELSE <<<<g, j>>>>
    <3>1. /\ g \in Filters /\ IsPorts(nx) /\ inner \in SUBSET Filters /\ w \in [Filters -> Seq(Pairs)]
          /\ n = Len(nx[g]) /\ s = Ends(w, nx, inner, g)
      BY <2>3, <2>4
    <3>2. n \in Nat /\ DOMAIN nx[g] = 1 .. n
      BY <3>1 DEF IsPorts
    <3>3. s \in [1 .. n -> Seq(Pairs)]
      BY ONLY <3>1, EndsType
    <3>4. \A j \in 1 .. n : s[j] = IF nx[g][j] \in inner THEN w[nx[g][j]] ELSE <<<<g, j>>>>
      BY ONLY <3>1, <3>2 DEF Ends
    <3>5. QED
      BY ONLY <3>2, <3>3, <3>4
  <2>6. ToSet(w[g]) = UNION {ToSet(s[i]) : i \in 1 .. n}
    <3>1. n \in Nat /\ s \in [1 .. n -> Seq(Pairs)]
      BY <2>5
    <3>2. PICK V : V = Pairs
      OBVIOUS
    <3>3. s \in [1 .. n -> Seq(V)]
      BY <3>1, <3>2
    <3>4. ToSet(FlattenSeq(s)) = UNION {ToSet(s[i]) : i \in 1 .. n}
      BY ONLY <3>1, <3>3, FlattenRange
    <3>5. QED
      BY <2>4, <3>4
  <2>7. Within(nx, inner, g) = {g} \cup UNION {Within(nx, inner, x) : x \in {nx[g][j] : j \in DOMAIN nx[g]} \cap inner}
    BY WithinIs
  <2>8. \A i \in 1 .. n : nx[g][i] \in inner => Exact(nx[g][i])
    BY <2>2, <2>5
  <2>9. \A p : ToSet(<<p>>) = {p}
    BY DEF ToSet
  <2>10. \A i \in 1 .. n : nx[g][i] \notin inner => ToSet(s[i]) = {<<g, i>>}
    BY <2>5, <2>9
  <2>11. \A i \in 1 .. n : nx[g][i] \in inner =>
           \A x \in Filters, j \in Nat : <<x, j>> \in ToSet(s[i]) <=> x \in Within(nx, inner, nx[g][i]) /\ IsEnd(x, j)
    BY <2>3, <2>5, <2>8
  <2>12. ASSUME NEW x \in Filters, NEW j \in Nat
         PROVE  <<x, j>> \in ToSet(w[g]) <=> x \in Within(nx, inner, g) /\ IsEnd(x, j)
    <3>1. ASSUME <<x, j>> \in ToSet(w[g]) PROVE x \in Within(nx, inner, g) /\ IsEnd(x, j)
      <4>1. PICK i \in 1 .. n : <<x, j>> \in ToSet(s[i])
        BY <2>6, <3>1
      <4>2. CASE nx[g][i] \in inner
        <5>1. x \in Within(nx, inner, nx[g][i]) /\ IsEnd(x, j)
          BY <2>11, <4>1, <4>2
        <5>2. QED
          BY <2>5, <2>7, <4>2, <5>1
      <4>3. CASE nx[g][i] \notin inner
        BY <2>5, <2>7, <2>10, <4>1, <4>3
      <4>4. QED
        BY <4>2, <4>3
    <3>2. ASSUME x \in Within(nx, inner, g), IsEnd(x, j) PROVE <<x, j>> \in ToSet(w[g])
      <4>1. CASE x = g
        <5>1. j \in 1 .. n /\ <<x, j>> \in ToSet(s[j])
          BY <2>5, <2>10, <3>2, <4>1
        <5>2. QED
          BY <2>6, <5>1
      <4>2. CASE x # g
        <5>1. PICK i \in 1 .. n : nx[g][i] \in inner /\ x \in Within(nx, inner, nx[g][i])
          BY <2>5, <2>7, <3>2, <4>2
        <5>2. <<x, j>> \in ToSet(s[i])
          BY <2>11, <3>2, <5>1
        <5>3. QED
          BY <2>6, <5>2
      <4>3. QED
        BY <4>1, <4>2
    <3>3. QED
      BY <3>1, <3>2
  <2>13. QED
    BY <2>2, <2>3, <2>12
<1>2. Exact(f)
  BY <1>1
<1>3. Fringes(nx, inner)[f] \in Seq(Pairs)
  BY FringeEquation
<1>4. QED
  BY <1>2, <1>3

(* The endpoints below f are the ports below it that lead to no filter.    *)
LEMMA EndpointsAre ==
  ASSUME NEW nx, Acyclic(nx), IsPorts(nx), NEW f \in Filters
  PROVE  /\ Endpoints(nx, f) \in Seq(Pairs)
         /\ \A x \in Filters, j \in Nat :
              <<x, j>> \in ToSet(Endpoints(nx, f)) <=>
                x \in Below(nx, f) /\ j \in DOMAIN nx[x] /\ nx[x][j] \notin Filters
<1>1. PICK inner : inner = Filters
  OBVIOUS
<1>2. PICK W : W = Within(nx, inner, f)
  OBVIOUS
<1>3. inner \in SUBSET Filters
  BY <1>1
<1>4. /\ W \subseteq Filters /\ f \in W
      /\ \A x \in W : \A j \in DOMAIN nx[x] : nx[x][j] \in inner => nx[x][j] \in W
      /\ \A D \in SUBSET Filters :
           f \in D /\ (\A x \in D : \A j \in DOMAIN nx[x] : nx[x][j] \in inner => nx[x][j] \in D) => W \subseteq D
  BY <1>2, <1>3, WithinIs
<1>5. /\ Below(nx, f) \subseteq Filters /\ f \in Below(nx, f)
      /\ \A x \in Below(nx, f) : \A j \in DOMAIN nx[x] : nx[x][j] \in Filters => nx[x][j] \in Below(nx, f)
      /\ \A D \in SUBSET Filters :
           f \in D /\ (\A x \in D : \A j \in DOMAIN nx[x] : nx[x][j] \in Filters => nx[x][j] \in D)
           => Below(nx, f) \subseteq D
  BY BelowType, BelowClosed
<1>6. W = Below(nx, f)
  BY <1>1, <1>4, <1>5
<1>7. Endpoints(nx, f) = Fringes(nx, inner)[f]
  BY <1>1 DEF Endpoints
<1>8. /\ Fringes(nx, inner)[f] \in Seq(Pairs)
      /\ \A x \in Filters, j \in Nat :
           <<x, j>> \in ToSet(Fringes(nx, inner)[f]) <=> x \in W /\ j \in DOMAIN nx[x] /\ nx[x][j] \notin inner
  BY <1>2, <1>3, FringePorts
<1>9. QED
  BY <1>1, <1>6, <1>7, <1>8

-----------------------------------------------------------------------------
(* What the calls do to the contents.                                      *)

Stores == [Filters \cup Queues -> Seq(Items)]

(* What receives data, holds data.                                         *)
LEMMA ReceivedType ==
  ASSUME NEW st \in Stores, NEW to, NEW d \in Seq(Items)
  PROVE  Received(st, to, d) \in Stores
<1>1. \A x \in Filters \cup Queues : st[x] \o d \in Seq(Items)
  BY DEF Stores
<1>2. QED
  BY <1>1 DEF Received, Stores

(* The end of a message in one filter leaves data in each place.           *)
LEMMA FlushType ==
  ASSUME NEW st \in Stores, NEW f \in Filters
  PROVE  Flush(st, f) \in Stores
<1>1. st[f] \in Seq(Items) /\ <<>> \in Seq(Items)
  BY DEF Stores
<1>2. PICK r : r = Received(st, SentTo(f), st[f])
  OBVIOUS
<1>3. r \in Stores
  BY <1>1, <1>2, ReceivedType
<1>4. [r EXCEPT ![f] = <<>>] \in Stores
  BY <1>1, <1>3 DEF Stores
<1>5. QED
  BY <1>2, <1>4 DEF Flush

(* The end of a message, filter by filter.                                 *)
LEMMA FinishSteps ==
  ASSUME store \in Stores, NEW filters \in Seq(Filters), NEW n \in 0 .. Len(filters)
  PROVE  \E h \in [0 .. n -> Stores] :
           h[0] = store /\ h[n] = FinishMsg(filters, n) /\ \A i \in 1 .. n : h[i] = Flush(h[i - 1], filters[i])
<1> DEFINE Step(after) == [i \in 0 .. n |-> IF i = 0 THEN store ELSE Flush(after[i - 1], filters[i])]
<1>1. n \in Nat /\ \A i \in 1 .. n : filters[i] \in Filters
  OBVIOUS
<1>2. PICK F : F = [p \in Stores \X (1 .. n) |-> Flush(p[1], filters[p[2]])]
  OBVIOUS
<1>3. F \in [Stores \X (1 .. n) -> Stores]
  BY <1>1, <1>2, FlushType
<1>4. PICK g \in [0 .. n -> Stores] : \A i \in 0 .. n : g[i] = IF i = 0 THEN store ELSE F[<<g[i - 1], i>>]
  <2>1. Changes(F, n, store, Stores)
    BY <1>1, <1>3 DEF Changes
  <2>2. \E g : Iterated(g, F, n, store, Stores)
    BY <2>1, Iterates
  <2>3. QED
    BY <2>2 DEF Iterated
<1>5. \A i \in 0 .. n : i # 0 => i \in 1 .. n /\ i - 1 \in 0 .. n
  OBVIOUS
<1>6. \A i \in 1 .. n : F[<<g[i - 1], i>>] = Flush(g[i - 1], filters[i])
  BY <1>2, <1>4, <1>5
<1>7. g = Step(g)
  <2>1. \A i \in 0 .. n : g[i] = IF i = 0 THEN store ELSE Flush(g[i - 1], filters[i])
    BY <1>4, <1>5, <1>6
  <2>2. QED
    BY <2>1
<1>8. PICK h : h = CHOOSE a : a = Step(a)
  OBVIOUS
<1>9. h = Step(h)
  BY ONLY <1>7, <1>8, Zenon
<1>10. FinishMsg(filters, n) = h[n]
  BY <1>8 DEF FinishMsg
<1>11. h[0] = store /\ \A i \in 1 .. n : h[i] = Flush(h[i - 1], filters[i])
  BY <1>1, <1>9
<1>12. PICK T : T = {i \in 0 .. n : h[i] \in Stores}
  OBVIOUS
<1>13. 0 \in T /\ \A i \in 0 .. n : i # n /\ i \in T => i + 1 \in T
  <2>1. 0 \in T
    BY <1>11, <1>12
  <2>2. ASSUME NEW i \in 0 .. n, i # n, i \in T PROVE i + 1 \in T
    <3>1. i + 1 \in 1 .. n /\ i + 1 \in 0 .. n /\ (i + 1) - 1 = i
      BY <2>2
    <3>2. h[i + 1] = Flush(h[i], filters[i + 1]) /\ filters[i + 1] \in Filters /\ h[i] \in Stores
      BY <1>1, <1>11, <1>12, <2>2, <3>1
    <3>3. QED
      BY <1>12, <3>1, <3>2, FlushType
  <2>3. QED
    BY <2>1, <2>2
<1>14. 0 .. n \subseteq T
  <2>1. 0 \in Nat
    OBVIOUS
  <2>2. QED
    BY ONLY <1>1, <1>13, <2>1, IntervalInduction
<1>15. h \in [0 .. n -> Stores]
  <2>1. \A i \in 0 .. n : h[i] \in Stores
    BY <1>12, <1>14
  <2>2. h = [i \in 0 .. n |-> h[i]]
    BY <1>9
  <2>3. QED
    BY <2>1, <2>2
<1>16. QED
  BY <1>10, <1>11, <1>15

(* So it leaves stores, in any number of filters.                          *)
LEMMA FinishType ==
  ASSUME store \in Stores, NEW filters \in Seq(Filters), NEW n \in 0 .. Len(filters)
  PROVE  FinishMsg(filters, n) \in Stores
<1>1. PICK h \in [0 .. n -> Stores] : h[n] = FinishMsg(filters, n)
  BY FinishSteps
<1>2. n \in 0 .. n
  OBVIOUS
<1>3. QED
  BY <1>1, <1>2

(* A piece of data is data.                                                *)
LEMMA PartsOf ==
  ASSUME NEW d \in Seq(Items), NEW s \in 0 .. Len(d), NEW t \in 0 .. Len(d)
  PROVE  SubSeq(d, s + 1, t) \in Seq(Items) /\ SubSeq(d, 1, s) \in Seq(Items)
<1>1. PICK V : V = Items
  OBVIOUS
<1>2. d \in Seq(V) /\ Len(d) \in Nat /\ DOMAIN d = 1 .. Len(d)
  BY <1>1
<1>3. SubSeq(d, s + 1, t) \in Seq(V) /\ SubSeq(d, 1, s) \in Seq(V)
  BY ONLY <1>2, s \in 0 .. Len(d), t \in 0 .. Len(d)
<1>4. QED
  BY <1>1, <1>3
(* Pieces of data sent to some places keep a store one.                    *)
LEMMA SentType ==
  ASSUME NEW st \in Stores, NEW to, NEW m, NEW d \in Seq(Items), NEW s \in 0 .. Len(d), NEW t \in 0 .. Len(d)
  PROVE  Sent(st, to, m, d, s, t) \in Stores
<1>1. SubSeq(d, s + 1, t) \in Seq(Items) /\ SubSeq(d, 1, s) \in Seq(Items)
  BY PartsOf
<1>2. PICK r : r = Received(st, to, SubSeq(d, 1, s))
  OBVIOUS
<1>3. r \in Stores
  BY <1>1, <1>2, ReceivedType
<1>4. Received(r, SubSeq(to, 1, m), SubSeq(d, s + 1, t)) \in Stores
  BY <1>1, <1>3, ReceivedType
<1>5. QED
  BY <1>2, <1>4 DEF Sent
(* So does an end_msg that throws.                                         *)
LEMMA PartlyFlushedType ==
  ASSUME NEW st \in Stores, NEW f \in Filters
  PROVE  PartlyFlushed(st, f) \subseteq Stores
<1>1. PICK d : d = st[f]
  OBVIOUS
<1>2. d \in Seq(Items) /\ Len(d) \in Nat
  BY <1>1 DEF Stores
<1> SUFFICES ASSUME NEW m \in 0 .. Len(SentTo(f)), NEW s \in 0 .. Len(d), NEW t \in 0 .. Len(d), NEW g \in 0 .. Len(d)
             PROVE  [Sent(st, SentTo(f), m, d, s, t) EXCEPT ![f] = SubSeq(d, g + 1, Len(d))] \in Stores
  BY <1>1 DEF PartlyFlushed
<1>3. PICK r : r = Sent(st, SentTo(f), m, d, s, t)
  OBVIOUS
<1>4. r \in Stores
  BY <1>2, <1>3, SentType
<1>5. SubSeq(d, g + 1, Len(d)) \in Seq(Items)
  <2>1. Len(d) \in 0 .. Len(d)
    BY <1>2
  <2>2. QED
    BY <1>2, <2>1, PartsOf
<1>6. QED
  BY <1>3, <1>4, <1>5 DEF Stores

-----------------------------------------------------------------------------
(* Preservation                                                            *)

(* Writing and reading do not touch the tree.                              *)
LEMMA QuietNext ==
  ASSUME PipeInv, TypeOK', UNCHANGED <<tree, inside_msg, outputs, made, failed, wild>>
  PROVE  PipeInv'
<1>1. /\ next' = next /\ alive' = alive /\ owned' = owned /\ pipe' = pipe
      /\ inside_msg' = inside_msg /\ failed' = failed /\ wild' = wild
      /\ buffers' = buffers /\ offset' = offset /\ made' = made
  BY DEF tree, outputs
<1>2. Forest(next)' /\ ~wild'
  BY <1>1 DEF PipeInv
<1>3. RootsInv'
  BY <1>1 DEF PipeInv, RootsInv
<1>4. QueueInv'
  BY <1>1 DEF PipeInv, QueueInv
<1>5. ChainInv'
  BY <1>1 DEF PipeInv, ChainInv
<1>6. QED
  BY <1>2, <1>3, <1>4, <1>5 DEF PipeInv

(* What the strengthening says of the tree alone.                          *)
LEMMA TreeType ==
  ASSUME PipeInv
  PROVE  /\ IsPorts(next) /\ Forest(next) /\ Acyclic(next) /\ OneParent(next) /\ store \in Stores
         /\ \A f \in Filters : next[f] # <<>>
  BY DEF PipeInv, TypeOK, IsPorts, Nodes, Stores, RootsInv, Forest

(* The walk over the pipe is a sequence of filters.                        *)
LEMMA PreorderType ==
  ASSUME PipeInv
  PROVE  Preorder(next, pipe) \in Seq(Filters)
<1>1. pipe \in Filters \cup {Null}
  BY DEF PipeInv, TypeOK
<1>2. pipe = Null => Preorder(next, pipe) = <<>>
  BY DEF Preorder
<1>3. pipe # Null => Preorder(next, pipe) = Preorders(next)[pipe]
  BY DEF Preorder
<1>4. Preorders(next) \in [Filters -> Seq(Filters)]
  BY TreeType, PreorderEquation
<1>5. <<>> \in Seq(Filters)
  OBVIOUS
<1>6. QED
  BY <1>1, <1>2, <1>3, <1>4, <1>5

(* write preserves the strengthening.                                      *)
LEMMA WriteNext ==
  ASSUME PipeInv, NEW x \in Items, Write(x)
  PROVE  PipeInv'
<1>1. <<x>> \in Seq(Items)
  OBVIOUS
<1>2. Received(store, Entry, <<x>>) \in Stores
  BY <1>1, TreeType, ReceivedType
<1>3. store' \in Stores /\ written' \in Seq(Items)
  BY <1>2 DEF Write, PipeInv, TypeOK
<1>4. UNCHANGED <<tree, inside_msg, outputs, default_read, made, failed, throws, wild>>
  BY DEF Write
<1>5. TypeOK'
  BY <1>3, <1>4 DEF PipeInv, TypeOK, tree, outputs, Stores, MessageCount
<1>6. QED
  BY <1>4, <1>5, QuietNext

(* So does a write in which a filter throws,                               *)
LEMMA WriteThrowsNext ==
  ASSUME PipeInv, NEW x \in Items, NEW n \in 0 .. MaxQueues, WriteThrows(x, n)
  PROVE  PipeInv'
<1>1. <<x>> \in Seq(Items)
  OBVIOUS
<1>2. Received(store, SubSeq(Entry, 1, n), <<x>>) \in Stores
  BY <1>1, TreeType, ReceivedType
<1>3. store' \in Stores /\ throws' \in 0 .. MaxThrows
  BY <1>2, BoundsAssumption DEF WriteThrows, Throws, PipeInv, TypeOK
<1>4. UNCHANGED <<tree, inside_msg, outputs, default_read, made, failed, written, wild>>
  BY DEF WriteThrows
<1>5. TypeOK'
  BY <1>3, <1>4 DEF PipeInv, TypeOK, tree, outputs, Stores, MessageCount
<1>6. QED
  BY <1>4, <1>5, QuietNext

(* and an end_msg in which one does.                                       *)
LEMMA EndMsgThrowsNext ==
  ASSUME PipeInv, NEW n \in 1 .. Cardinality(Filters), EndMsgThrows(n)
  PROVE  PipeInv'
<1>1. PICK filters : filters = Preorder(next, pipe)
  OBVIOUS
<1>2. filters \in Seq(Filters)
  BY <1>1, PreorderType
<1>3. n <= Len(filters)
  BY <1>1 DEF EndMsgThrows
<1>0. Cardinality(Filters) \in Nat
  BY FiltersAssumption, FS_CardinalityType
<1>4. n - 1 \in 0 .. Len(filters) /\ n \in 1 .. Len(filters) /\ filters[n] \in Filters
  BY <1>0, <1>2, <1>3
<1>5. FinishMsg(filters, n - 1) \in Stores
  BY <1>2, <1>4, TreeType, FinishType
<1>6. store' \in PartlyFlushed(FinishMsg(filters, n - 1), filters[n])
  BY <1>1 DEF EndMsgThrows
<1>7. store' \in Stores
  BY <1>4, <1>5, <1>6, PartlyFlushedType
<1>8. throws' \in 0 .. MaxThrows
  BY BoundsAssumption DEF EndMsgThrows, Throws, PipeInv, TypeOK
<1>9. UNCHANGED <<tree, inside_msg, outputs, default_read, made, failed, written, wild>>
  BY DEF EndMsgThrows
<1>10. TypeOK'
  BY <1>7, <1>8, <1>9 DEF PipeInv, TypeOK, tree, outputs, Stores, MessageCount
<1>11. QED
  BY <1>9, <1>10, QuietNext

(* read takes from the front of a queue.                                   *)
LEMMA ReadNext ==
  ASSUME PipeInv, NEW m \in Queues, NEW n \in ReadSizes, Read(m, n)
  PROVE  PipeInv'
<1>1. PICK q : q = buffers[m - offset + 1] /\ store' = [store EXCEPT ![q] = SubSeq(@, n + 1, Len(@))]
  BY DEF Read
<1>2. m \in Nat /\ offset \in Nat /\ buffers \in Seq(Queues) /\ n \in Nat
  BY BoundsAssumption DEF Queues, PipeInv, TypeOK
<1>3. m - offset + 1 \in 1 .. Len(buffers)
  BY <1>2 DEF Read, MessageCount
<1>4. q \in Queues
  BY <1>1, <1>2, <1>3
<1>5. store[q] \in Seq(Items)
  BY <1>4, TreeType DEF Stores
<1>6. SubSeq(store[q], n + 1, Len(store[q])) \in Seq(Items)
  <2>1. PICK a, k : a = store[q] /\ k = Len(store[q])
    OBVIOUS
  <2>2. a \in Seq(Items) /\ k = Len(a) /\ k \in Nat /\ n + 1 \in 1 .. n + 1
    BY <1>2, <1>5, <2>1
  <2>3. SubSeq(a, n + 1, k) \in Seq(Items)
    BY <1>2, <2>2
  <2>4. QED
    BY <2>1, <2>3
<1>7. store' \in Stores
  BY <1>1, <1>4, <1>6, TreeType DEF Stores
<1>8. UNCHANGED <<tree, inside_msg, outputs, default_read, made, failed, written, throws, wild>>
  BY DEF Read
<1>9. TypeOK'
  BY <1>7, <1>8 DEF PipeInv, TypeOK, tree, outputs, Stores, MessageCount
<1>10. QED
  BY <1>8, <1>9, QuietNext

(* set_default_msg takes only the number of a message there is.            *)
LEMMA SetDefaultMsgNext ==
  ASSUME PipeInv, NEW m \in Queues, SetDefaultMsg(m)
  PROVE  PipeInv'
<1>1. UNCHANGED <<tree, inside_msg, outputs, made, failed, wild>>
  BY DEF SetDefaultMsg
<1>2. TypeOK'
  <2>1. m \in Nat
    BY BoundsAssumption DEF Queues
  <2>2. QED
    BY <2>1 DEF SetDefaultMsg, PipeInv, TypeOK, tree, outputs, MessageCount
<1>3. QED
  BY <1>1, <1>2, QuietNext

(* Between messages no port leads to a queue.                              *)
LEMMA IdlePorts ==
  ASSUME PipeInv, NotInUse
  PROVE  /\ \A f \in Filters : \A j \in DOMAIN next[f] : next[f][j] \in Filters \cup {Null}
         /\ pipe # NullFilter /\ NullFilter \notin alive
  BY TreeType DEF PipeInv, QueueInv, RootsInv, NotInUse, IsPorts, Nodes

(* The program does not have the pipe's Null_Filter to give.               *)
LEMMA TopLevelFilters == TopLevel \subseteq Filters \ {NullFilter}
  BY BuiltAssumption DEF TopLevel

(* What the strengthening says of the filters that nothing leads to.       *)
LEMMA RootFacts ==
  ASSUME PipeInv
  PROVE  /\ \A x \in Filters \ alive : next[x] = NoPorts /\ ~HasParent(next, x)
         /\ alive \subseteq Filters /\ pipe \in alive \cup {Null}
         /\ pipe # Null => ~HasParent(next, pipe)
         /\ ~HasParent(next, NullFilter)
         /\ \A x \in TopLevel \ owned : x \in alive /\ x # pipe /\ ~HasParent(next, x)
         /\ ForksStandAlone =>
              \A x \in alive : HasParent(next, x) \/ x = pipe \/ x \in TopLevel \ owned
  BY DEF PipeInv, RootsInv, TypeOK

(* A root g is attached to the tree of another root f.                     *)
Joins(f, g) ==
  /\ f \in alive /\ g \in alive /\ f # g /\ ~HasParent(next, f) /\ ~HasParent(next, g)
  /\ next' = Attached(next, f, g)

(* What attach does to the trees: everything stays where it was, and g is  *)
(* where nothing was.                                                      *)
LEMMA JoinedTree ==
  ASSUME PipeInv, NotInUse, NEW f \in Filters, NEW g \in Filters, Joins(f, g)
  PROVE  /\ next' \in [Filters -> Seq(Nodes)] /\ Forest(next')
         /\ \A x \in Filters : next'[x] # <<>>
         /\ \A x \in Filters : \A j \in DOMAIN next'[x] : next'[x][j] \in Filters \cup {Null}
         /\ \A x \in Filters : HasParent(next', x) <=> HasParent(next, x) \/ x = g
         /\ \A x \in Filters \ alive : next'[x] = NoPorts
         /\ \A x \in Filters : Len(next'[x]) = Len(next[x])
         /\ \A x \in Filters : next[x][1] \in Filters => next'[x][1] = next[x][1]
         /\ IsFree(next, f)
<1> DEFINE l == LastOf(next)[f]
<1>1. /\ Forest(next') /\ IsPorts(next') /\ l \in Filters /\ next[l][1] \notin Filters
      /\ \A x \in Filters : DOMAIN next'[x] = DOMAIN next[x]
      /\ \A x \in Filters : \A j \in DOMAIN next[x] :
           next'[x][j] = IF x = l /\ j = 1 THEN g ELSE next[x][j]
  BY TreeType, AttachedForest DEF Joins
<1>2. \A x \in Filters : next[x] \in Seq(Nodes) /\ next[x] # <<>> /\ next'[x] \in Seq(Nodes)
  BY <1>1, TreeType DEF IsPorts
<1>3. \A x \in Filters : 1 \in DOMAIN next[x] /\ Len(next'[x]) = Len(next[x]) /\ next'[x] # <<>>
  BY <1>1, <1>2
<1>4. next[l][1] = Null
  BY <1>1, <1>3, IdlePorts
<1>5. \A x \in Filters : HasParent(next', x) <=> HasParent(next, x) \/ x = g
  <2>1. \A x \in Filters : HasParent(next', x) => HasParent(next, x) \/ x = g
    BY <1>1 DEF HasParent
  <2>2. ASSUME NEW x \in Filters, HasParent(next, x) PROVE HasParent(next', x)
    <3>1. PICK y \in Filters : \E j \in DOMAIN next[y] : next[y][j] = x
      BY <2>2 DEF HasParent
    <3>2. PICK j \in DOMAIN next[y] : next[y][j] = x
      BY <3>1
    <3>3. next'[y][j] = x /\ j \in DOMAIN next'[y]
      BY <1>1, <3>2
    <3>4. QED
      BY <3>3 DEF HasParent
  <2>3. HasParent(next', g)
    <3>1. next'[l][1] = g /\ 1 \in DOMAIN next'[l]
      BY <1>1, <1>3
    <3>2. QED
      BY <1>1, <3>1 DEF HasParent
  <2>4. QED
    BY <2>1, <2>2, <2>3
<1>6. l \in alive
  <2>1. PICK W : IsWay(W, next, f)
    BY TreeType, WayToLast
  <2>2. l = f \/ HasParent(next, l)
    <3>1. l # f => \E y \in W : l = next[y][1]
      BY <2>1 DEF IsWay
    <3>2. W \subseteq Filters
      BY <2>1 DEF IsWay
    <3>3. QED
      BY <1>3, <3>1, <3>2 DEF HasParent
  <2>3. QED
    BY <1>1, <2>2 DEF PipeInv, RootsInv, Joins
<1>7. \A x \in Filters \ alive : next'[x] = NoPorts
  <2>1. \A x \in Filters \ alive : next[x] = NoPorts
    BY DEF PipeInv, RootsInv
  <2>2. \A x \in Filters \ alive : next'[x] = next[x]
    <3> SUFFICES ASSUME NEW x \in Filters \ alive PROVE next'[x] = next[x]
      OBVIOUS
    <3>1. \A j \in DOMAIN next[x] : next'[x][j] = next[x][j]
      BY <1>1, <1>6
    <3>2. QED
      BY <1>1, <1>2, <1>3, <3>1
  <2>3. QED
    BY <2>1, <2>2
<1>8. \A x \in Filters : \A j \in DOMAIN next'[x] : next'[x][j] \in Filters \cup {Null}
  BY <1>1, IdlePorts
<1>9. \A x \in Filters : next[x][1] \in Filters => next'[x][1] = next[x][1]
  BY <1>1, <1>3
<1>10. IsFree(next, f)
  BY <1>4 DEF IsFree
<1>11. QED
  BY <1>1, <1>3, <1>5, <1>7, <1>8, <1>9, <1>10 DEF IsPorts

(* Chains keep their filters if nothing before the end of them changes.    *)
LEMMA ChainKept ==
  ASSUME PipeInv,
         alive' \subseteq alive \cup {NullFilter},
         \A x \in alive' : Len(next'[x]) = Len(next[x]),
         \A x \in alive' : next[x][1] \in Filters => next[x][1] \in alive' /\ next'[x][1] = next[x][1]
  PROVE  ChainInv'
<1> SUFFICES ASSUME NEW f \in alive'
             PROVE  \E path \in [0 .. Owns(f) -> Filters] :
                      /\ path[0] = f
                      /\ \A i \in 1 .. Owns(f) : path[i] = next'[path[i - 1]][1]
                      /\ ForksStandAlone => \A i \in 1 .. Owns(f) : Len(next'[path[i]]) = 1
  BY DEF ChainInv
<1>0. CASE f = NullFilter
  <2>1. Owns(f) = 0 /\ f \in Filters
    BY <1>0, FiltersAssumption DEF Owns
  <2>2. PICK path : path = [i \in 0 .. 0 |-> f]
    OBVIOUS
  <2>3. path \in [0 .. Owns(f) -> Filters] /\ path[0] = f /\ 1 .. Owns(f) = {}
    BY <2>1, <2>2
  <2>4. QED
    BY <2>3
<1> SUFFICES ASSUME f # NullFilter PROVE \E path \in [0 .. Owns(f) -> Filters] :
                      /\ path[0] = f
                      /\ \A i \in 1 .. Owns(f) : path[i] = next'[path[i - 1]][1]
                      /\ ForksStandAlone => \A i \in 1 .. Owns(f) : Len(next'[path[i]]) = 1
  BY <1>0
<1>1. PICK path \in [0 .. Owns(f) -> Filters] :
        /\ path[0] = f
        /\ \A i \in 1 .. Owns(f) : path[i] = next[path[i - 1]][1]
        /\ ForksStandAlone => \A i \in 1 .. Owns(f) : Len(next[path[i]]) = 1
  BY DEF PipeInv, ChainInv
<1>2. Owns(f) \in Nat
  BY FiltersAssumption, BuiltAssumption DEF Owns, Members, PipeInv, TypeOK
<1>3. PICK T : T = {i \in 0 .. Owns(f) : path[i] \in alive'}
  OBVIOUS
<1>4. 0 \in T
  BY <1>1, <1>2, <1>3
<1>5. ASSUME NEW i \in 0 .. Owns(f), i # Owns(f), i \in T PROVE i + 1 \in T
  <2>1. i + 1 \in 1 .. Owns(f) /\ i + 1 \in 0 .. Owns(f) /\ (i + 1) - 1 = i
    BY <1>2, <1>5
  <2>2. path[i + 1] = next[path[i]][1] /\ path[i + 1] \in Filters /\ path[i] \in alive'
    BY <1>1, <1>3, <1>5, <2>1
  <2>3. QED
    BY <1>3, <2>1, <2>2
<1>6. 0 .. Owns(f) \subseteq T
  <2>1. 0 \in Nat
    OBVIOUS
  <2>2. QED
    BY ONLY <1>2, <1>4, <1>5, <2>1, IntervalInduction
<1>7. \A i \in 0 .. Owns(f) : path[i] \in alive'
  BY <1>3, <1>6
<1>8. \A i \in 1 .. Owns(f) : i \in 0 .. Owns(f) /\ i - 1 \in 0 .. Owns(f)
  BY <1>2
<1>9. \A i \in 1 .. Owns(f) : path[i] = next'[path[i - 1]][1]
  BY <1>1, <1>7, <1>8
<1>10. ForksStandAlone => \A i \in 1 .. Owns(f) : Len(next'[path[i]]) = 1
  BY <1>1, <1>7, <1>8
<1>11. QED
  BY <1>1, <1>9, <1>10

(* The first filter given to a pipe.                                       *)
LEMMA FirstNext ==
  ASSUME PipeInv, NotInUse, NEW f \in TopLevel \ owned, owned' = owned \cup {f},
         UNCHANGED <<alive, inside_msg, outputs, default_read, store, made, failed, written, throws, wild>>,
         pipe = Null, next' = next, pipe' = f
  PROVE  PipeInv'
<1>1. /\ f \in Filters /\ f # NullFilter /\ f \in alive /\ ~HasParent(next, f)
      /\ pipe \notin alive
  BY TopLevelFilters, RootFacts, FiltersAssumption
<1>2. TypeOK'
  BY <1>1 DEF PipeInv, TypeOK, outputs, MessageCount
<1>3. RootsInv'
  <2>1. ForksStandAlone =>
          \A x \in alive : HasParent(next, x) \/ x = pipe' \/ x \in TopLevel \ owned'
    <3>1. \A x \in alive : x # pipe
      BY <1>1
    <3>2. QED
      BY <3>1, RootFacts
  <2>2. \A x \in TopLevel \ owned' : x \in alive /\ x # pipe' /\ ~HasParent(next, x)
    BY RootFacts
  <2>3. pipe' # NullFilter /\ NullFilter \notin alive
    BY <1>1, IdlePorts
  <2>4. pipe' # Null /\ ~HasParent(next, pipe') /\ pipe' \in alive
    BY <1>1, FiltersAssumption
  <2>5. ~inside_msg' /\ ~failed'
    BY DEF NotInUse
  <2>6. \A x \in Filters : next[x] # <<>>
    BY TreeType
  <2>7. QED
    BY <2>1, <2>2, <2>3, <2>4, <2>5, <2>6, RootFacts DEF RootsInv
<1>4. QueueInv'
  <2>1. ~inside_msg' /\ ~failed' /\ buffers' = buffers /\ offset' = offset /\ next' = next
    BY DEF NotInUse, outputs
  <2>2. \A x \in Filters : \A j \in DOMAIN next'[x] : next'[x][j] \notin Queues
    BY <2>1, IdlePorts, FiltersAssumption
  <2>3. QED
    BY <2>1, <2>2 DEF QueueInv, PipeInv
<1>5. ChainInv'
  BY DEF PipeInv, ChainInv
<1>6. QED
  BY <1>2, <1>3, <1>4, <1>5 DEF PipeInv

(* Another one, before or after it: a is the new root, b its descendant.   *)
LEMMA JoinNext ==
  ASSUME PipeInv, NotInUse, NEW f \in TopLevel \ owned, owned' = owned \cup {f},
         UNCHANGED <<alive, inside_msg, outputs, default_read, store, made, failed, written, throws, wild>>,
         pipe # Null, NEW a, NEW b, {a, b} = {f, pipe}, next' = Attached(next, a, b), pipe' = a
  PROVE  PipeInv'
<1>1. /\ f \in Filters /\ f # NullFilter /\ f \in alive /\ ~HasParent(next, f) /\ f # pipe
      /\ pipe \in alive /\ pipe \in Filters /\ pipe # NullFilter /\ ~HasParent(next, pipe)
      /\ alive \subseteq Filters
  BY TopLevelFilters, RootFacts, IdlePorts
<1>2. /\ a \in Filters /\ b \in Filters /\ a \in alive /\ b \in alive /\ a # b
      /\ a # NullFilter /\ b # NullFilter /\ ~HasParent(next, a) /\ ~HasParent(next, b)
  BY <1>1
<1>3. Joins(a, b)
  BY <1>2 DEF Joins
<1>4. /\ next' \in [Filters -> Seq(Nodes)] /\ Forest(next')
      /\ \A x \in Filters : next'[x] # <<>>
      /\ \A x \in Filters : \A j \in DOMAIN next'[x] : next'[x][j] \in Filters \cup {Null}
      /\ \A x \in Filters : HasParent(next', x) <=> HasParent(next, x) \/ x = b
      /\ \A x \in Filters \ alive : next'[x] = NoPorts
      /\ \A x \in Filters : Len(next'[x]) = Len(next[x])
      /\ \A x \in Filters : next[x][1] \in Filters => next'[x][1] = next[x][1]
  BY <1>2, <1>3, JoinedTree
<1>5. TypeOK'
  BY <1>1, <1>2, <1>4 DEF PipeInv, TypeOK, outputs, MessageCount, Nodes
<1>6. RootsInv'
  <2>0. \A x \in Filters : HasParent(next', x) <=> HasParent(next, x) \/ x = b
    BY <1>4
  <2>1. \A x \in Filters \ alive : next'[x] = NoPorts /\ ~HasParent(next', x)
    <3> SUFFICES ASSUME NEW x \in Filters, x \notin alive PROVE next'[x] = NoPorts /\ ~HasParent(next', x)
      OBVIOUS
    <3>1. x # b /\ ~HasParent(next, x)
      BY <1>2, RootFacts
    <3>2. QED
      BY <1>4, <2>0, <3>1
  <2>2. ~HasParent(next', a) /\ ~HasParent(next', NullFilter)
    BY <1>2, <2>0, FiltersAssumption, RootFacts
  <2>3. \A x \in TopLevel \ owned' : x \in alive /\ x # a /\ ~HasParent(next', x)
    <3> SUFFICES ASSUME NEW x \in TopLevel, x \notin owned, x # f
                 PROVE  x \in alive /\ x # a /\ ~HasParent(next', x)
      OBVIOUS
    <3>1. x \in alive /\ x # pipe /\ ~HasParent(next, x) /\ x \in Filters
      BY <1>1, RootFacts
    <3>2. x # a /\ x # b
      BY <3>1
    <3>3. QED
      BY <2>0, <3>1, <3>2
  <2>4. ForksStandAlone => \A x \in alive : HasParent(next', x) \/ x = a \/ x \in TopLevel \ owned'
    <3> SUFFICES ASSUME ForksStandAlone, NEW x \in alive
                 PROVE  HasParent(next', x) \/ x = a \/ x \in TopLevel \ owned'
      OBVIOUS
    <3>1. HasParent(next, x) \/ x = pipe \/ x \in TopLevel \ owned
      BY RootFacts
    <3>2. x \in Filters
      BY <1>1
    <3>3. QED
      BY <2>0, <3>1, <3>2
  <2>5. a # NullFilter /\ NullFilter \notin alive
    BY <1>2, IdlePorts
  <2>6. ~inside_msg' /\ ~failed' /\ \A x \in Filters : next'[x] # <<>>
    BY <1>4 DEF NotInUse
  <2>7. QED
    BY <1>2, <2>1, <2>2, <2>3, <2>4, <2>5, <2>6 DEF RootsInv
<1>7. QueueInv'
  <2>1. ~inside_msg' /\ ~failed' /\ buffers' = buffers /\ offset' = offset
    BY DEF NotInUse, outputs
  <2>2. \A x \in Filters : \A j \in DOMAIN next'[x] : next'[x][j] \notin Queues
    BY <1>4, FiltersAssumption
  <2>3. QED
    BY <2>1, <2>2 DEF QueueInv, PipeInv
<1>8. ChainInv'
  <2>1. \A x \in alive : next[x][1] \in Filters => next[x][1] \in alive
    <3>1. \A x \in alive : 1 \in DOMAIN next[x]
      BY <1>1, TreeType DEF IsPorts
    <3>2. QED
      BY <1>1, <3>1 DEF PipeInv, RootsInv, HasParent
  <2>2. \A x \in alive' : next[x][1] \in Filters => next[x][1] \in alive' /\ next'[x][1] = next[x][1]
    <3>1. \A x \in Filters : next[x][1] \in Filters => next'[x][1] = next[x][1]
      BY <1>4
    <3>2. QED
      BY <1>1, <2>1, <3>1
  <2>3. \A x \in alive' : Len(next'[x]) = Len(next[x])
    <3>1. \A x \in Filters : Len(next'[x]) = Len(next[x])
      BY <1>4
    <3>2. QED
      BY <1>1, <3>1
  <2>4. alive' \subseteq alive \cup {NullFilter}
    OBVIOUS
  <2>5. QED
    BY <2>2, <2>3, <2>4, ChainKept
<1>9. QED
  BY <1>4, <1>5, <1>6, <1>7, <1>8 DEF PipeInv

(* append() finds the end of the pipe free.                                *)
LEMMA EndIsFree ==
  ASSUME PipeInv, NotInUse, NEW f \in Filters
  PROVE  IsFree(next, f)
<1>1. LastOf(next)[f] \in Filters /\ next[LastOf(next)[f]][1] \notin Filters
  BY TreeType, LastIsLast
<1>2. 1 \in DOMAIN next[LastOf(next)[f]]
  BY <1>1, TreeType DEF IsPorts
<1>3. QED
  BY <1>1, <1>2, IdlePorts DEF IsFree

(* append makes the pipe's tree larger at its end.                         *)
LEMMA AppendNext ==
  ASSUME NotInUse, PipeInv, NEW f \in TopLevel, AppendFilter(f)
  PROVE  PipeInv'
<1>1. NotInUse /\ f \in TopLevel \ owned
  BY DEF AppendFilter
<1>2. pipe # Null => IsFree(next, pipe)
  BY <1>1, EndIsFree, RootFacts
<1>3. /\ owned' = owned \cup {f}
      /\ UNCHANGED <<alive, inside_msg, outputs, default_read, store, made, failed, written, throws, wild>>
  BY <1>2 DEF AppendFilter, Untouched
<1>4. CASE pipe = Null
  <2>1. next' = next /\ pipe' = f
    BY <1>4 DEF AppendFilter
  <2>2. QED
    BY <1>1, <1>3, <1>4, <2>1, FirstNext
<1>5. CASE pipe # Null
  <2>1. next' = Attached(next, pipe, f) /\ pipe' = pipe
    BY <1>2, <1>5 DEF AppendFilter
  <2>2. {pipe, f} = {f, pipe}
    OBVIOUS
  <2>3. QED
    BY <1>1, <1>3, <1>5, <2>1, <2>2, JoinNext
<1>6. QED
  BY <1>4, <1>5

(* prepend attaches the pipe's tree to the new filter.                     *)
LEMMA PrependNext ==
  ASSUME NotInUse, PipeInv, NEW f \in TopLevel, Prepend(f)
  PROVE  PipeInv'
<1>1. NotInUse /\ f \in TopLevel \ owned
  BY DEF Prepend
<1>3. /\ owned' = owned \cup {f} /\ pipe' = f
      /\ UNCHANGED <<alive, inside_msg, outputs, default_read, store, made, failed, written, throws, wild>>
  BY DEF Prepend, Untouched
<1>4. CASE pipe = Null
  <2>1. next' = next
    BY <1>4 DEF Prepend
  <2>2. QED
    BY <1>1, <1>3, <1>4, <2>1, FirstNext
<1>5. CASE pipe # Null
  <2>1. next' = Attached(next, f, pipe)
    BY <1>5 DEF Prepend
  <2>2. {f, pipe} = {f, pipe}
    OBVIOUS
  <2>3. QED
    BY <1>1, <1>3, <1>5, <2>1, <2>2, JoinNext
<1>6. QED
  BY <1>4, <1>5

(* A filter that a port leads to is not deleted.                           *)
LEMMA ChildAlive ==
  ASSUME PipeInv, NEW x \in Filters, NEW j \in DOMAIN next[x], next[x][j] \in Filters
  PROVE  next[x][j] \in alive
<1>1. HasParent(next, next[x][j])
  BY DEF HasParent
<1>2. QED
  BY <1>1, RootFacts
(* The top of the pipe is deleted: with each of the filters that are gone  *)
(* what leads to it; and what they lead to, but for the new first filter.  *)
LEMMA RemovedNext ==
  ASSUME PipeInv, NEW gone \in SUBSET Filters,
         next' = [f \in Filters |-> IF f \in gone THEN NoPorts ELSE next[f]],
         alive' = alive \ gone, inside_msg' = FALSE, failed' = FALSE,
         UNCHANGED <<owned, outputs, default_read, store, made, written, throws, wild>>,
         \A x \in Filters : \A j \in DOMAIN next[x] :
           /\ next[x][j] \in gone => x \in gone
           /\ next[x][j] \in Queues => x \in gone
           /\ next[x][j] = pipe' /\ pipe' # Null => x \in gone,
         ForksStandAlone =>
           \A x \in gone : \A j \in DOMAIN next[x] : next[x][j] \in Filters => next[x][j] \in gone \cup {pipe'},
         pipe # Null => pipe \in gone,
         gone \cap (TopLevel \ owned) = {},
         pipe' \in alive' \cup {Null}, pipe' \notin TopLevel \ owned, pipe' # NullFilter
  PROVE  PipeInv'
<1>1. /\ NoPorts \in Seq(Nodes) /\ NoPorts # <<>> /\ DOMAIN NoPorts = {1} /\ NoPorts[1] = Null
      /\ Null \notin Filters /\ Null \notin Queues
  BY FiltersAssumption DEF NoPorts, Nodes
<1> HIDE DEF NoPorts
<1>2. /\ next' \in [Filters -> Seq(Nodes)] /\ \A x \in Filters : next'[x] # <<>>
      /\ \A x \in gone : next'[x] = NoPorts
      /\ \A x \in Filters \ gone : next'[x] = next[x]
  BY <1>1, TreeType DEF IsPorts
<1>3. \A x \in Filters : \A j \in DOMAIN next'[x] : next'[x][j] # Null =>
        x \notin gone /\ j \in DOMAIN next[x] /\ next[x][j] = next'[x][j]
  BY <1>1, <1>2
<1>4. TypeOK'
  <2>1. alive' \subseteq Filters /\ pipe' \in Filters \cup {Null}
    BY RootFacts
  <2>2. QED
    BY <1>2, <2>1 DEF PipeInv, TypeOK, outputs, MessageCount, Nodes
<1>5. Forest(next')
  <2>1. OneParent(next')
    BY <1>3, TreeType DEF OneParent
  <2>2. Acyclic(next')
    <3> SUFFICES ASSUME NEW T \in SUBSET Filters, T # {}
                 PROVE  \E f \in T : \A j \in DOMAIN next'[f] : next'[f][j] \notin T
      BY DEF Acyclic
    <3>1. PICK x \in T : \A j \in DOMAIN next[x] : next[x][j] \notin T
      BY TreeType DEF Acyclic
    <3>2. \A j \in DOMAIN next'[x] : next'[x][j] \notin T
      BY <1>1, <1>3, <3>1
    <3>3. QED
      BY <3>2
  <2>3. QED
    BY <2>1, <2>2 DEF Forest
<1>6. \A x \in Filters : HasParent(next', x) <=>
        \E y \in Filters \ gone : \E j \in DOMAIN next[y] : next[y][j] = x
  BY <1>1, <1>2, <1>3 DEF HasParent
<1>7. RootsInv'
  <2>1. \A x \in Filters \ alive' : next'[x] = NoPorts /\ ~HasParent(next', x)
    <3> SUFFICES ASSUME NEW x \in Filters, x \notin alive'
                 PROVE  next'[x] = NoPorts /\ ~HasParent(next', x)
      OBVIOUS
    <3>1. CASE x \in gone
      BY <1>2, <1>6, <3>1
    <3>2. CASE x \notin gone
      <4>1. x \notin alive /\ next[x] = NoPorts /\ ~HasParent(next, x)
        BY <3>2, RootFacts
      <4>2. QED
        BY <1>2, <1>6, <3>2, <4>1 DEF HasParent
    <3>3. QED
      BY <3>1, <3>2
  <2>2. pipe' # Null => ~HasParent(next', pipe')
    BY <1>6, RootFacts
  <2>3. ~HasParent(next', NullFilter)
    <3>1. ~HasParent(next, NullFilter) /\ NullFilter \in Filters
      BY RootFacts, FiltersAssumption
    <3>2. QED
      BY <1>6, <3>1 DEF HasParent
  <2>4. \A x \in TopLevel \ owned' : x \in alive' /\ x # pipe' /\ ~HasParent(next', x)
    <3> SUFFICES ASSUME NEW x \in TopLevel, x \notin owned
                 PROVE  x \in alive' /\ x # pipe' /\ ~HasParent(next', x)
      OBVIOUS
    <3>1. x \in alive /\ ~HasParent(next, x) /\ x \in Filters /\ x \notin gone
      BY RootFacts
    <3>2. QED
      BY <1>6, <3>1 DEF HasParent
  <2>5. ForksStandAlone => \A x \in alive' : HasParent(next', x) \/ x = pipe' \/ x \in TopLevel \ owned'
    <3> SUFFICES ASSUME ForksStandAlone, NEW x \in alive'
                 PROVE  HasParent(next', x) \/ x = pipe' \/ x \in TopLevel \ owned'
      OBVIOUS
    <3>1. x \in alive /\ x \in Filters /\ x \notin gone
      BY RootFacts
    <3>2. HasParent(next, x) \/ x = pipe \/ x \in TopLevel \ owned
      BY <3>1, RootFacts
    <3>3. x # pipe
      BY <1>1, <3>1
    <3>4. ASSUME HasParent(next, x) PROVE HasParent(next', x) \/ x = pipe'
      <4>0. PICK y \in Filters : \E j \in DOMAIN next[y] : next[y][j] = x
        BY <3>4 DEF HasParent
      <4>1. PICK j \in DOMAIN next[y] : next[y][j] = x
        BY <4>0
      <4>2. CASE y \in gone
        BY <3>1, <4>1, <4>2
      <4>3. CASE y \notin gone
        BY <1>6, <3>1, <4>1, <4>3
      <4>4. QED
        BY <4>2, <4>3
    <3>5. QED
      BY <3>2, <3>3, <3>4
  <2>6. NullFilter \notin alive'
    BY FiltersAssumption DEF PipeInv, RootsInv
  <2>7. QED
    BY <1>2, <2>1, <2>2, <2>3, <2>4, <2>5, <2>6 DEF RootsInv
<1>8. QueueInv'
  <2>1. buffers' = buffers /\ offset' = offset
    BY DEF outputs
  <2>2. \A x \in Filters : \A j \in DOMAIN next'[x] : next'[x][j] \notin Queues
    BY <1>1, <1>3
  <2>3. QED
    BY <2>1, <2>2 DEF QueueInv, PipeInv
<1>9. ChainInv'
  <2>1. \A x \in alive' : x \in Filters \ gone /\ 1 \in DOMAIN next[x]
    BY RootFacts, TreeType DEF IsPorts
  <2>2. \A x \in alive' : next[x][1] \in Filters => next[x][1] \in alive' /\ next'[x][1] = next[x][1]
    BY <1>2, <2>1, ChildAlive
  <2>3. \A x \in alive' : Len(next'[x]) = Len(next[x])
    BY <1>2, <2>1
  <2>4. alive' \subseteq alive \cup {NullFilter}
    OBVIOUS
  <2>5. QED
    BY <2>2, <2>3, <2>4, ChainKept
<1>10. QED
  BY <1>4, <1>5, <1>7, <1>8, <1>9 DEF PipeInv

(* reset deletes the whole tree: nothing else leads into it.               *)
LEMMA ResetNext ==
  ASSUME PipeInv, Reset
  PROVE  PipeInv'
<1>1. PICK gone : gone = ToSet(Preorder(next, pipe))
  OBVIOUS
<1>2. /\ pipe = Null => gone = {}
      /\ pipe # Null => gone = Below(next, pipe) /\ pipe \in Filters
  BY <1>1, RootFacts DEF Preorder, Below, ToSet
<1>3. /\ gone \subseteq Filters /\ (pipe # Null => pipe \in gone)
      /\ \A x \in gone : \A j \in DOMAIN next[x] : next[x][j] \in Filters => next[x][j] \in gone
      /\ \A x \in gone \ {pipe} : \E y \in gone : \E j \in DOMAIN next[y] : next[y][j] = x
  BY <1>2, TreeType, BelowType, BelowClosed
<1>4. /\ next' = [f \in Filters |-> IF f \in gone THEN NoPorts ELSE next[f]]
      /\ alive' = alive \ gone /\ inside_msg' = FALSE /\ failed' = FALSE /\ pipe' = Null
      /\ UNCHANGED <<owned, outputs, default_read, store, made, written, throws, wild>>
  BY <1>1, TreeType DEF Reset, Destructed, PipeInv, TypeOK
<1>5. ASSUME NEW x \in Filters, NEW j \in DOMAIN next[x], next[x][j] \in gone PROVE x \in gone
  <2>1. next[x][j] # pipe
    BY <1>5, <1>3, RootFacts, FiltersAssumption DEF HasParent
  <2>2. PICK y \in gone : \E k \in DOMAIN next[y] : next[y][k] = next[x][j]
    BY <1>3, <1>5, <2>1
  <2>3. PICK k \in DOMAIN next[y] : next[y][k] = next[x][j]
    BY <2>2
  <2>4. y \in Filters /\ next[x][j] # Null
    BY <1>3, <1>5, FiltersAssumption
  <2>5. x = y
    BY <2>3, <2>4, TreeType DEF OneParent
  <2>6. QED
    BY <2>5
<1>6. \A x \in Filters : \A j \in DOMAIN next[x] : next[x][j] \in Queues => x \in gone
  BY <1>1 DEF PipeInv, QueueInv
<1>7. gone \cap (TopLevel \ owned) = {}
  <2> SUFFICES ASSUME NEW x \in gone, x \in TopLevel \ owned PROVE FALSE
    OBVIOUS
  <2>1. x # pipe /\ ~HasParent(next, x)
    BY RootFacts
  <2>2. QED
    BY <1>3, <2>1 DEF HasParent
<1>8. Null \notin TopLevel \ owned /\ Null # NullFilter
  BY TopLevelFilters, FiltersAssumption
<1>9. \A x \in Filters : \A j \in DOMAIN next[x] :
           /\ next[x][j] \in gone => x \in gone
           /\ next[x][j] \in Queues => x \in gone
           /\ next[x][j] = pipe' /\ pipe' # Null => x \in gone
  BY <1>4, <1>5, <1>6
<1>10. \A x \in gone : \A j \in DOMAIN next[x] : next[x][j] \in Filters => next[x][j] \in gone \cup {pipe'}
  BY <1>3
<1>11. QED
  BY <1>3, <1>4, <1>7, <1>8, <1>9, <1>10, RemovedNext

(* What pop deletes is a way down the first ports.                         *)
LEMMA PoppedPath ==
  ASSUME NEW k \in Nat, k = Owns(pipe), NEW path, IsPath(path, next, pipe, k)
  PROVE  /\ Popped(pipe) = [i \in 1 .. k + 1 |-> path[i - 1]]
         /\ ToSet(Popped(pipe)) = {path[i] : i \in 0 .. k} /\ Last(Popped(pipe)) = path[k]
<1> DEFINE Step(w) == [i \in 0 .. Owns(pipe) |-> IF i = 0 THEN pipe ELSE next[w[i - 1]][1]]
<1>1. path \in [0 .. k -> Filters] /\ path[0] = pipe /\ \A i \in 1 .. k : path[i] = next[path[i - 1]][1]
  BY DEF IsPath
<1>2. path = Step(path)
  <2>1. \A i \in 0 .. k : path[i] = IF i = 0 THEN pipe ELSE next[path[i - 1]][1]
    BY <1>1
  <2>2. QED
    BY <1>1, <2>1
<1>3. PICK G : G = CHOOSE w : w = Step(w)
  OBVIOUS
<1>4. G = Step(G)
  BY ONLY <1>2, <1>3, Zenon
<1>5. Popped(pipe) = [i \in 1 .. k + 1 |-> G[i - 1]]
  BY <1>3 DEF Popped
<1>6. PICK T : T = {i \in 0 .. k : G[i] = path[i]}
  OBVIOUS
<1>7. 0 \in Nat /\ 0 \in T
  BY <1>1, <1>4, <1>6
<1>8. ASSUME NEW i \in 0 .. k, i # k, i \in T PROVE i + 1 \in T
  <2>1. i + 1 \in 1 .. k /\ i + 1 \in 0 .. k /\ (i + 1) - 1 = i /\ i + 1 # 0
    BY <1>8
  <2>2. G[i + 1] = next[G[i]][1]
    BY <1>4, <2>1
  <2>3. path[i + 1] = next[path[i]][1]
    BY <1>1, <2>1
  <2>4. G[i] = path[i]
    BY <1>6, <1>8
  <2>5. QED
    BY <1>6, <2>1, <2>2, <2>3, <2>4
<1>9. 0 .. k \subseteq T
  BY ONLY <1>7, <1>8, k \in Nat, IntervalInduction
<1>10. \A i \in 1 .. k + 1 : i - 1 \in 0 .. k /\ G[i - 1] = path[i - 1]
  BY <1>6, <1>9
<1>11. PICK P : P = Popped(pipe)
  OBVIOUS
<1>12. P = [i \in 1 .. k + 1 |-> path[i - 1]]
  BY <1>5, <1>10, <1>11
<1>13. P \in Seq(Filters) /\ Len(P) = k + 1 /\ DOMAIN P = 1 .. k + 1
  <2>1. k + 1 \in Nat /\ \A i \in 1 .. k + 1 : path[i - 1] \in Filters
    BY <1>1, <1>10
  <2>2. QED
    BY ONLY <1>12, <2>1
<1>14. Last(P) = path[k]
  BY <1>12, <1>13 DEF Last
<1>15. ToSet(P) = {path[i] : i \in 0 .. k}
  <2>1. \A i \in 0 .. k : i + 1 \in 1 .. k + 1 /\ P[i + 1] = path[i]
    BY <1>12
  <2>2. \A i \in 1 .. k + 1 : i - 1 \in 0 .. k /\ P[i] = path[i - 1]
    BY <1>12
  <2>3. ToSet(P) = {P[i] : i \in 1 .. k + 1}
    BY <1>13 DEF ToSet
  <2>4. QED
    BY ONLY <2>1, <2>2, <2>3
<1>16. QED
  BY <1>11, <1>12, <1>14, <1>15

(* The filters that pop() deletes: down the first ports, with the pipe's   *)
(* first filter above each.                                                *)
LEMMA PoppedProperties ==
  ASSUME PipeInv, pipe \in alive
  PROVE  LET gone == ToSet(Popped(pipe))
             last == Last(Popped(pipe))
         IN /\ gone \subseteq Filters /\ pipe \in gone /\ last \in gone
            /\ \A x \in gone \ {pipe} : \E y \in gone : x = next[y][1]
            /\ \A x \in gone \ {last} : next[x][1] \in gone
            /\ ForksStandAlone => \A x \in gone \ {pipe} : Len(next[x]) = 1
<1>1. pipe \in Filters
  BY RootFacts
<1>2. PICK path \in [0 .. Owns(pipe) -> Filters] :
        /\ path[0] = pipe
        /\ \A i \in 1 .. Owns(pipe) : path[i] = next[path[i - 1]][1]
        /\ ForksStandAlone => \A i \in 1 .. Owns(pipe) : Len(next[path[i]]) = 1
  BY DEF PipeInv, ChainInv
<1>3. Owns(pipe) \in Nat
  BY <1>1, FiltersAssumption, BuiltAssumption DEF Owns, Members
<1>4. IsPath(path, next, pipe, Owns(pipe))
  BY <1>2 DEF IsPath
<1>5. PICK P, n : P = Popped(pipe) /\ n = Owns(pipe) + 1
  OBVIOUS
<1>6. P = [i \in 1 .. n |-> path[i - 1]]
  BY <1>3, <1>4, <1>5, PoppedPath
<1>13. /\ n \in Nat /\ n >= 1 /\ P = [i \in 1 .. n |-> P[i]]
       /\ \A i \in 1 .. n : P[i] = path[i - 1] /\ i - 1 \in 0 .. Owns(pipe)
  BY <1>3, <1>5, <1>6
<1>14. /\ DOMAIN P = 1 .. n /\ P[1] = pipe /\ \A i \in 1 .. n : P[i] \in Filters
       /\ \A i \in 2 .. n : P[i] = next[P[i - 1]][1] /\ (ForksStandAlone => Len(next[P[i]]) = 1)
  <2>1. DOMAIN P = 1 .. n /\ P[1] = pipe /\ \A i \in 1 .. n : P[i] \in Filters
    BY <1>2, <1>13
  <2>2. ASSUME NEW i \in 2 .. n
        PROVE  P[i] = next[P[i - 1]][1] /\ (ForksStandAlone => Len(next[P[i]]) = 1)
    <3>1. i \in 1 .. n /\ i - 1 \in 1 .. n /\ i - 1 \in 1 .. Owns(pipe)
      BY <1>3, <1>5, <2>2
    <3>2. P[i] = path[i - 1] /\ P[i - 1] = path[(i - 1) - 1]
      BY <1>13, <3>1
    <3>3. QED
      BY <1>2, <3>1, <3>2
  <2>3. QED
    BY <2>1, <2>2
<1>15. Len(P) = n /\ Last(P) = P[n] /\ ToSet(P) = {P[i] : i \in 1 .. n}
  BY <1>13, <1>14 DEF Last, ToSet
<1>16. \A x \in ToSet(P) \ {pipe} : \E i \in 2 .. n : x = P[i] /\ i - 1 \in 1 .. n
  BY <1>13, <1>14, <1>15
<1>18. \A x \in ToSet(P) \ {pipe} : (\E y \in ToSet(P) : x = next[y][1]) /\ (ForksStandAlone => Len(next[x]) = 1)
  BY <1>14, <1>15, <1>16
<1>19. ASSUME NEW x \in ToSet(P), x # Last(P) PROVE next[x][1] \in ToSet(P)
  <2>1. PICK i \in 1 .. n : x = P[i]
    BY <1>15
  <2>2. i # n
    BY <1>15, <1>19, <2>1
  <2>3. i + 1 \in 2 .. n /\ i + 1 \in 1 .. n /\ (i + 1) - 1 = i
    BY <1>13, <2>2
  <2>4. P[i + 1] = next[x][1]
    BY <1>14, <2>1, <2>3
  <2>5. QED
    BY <1>15, <2>3, <2>4
<1>20. ToSet(P) \subseteq Filters /\ pipe \in ToSet(P) /\ Last(P) \in ToSet(P)
  BY <1>13, <1>14, <1>15
<1>21. QED
  BY <1>5, <1>18, <1>19, <1>20

(* pop deletes the first filter and those it owns, and goes on with what   *)
(* is behind the last of them.                                             *)
LEMMA PopNext ==
  ASSUME NotInUse, PipeInv, Pop
  PROVE  PipeInv'
<1>1. NotInUse /\ pipe \in alive /\ pipe \in Filters /\ Len(next[pipe]) <= 1
  BY RootFacts DEF Pop
<1>2. PICK gone, last : gone = ToSet(Popped(pipe)) /\ last = Last(Popped(pipe))
  OBVIOUS
<1>3. /\ gone \subseteq Filters /\ pipe \in gone /\ last \in gone
      /\ \A x \in gone \ {pipe} : \E y \in gone : x = next[y][1]
      /\ \A x \in gone \ {last} : next[x][1] \in gone
      /\ ForksStandAlone => \A x \in gone \ {pipe} : Len(next[x]) = 1
  BY <1>1, <1>2, PoppedProperties
<1>4. \A x \in Filters : next[x] \in Seq(Nodes) /\ 1 \in DOMAIN next[x] /\ DOMAIN next[x] = 1 .. Len(next[x])
  BY TreeType DEF IsPorts
<1>5. next[last][1] \in Filters \cup {Null}
  BY <1>1, <1>3, <1>4, IdlePorts
<1>6. /\ next' = [f \in Filters |-> IF f \in gone THEN NoPorts ELSE next[f]]
      /\ alive' = alive \ gone /\ pipe' = next[last][1]
      /\ UNCHANGED <<inside_msg, failed, owned, outputs, default_read, store, made, written, throws, wild>>
  BY <1>2, <1>5 DEF Pop, Untouched
<1>7. inside_msg' = FALSE /\ failed' = FALSE
  BY <1>1, <1>6 DEF NotInUse, PipeInv, TypeOK
<1>8. ASSUME NEW x \in Filters, NEW j \in DOMAIN next[x], next[x][j] \in gone PROVE x \in gone
  <2>1. next[x][j] # pipe
    BY <1>1, <1>8, RootFacts, FiltersAssumption DEF HasParent
  <2>2. PICK y \in gone : next[x][j] = next[y][1]
    BY <1>3, <1>8, <2>1
  <2>3. y \in Filters /\ next[x][j] # Null /\ 1 \in DOMAIN next[y]
    BY <1>3, <1>4, <1>8, FiltersAssumption
  <2>4. x = y
    BY <2>2, <2>3, TreeType DEF OneParent
  <2>5. QED
    BY <2>4
<1>9. \A x \in Filters : \A j \in DOMAIN next[x] : next[x][j] \notin Queues
  BY <1>1, IdlePorts, FiltersAssumption
<1>10. ASSUME NEW x \in Filters, NEW j \in DOMAIN next[x], next[x][j] = pipe', pipe' # Null
       PROVE  x \in gone
  <2>1. last \in Filters /\ 1 \in DOMAIN next[last]
    BY <1>3, <1>4
  <2>2. x = last
    BY <1>6, <1>10, <2>1, TreeType DEF OneParent
  <2>3. QED
    BY <1>3, <2>2
<1>11. ForksStandAlone =>
         \A x \in gone : \A j \in DOMAIN next[x] : next[x][j] \in Filters => next[x][j] \in gone \cup {pipe'}
  <2> SUFFICES ASSUME ForksStandAlone, NEW x \in gone, NEW j \in DOMAIN next[x]
               PROVE  next[x][j] \in gone \cup {pipe'}
    OBVIOUS
  <2>1. Len(next[x]) \in Nat /\ Len(next[x]) <= 1 /\ j \in 1 .. Len(next[x])
    BY <1>1, <1>3, <1>4
  <2>2. j = 1
    BY <2>1
  <2>3. QED
    BY <1>3, <1>6, <2>2
<1>12. gone \cap (TopLevel \ owned) = {}
  <2> SUFFICES ASSUME NEW x \in gone, x \in TopLevel \ owned PROVE FALSE
    OBVIOUS
  <2>1. x # pipe /\ ~HasParent(next, x)
    BY RootFacts
  <2>2. QED
    BY <1>3, <1>4, <2>1 DEF HasParent
<1>13. pipe' \notin gone
  <2> SUFFICES ASSUME pipe' \in gone PROVE FALSE
    OBVIOUS
  <2>1. \A x \in gone : next[x][1] \in gone /\ 1 \in DOMAIN next[x]
    BY <1>3, <1>4, <1>6
  <2>2. QED
    BY <1>3, <2>1, TreeType DEF Acyclic
<1>14. pipe' # Null => HasParent(next, pipe') /\ pipe' \in alive
  BY <1>3, <1>4, <1>5, <1>6, ChildAlive DEF HasParent
<1>15. pipe' \in alive' \cup {Null} /\ pipe' \notin TopLevel \ owned /\ pipe' # NullFilter
  BY <1>6, <1>13, <1>14, RootFacts, TopLevelFilters, FiltersAssumption
<1>16. \A x \in Filters : \A j \in DOMAIN next[x] :
           /\ next[x][j] \in gone => x \in gone
           /\ next[x][j] \in Queues => x \in gone
           /\ next[x][j] = pipe' /\ pipe' # Null => x \in gone
  BY <1>8, <1>9, <1>10
<1>17. QED
  BY <1>3, <1>6, <1>7, <1>11, <1>12, <1>15, <1>16, RemovedNext

(* The queues kept are the last ones made.                                 *)
LEMMA QueueNumbers ==
  ASSUME PipeInv
  PROVE  /\ made \in Nat /\ offset \in Nat /\ Len(buffers) \in Nat /\ made = offset + Len(buffers)
         /\ buffers \in Seq(Queues) /\ Queues \subseteq Nat
         /\ \A i \in 1 .. Len(buffers) : buffers[i] = offset + i - 1
         /\ \A q \in ToSet(buffers) : q \in Nat /\ q < made
<1>1. buffers \in Seq(Queues) /\ offset \in Nat /\ made = offset + Len(buffers)
  BY DEF PipeInv, TypeOK, MessageCount
<1>2. Queues \subseteq Nat
  BY BoundsAssumption DEF Queues
<1>3. Len(buffers) \in Nat /\ DOMAIN buffers = 1 .. Len(buffers)
  BY <1>1
<1>4. \A i \in 1 .. Len(buffers) : buffers[i] = offset + i - 1
  BY <1>3 DEF PipeInv, QueueInv
<1>5. \A q \in ToSet(buffers) : \E i \in 1 .. Len(buffers) : q = buffers[i]
  BY <1>1, RangeOf
<1>6. QED
  BY <1>1, <1>2, <1>3, <1>4, <1>5

(* The first n endpoints get a queue each.                                 *)
Opened(n) ==
  /\ n \in Nat /\ n <= Len(Endpoints(next, Root)) /\ made + n <= MaxQueues
  /\ ~inside_msg /\ FindEndpoints(n)
Numbers(num, found, n) ==
  /\ \A x \in Filters : \A j \in DOMAIN next[x] :
       next'[x][j] = IF <<x, j>> \in found THEN num[<<x, j>>] ELSE next[x][j]
  /\ \A x \in Filters : \A j \in Nat : <<x, j>> \in found =>
       /\ x \in Below(next, Root) /\ j \in DOMAIN next[x] /\ next[x][j] \notin Filters
       /\ num[<<x, j>>] \in made .. made + n - 1
  /\ \A p, r \in found : num[p] = num[r] => p = r
  /\ n = Len(Endpoints(next, Root)) =>
       \A x \in Below(next, Root) : \A j \in DOMAIN next[x] :
         next[x][j] \notin Filters => <<x, j>> \in found

(* find_endpoints gives a new queue, and to each its own, to ports below   *)
(* the pipe's first filter that led to no filter.                          *)
LEMMA OpenedPorts ==
  ASSUME PipeInv, NEW n, Opened(n)
  PROVE  /\ Root \in Filters /\ ~HasParent(next, Root)
         /\ (pipe = Null => Root = NullFilter /\ next[Root] = NoPorts) /\ (pipe # Null => Root = pipe)
         /\ next' \in [Filters -> Seq(Nodes)]
         /\ \A x \in Filters : DOMAIN next'[x] = DOMAIN next[x]
         /\ \E num, found : Numbers(num, found, n)
<1>1. /\ Root \in Filters /\ ~HasParent(next, Root)
      /\ (pipe = Null => Root = NullFilter /\ next[Root] = NoPorts) /\ (pipe # Null => Root = pipe)
  <2>1. pipe = Null => NullFilter \notin alive /\ NullFilter \in Filters
    BY FiltersAssumption DEF PipeInv, RootsInv
  <2>2. QED
    BY <2>1, RootFacts DEF Root
<1>2. PICK ports : ports = Endpoints(next, Root)
  OBVIOUS
<1>3. /\ ports \in Seq(Pairs)
      /\ \A x \in Filters, j \in Nat : <<x, j>> \in ToSet(ports) <=>
           x \in Below(next, Root) /\ j \in DOMAIN next[x] /\ next[x][j] \notin Filters
  BY <1>1, <1>2, TreeType, EndpointsAre
<1>4. n \in Nat /\ n <= Len(ports) /\ Len(ports) \in Nat /\ made \in Nat /\ made + n <= MaxQueues /\ MaxQueues \in Nat
  BY <1>2, <1>3, QueueNumbers, BoundsAssumption DEF Opened
<1>5. PICK found : found = {ports[i] : i \in 1 .. n}
  OBVIOUS
<1>6. PICK place : place = [p \in Pairs |-> CHOOSE i \in 1 .. n : ports[i] = p]
  OBVIOUS
<1>7. \A p \in found : p \in Pairs /\ p \in ToSet(ports) /\ place[p] \in 1 .. n /\ ports[place[p]] = p
  <2> SUFFICES ASSUME NEW i \in 1 .. n
               PROVE  LET p == ports[i]
                      IN p \in Pairs /\ p \in ToSet(ports) /\ place[p] \in 1 .. n /\ ports[place[p]] = p
    BY <1>5
  <2>1. i \in 1 .. Len(ports)
    BY <1>4
  <2>2. ports[i] \in Pairs /\ ports[i] \in ToSet(ports)
    BY <1>3, <2>1, RangeOf
  <2>3. PICK k : k = CHOOSE m \in 1 .. n : ports[m] = ports[i]
    OBVIOUS
  <2>4. k \in 1 .. n /\ ports[k] = ports[i]
    BY ONLY <2>3, Zenon
  <2>5. place[ports[i]] = k
    BY <1>6, <2>2, <2>3
  <2>6. QED
    BY <2>2, <2>4, <2>5
<1>8. PICK num : num = [p \in Pairs |-> IF p \in found THEN made + place[p] - 1 ELSE 0]
  OBVIOUS
<1>9. \A p \in found : p \in Pairs /\ num[p] = made + place[p] - 1 /\ num[p] \in made .. made + n - 1 /\ num[p] \in Nat
  BY <1>4, <1>7, <1>8
<1>11. \A x \in Filters : next'[x] = [j \in DOMAIN next[x] |->
           IF <<x, j>> \in found THEN num[<<x, j>>] ELSE next[x][j]]
  <2>1. next' = [f \in Filters |-> [j \in DOMAIN next[f] |->
                   IF <<f, j>> \in found THEN made + (CHOOSE i \in 1 .. n : ports[i] = <<f, j>>) - 1
                   ELSE next[f][j]]]
    BY <1>2, <1>5 DEF Opened, FindEndpoints
  <2>2. \A x \in Filters : \A j \in DOMAIN next[x] : <<x, j>> \in found =>
          num[<<x, j>>] = made + (CHOOSE i \in 1 .. n : ports[i] = <<x, j>>) - 1
    BY <1>6, <1>7, <1>9
  <2>3. QED
    BY <2>1, <2>2
<1>12. \A x \in Filters : /\ DOMAIN next'[x] = DOMAIN next[x]
                          /\ \A j \in DOMAIN next[x] :
                               next'[x][j] = IF <<x, j>> \in found THEN num[<<x, j>>] ELSE next[x][j]
  BY <1>11
<1>13. \A p \in found : num[p] \in Nodes
  BY <1>4, <1>9 DEF Nodes, Queues
<1>14. next' \in [Filters -> Seq(Nodes)]
  <2>1. \A x \in Filters : \A j \in DOMAIN next[x] : next'[x][j] \in Nodes
    <3>1. \A x \in Filters : \A j \in DOMAIN next[x] : next[x][j] \in Nodes
      BY TreeType DEF IsPorts
    <3>2. QED
      BY <1>12, <1>13, <3>1
  <2>2. \A x \in Filters : next[x] \in Seq(Nodes)
    BY TreeType DEF IsPorts
  <2>3. ASSUME NEW x \in Filters PROVE next'[x] \in Seq(Nodes)
    <3>1. Len(next[x]) \in Nat /\ DOMAIN next[x] = 1 .. Len(next[x])
      BY <2>2
    <3>2. next'[x] = [j \in 1 .. Len(next[x]) |-> next'[x][j]]
      BY <1>11, <3>1
    <3>3. QED
      BY <2>1, <3>1, <3>2
  <2>4. DOMAIN next' = Filters /\ next' = [x \in Filters |-> next'[x]]
    BY DEF Opened, FindEndpoints
  <2>5. QED
    BY <2>3, <2>4
<1>15. \A x \in Filters : \A j \in Nat : <<x, j>> \in found =>
         /\ x \in Below(next, Root) /\ j \in DOMAIN next[x] /\ next[x][j] \notin Filters
         /\ num[<<x, j>>] \in made .. made + n - 1
  BY <1>3, <1>7, <1>9
<1>16. \A p, r \in found : num[p] = num[r] => p = r
  <2> SUFFICES ASSUME NEW p \in found, NEW r \in found, num[p] = num[r] PROVE p = r
    OBVIOUS
  <2>1. made + place[p] - 1 = made + place[r] - 1 /\ place[p] \in Nat /\ place[r] \in Nat
    BY <1>7, <1>9
  <2>2. place[p] = place[r]
    BY <1>4, <2>1
  <2>3. QED
    BY <1>7, <2>2
<1>17. n = Len(Endpoints(next, Root)) =>
         \A x \in Below(next, Root) : \A j \in DOMAIN next[x] : next[x][j] \notin Filters => <<x, j>> \in found
  <2> SUFFICES ASSUME n = Len(ports), NEW x \in Below(next, Root), NEW j \in DOMAIN next[x],
                      next[x][j] \notin Filters
               PROVE  <<x, j>> \in found
    BY <1>2
  <2>1. x \in Filters
    BY <1>1, TreeType, BelowType
  <2>2. j \in Nat
    BY <2>1, TreeType DEF IsPorts
  <2>3. <<x, j>> \in ToSet(ports)
    BY <1>3, <2>1, <2>2
  <2>4. PICK i \in 1 .. Len(ports) : <<x, j>> = ports[i]
    BY <1>3, <2>3, RangeOf
  <2>5. QED
    BY <1>5, <2>4
<1>18. Numbers(num, found, n)
  BY <1>12, <1>15, <1>16, <1>17 DEF Numbers
<1>19. \A x \in Filters : DOMAIN next'[x] = DOMAIN next[x]
  BY <1>12
<1>20. QED
  BY <1>1, <1>14, <1>18, <1>19

(* start_msg preserves the strengthening, whole or cut off by an           *)
(* exception.                                                              *)
LEMMA OpenedNext ==
  ASSUME PipeInv, NEW n, Opened(n), throws' \in 0 .. MaxThrows,
         inside_msg' \in BOOLEAN, failed' \in BOOLEAN, inside_msg' # failed',
         inside_msg' => n = Len(Endpoints(next, Root)),
         UNCHANGED <<owned, offset, default_read, store, written, wild>>
  PROVE  PipeInv'
<1>1. /\ Root \in Filters /\ ~HasParent(next, Root)
      /\ (pipe = Null => Root = NullFilter /\ next[Root] = NoPorts) /\ (pipe # Null => Root = pipe)
      /\ next' \in [Filters -> Seq(Nodes)]
      /\ \A x \in Filters : DOMAIN next'[x] = DOMAIN next[x]
  BY OpenedPorts
<1>2. PICK num, found : Numbers(num, found, n)
  BY OpenedPorts
<1>3. /\ \A x \in Filters : \A j \in DOMAIN next[x] :
           next'[x][j] = IF <<x, j>> \in found THEN num[<<x, j>>] ELSE next[x][j]
      /\ \A x \in Filters : \A j \in Nat : <<x, j>> \in found =>
           /\ x \in Below(next, Root) /\ j \in DOMAIN next[x] /\ next[x][j] \notin Filters
           /\ num[<<x, j>>] \in made .. made + n - 1
      /\ \A p, r \in found : num[p] = num[r] => p = r
      /\ n = Len(Endpoints(next, Root)) =>
           \A x \in Below(next, Root) : \A j \in DOMAIN next[x] :
             next[x][j] \notin Filters => <<x, j>> \in found
  BY <1>2 DEF Numbers
<1>4. /\ buffers' = buffers \o [i \in 1 .. n |-> made + i - 1] /\ made' = made + n
      /\ pipe' = Root /\ alive' = alive \cup {Root}
      /\ n \in Nat /\ made + n <= MaxQueues /\ ~inside_msg
  BY DEF Opened, FindEndpoints
<1>5. /\ made \in Nat /\ offset \in Nat /\ Len(buffers) \in Nat /\ made = offset + Len(buffers)
      /\ buffers \in Seq(Queues) /\ Queues \subseteq Nat
      /\ \A i \in 1 .. Len(buffers) : buffers[i] = offset + i - 1
      /\ \A q \in ToSet(buffers) : q \in Nat /\ q < made
  BY QueueNumbers
<1>6. \A q \in made .. made + n - 1 : q \in Queues /\ q \notin Filters /\ q # Null /\ q \in Nat /\ q >= made
  <2>1. MaxQueues \in Nat /\ Queues = 0 .. MaxQueues - 1
    BY BoundsAssumption DEF Queues
  <2>2. \A q \in made .. made + n - 1 : q \in 0 .. MaxQueues - 1 /\ q \in Nat /\ q >= made
    BY ONLY <1>4, <1>5, <2>1
  <2>3. \A q \in Queues : q \notin Filters /\ q # Null
    BY FiltersAssumption
  <2>4. QED
    BY <2>1, <2>2, <2>3
<1>7. \A x \in Filters : \A j \in DOMAIN next[x] : j \in Nat
  BY TreeType DEF IsPorts
<1>8. \A x \in Filters : \A j \in DOMAIN next[x] :
        \/ /\ <<x, j>> \in found /\ next'[x][j] = num[<<x, j>>]
           /\ x \in Below(next, Root) /\ next[x][j] \notin Filters
           /\ next'[x][j] \in made .. made + n - 1
        \/ <<x, j>> \notin found /\ next'[x][j] = next[x][j]
  BY <1>3, <1>7
<1>9. \A x \in Filters : \A j \in DOMAIN next[x] :
        /\ next'[x][j] \in Filters <=> next[x][j] \in Filters
        /\ next[x][j] \in Filters => next'[x][j] = next[x][j]
  BY <1>6, <1>8
<1>10. Acyclic(next')
  <2> SUFFICES ASSUME NEW T \in SUBSET Filters, T # {}
               PROVE  \E f \in T : \A j \in DOMAIN next'[f] : next'[f][j] \notin T
    BY DEF Acyclic
  <2>1. PICK x \in T : \A j \in DOMAIN next[x] : next[x][j] \notin T
    BY TreeType DEF Acyclic
  <2>2. \A j \in DOMAIN next'[x] : next'[x][j] \notin T
    BY <1>1, <1>9, <2>1
  <2>3. QED
    BY <2>2
<1>11. \A x \in Filters : \A j \in DOMAIN next[x] : next[x][j] \in Queues =>
         /\ pipe # Null /\ Root = pipe /\ failed
         /\ next[x][j] \in ToSet(buffers) /\ x \in Below(next, Root)
  <2> SUFFICES ASSUME NEW x \in Filters, NEW j \in DOMAIN next[x], next[x][j] \in Queues
               PROVE  /\ pipe # Null /\ Root = pipe /\ failed
                      /\ next[x][j] \in ToSet(buffers) /\ x \in Below(next, Root)
    OBVIOUS
  <2>1. next[x][j] \in ToSet(buffers) /\ x \in ToSet(Preorder(next, pipe)) /\ failed
    BY <1>4 DEF PipeInv, QueueInv
  <2>2. pipe # Null
    BY <2>1 DEF Preorder, ToSet
  <2>3. x \in Below(next, pipe)
    BY <2>1, <2>2 DEF Preorder, Below
  <2>4. QED
    BY <1>1, <2>1, <2>2, <2>3
<1>12. OneParent(next')
  <2> SUFFICES ASSUME NEW x \in Filters, NEW y \in Filters, NEW j \in DOMAIN next[x], NEW k \in DOMAIN next[y],
                      next'[x][j] = next'[y][k], next'[x][j] # Null
               PROVE  x = y /\ j = k
    <3>1. OneParent(next') <=> \A x, y \in Filters : \A j \in DOMAIN next'[x], k \in DOMAIN next'[y] :
            next'[x][j] = next'[y][k] /\ next'[x][j] # Null => x = y /\ j = k
      BY DEF OneParent
    <3>2. QED
      BY <1>1, <3>1
  <2>1. CASE <<x, j>> \in found /\ <<y, k>> \in found
    <3>1. <<x, j>> = <<y, k>>
      BY <1>3, <1>8, <2>1
    <3>2. QED
      BY <3>1
  <2>2. CASE <<x, j>> \notin found /\ <<y, k>> \notin found
    <3>1. next[x][j] = next[y][k] /\ next[x][j] # Null
      BY <1>8, <2>2
    <3>2. QED
      BY <3>1, TreeType DEF OneParent
  <2>3. \A g, h \in Filters : \A a \in DOMAIN next[g], b \in DOMAIN next[h] :
          <<g, a>> \in found /\ <<h, b>> \notin found => next'[g][a] # next'[h][b]
    <3> SUFFICES ASSUME NEW g \in Filters, NEW h \in Filters, NEW a \in DOMAIN next[g], NEW b \in DOMAIN next[h],
                        <<g, a>> \in found, <<h, b>> \notin found, next'[g][a] = next'[h][b]
                 PROVE  FALSE
      OBVIOUS
    <3>1. next[h][b] \in made .. made + n - 1
      BY <1>8
    <3>2. next[h][b] \in Queues /\ next[h][b] >= made
      BY <1>6, <3>1
    <3>3. next[h][b] \in Nat /\ next[h][b] < made
      BY <1>5, <1>11, <3>2
    <3>4. QED
      BY <1>5, <3>2, <3>3
  <2>4. QED
    BY <2>1, <2>2, <2>3
<1>13. IsPorts(next') /\ Forest(next')
  BY <1>1, <1>10, <1>12 DEF IsPorts, Forest
<1>14. \A x \in Filters : HasParent(next', x) <=> HasParent(next, x)
  BY <1>1, <1>9 DEF HasParent
<1>15. Below(next', Root) = Below(next, Root)
  <2>1. /\ Below(next, Root) \subseteq Filters /\ Root \in Below(next, Root)
        /\ Below(next', Root) \subseteq Filters /\ Root \in Below(next', Root)
    BY <1>1, <1>10, <1>13, TreeType, BelowType
  <2>2. \A x \in Below(next, Root) : \A j \in DOMAIN next'[x] :
          next'[x][j] \in Filters => next'[x][j] \in Below(next, Root)
    <3>1. \A x \in Below(next, Root) : \A j \in DOMAIN next[x] :
            next[x][j] \in Filters => next[x][j] \in Below(next, Root)
      BY <1>1, TreeType, BelowClosed
    <3>2. QED
      BY <1>1, <1>9, <2>1, <3>1
  <2>3. \A x \in Below(next', Root) : \A j \in DOMAIN next[x] :
          next[x][j] \in Filters => next[x][j] \in Below(next', Root)
    <3>1. \A x \in Below(next', Root) : \A j \in DOMAIN next'[x] :
            next'[x][j] \in Filters => next'[x][j] \in Below(next', Root)
      BY <1>1, <1>10, <1>13, BelowClosed
    <3>2. QED
      BY <1>1, <1>9, <2>1, <3>1
  <2>4. Below(next', Root) \subseteq Below(next, Root)
    BY <1>1, <1>10, <1>13, <2>1, <2>2, BelowClosed
  <2>5. Below(next, Root) \subseteq Below(next', Root)
    BY <1>1, <2>1, <2>3, TreeType, BelowClosed
  <2>6. QED
    BY <2>4, <2>5
<1>16. ToSet(Preorder(next', pipe')) = Below(next, Root)
  <2>1. Root # Null
    BY <1>1, FiltersAssumption
  <2>2. QED
    BY <1>4, <1>15, <2>1 DEF Preorder, Below
<1>17. /\ buffers' \in Seq(Queues) /\ Len(buffers') = Len(buffers) + n
       /\ \A i \in 1 .. Len(buffers') : buffers'[i] = offset + i - 1
       /\ \A q \in ToSet(buffers) : q \in ToSet(buffers')
       /\ \A q \in made .. made + n - 1 : q \in ToSet(buffers')
  <2>1. PICK b : b = [i \in 1 .. n |-> made + i - 1]
    OBVIOUS
  <2>2. b \in Seq(Queues) /\ Len(b) = n /\ \A i \in 1 .. n : b[i] = made + i - 1
    <3>1. \A i \in 1 .. n : made + i - 1 \in Queues
      <4>1. \A i \in 1 .. n : made + i - 1 \in made .. made + n - 1
        BY ONLY <1>4, <1>5
      <4>2. QED
        BY <1>6, <4>1
    <3>2. QED
      BY <1>4, <2>1, <3>1
  <2>3. PICK a, V : a = buffers /\ V = Queues
    OBVIOUS
  <2>4. a \in Seq(V) /\ b \in Seq(V)
    BY <1>5, <2>2, <2>3
  <2>5. /\ a \o b \in Seq(V) /\ Len(a \o b) = Len(a) + Len(b)
        /\ \A i \in 1 .. Len(a) + Len(b) : (a \o b)[i] = IF i <= Len(a) THEN a[i] ELSE b[i - Len(a)]
    BY ONLY <2>4, ConcatProperties
  <2>6. ToSet(a \o b) = ToSet(a) \cup ToSet(b)
    BY ONLY <2>4, ConcatRange
  <2>7. buffers' = a \o b
    BY <1>4, <2>1, <2>3
  <2>8. \A i \in 1 .. Len(buffers) + n : buffers'[i] = offset + i - 1
    <3> SUFFICES ASSUME NEW i \in 1 .. Len(buffers) + n PROVE buffers'[i] = offset + i - 1
      OBVIOUS
    <3>1. buffers'[i] = IF i <= Len(buffers) THEN buffers[i] ELSE b[i - Len(buffers)]
      BY <2>2, <2>3, <2>5, <2>7
    <3>2. CASE i <= Len(buffers)
      BY <1>5, <3>1, <3>2
    <3>3. CASE i > Len(buffers)
      <4>1. i - Len(buffers) \in 1 .. n
        BY <1>4, <1>5, <3>3
      <4>2. QED
        BY <1>5, <2>2, <3>1, <3>3, <4>1
    <3>4. QED
      BY <1>5, <3>2, <3>3
  <2>9. \A q \in made .. made + n - 1 : q \in ToSet(b)
    <3> SUFFICES ASSUME NEW q \in made .. made + n - 1 PROVE q \in ToSet(b)
      OBVIOUS
    <3>1. q - made + 1 \in 1 .. n /\ made + (q - made + 1) - 1 = q
      BY <1>4, <1>5
    <3>2. b[q - made + 1] = q
      BY <2>2, <3>1
    <3>3. QED
      BY <2>2, <3>1, <3>2 DEF ToSet
  <2>10. QED
    BY <2>2, <2>3, <2>5, <2>6, <2>7, <2>8, <2>9
<1>18. TypeOK'
  <2>1. made' = offset + Len(buffers') /\ made' \in Nat /\ made' >= made
    BY <1>4, <1>5, <1>17
  <2>2. alive' \subseteq Filters /\ pipe' \in Filters \cup {Null}
    BY <1>1, <1>4, RootFacts
  <2>3. default_read' \in Nat /\ (default_read' = 0 \/ default_read' < made')
    <3>1. default_read' = default_read /\ default_read \in Nat /\ (default_read = 0 \/ default_read < made)
      BY DEF PipeInv, TypeOK
    <3>2. QED
      BY <1>4, <1>5, <2>1, <3>1
  <2>4. MessageCount' = made'
    BY <2>1 DEF MessageCount
  <2>5. next' \in [Filters -> Seq(Filters \cup Queues \cup {Null})]
    BY <1>1 DEF Nodes
  <2>6. /\ owned' \subseteq TopLevel /\ wild' \in BOOLEAN /\ offset' \in Nat
        /\ store' \in [Filters \cup Queues -> Seq(Items)] /\ written' \in Seq(Items)
    BY DEF PipeInv, TypeOK
  <2>7. QED
    BY <1>17, <2>2, <2>3, <2>4, <2>5, <2>6 DEF TypeOK
<1>19. RootsInv'
  <2>1. \A x \in Filters \ alive' : next'[x] = NoPorts /\ ~HasParent(next', x)
    <3> SUFFICES ASSUME NEW x \in Filters, x \notin alive, x # Root
                 PROVE  next'[x] = NoPorts /\ ~HasParent(next', x)
      BY <1>4
    <3>1. next[x] = NoPorts /\ ~HasParent(next, x)
      BY RootFacts
    <3>2. x \notin Below(next, Root)
      <4>1. x \in Below(next, Root) => \E y \in Below(next, Root) : \E j \in DOMAIN next[y] : next[y][j] = x
        BY <1>1, TreeType, BelowClosed
      <4>2. Below(next, Root) \subseteq Filters
        BY <1>1, TreeType, BelowType
      <4>3. QED
        BY <3>1, <4>1, <4>2 DEF HasParent
    <3>3. \A j \in DOMAIN next[x] : next'[x][j] = next[x][j]
      BY <1>8, <3>2
    <3>4. next[x] \in Seq(Nodes) /\ next'[x] \in Seq(Nodes)
      BY <1>1, TreeType DEF IsPorts
    <3>5. next'[x] = next[x]
      BY <1>1, <3>3, <3>4
    <3>6. QED
      BY <1>14, <3>1, <3>5
  <2>2. \A x \in Filters : next'[x] # <<>>
    BY <1>1, TreeType DEF IsPorts
  <2>3. pipe' \in alive' /\ ~HasParent(next', pipe') /\ pipe' # Null
    BY <1>1, <1>4, <1>14, FiltersAssumption
  <2>4. \A x \in TopLevel \ owned' : x \in alive' /\ x # pipe' /\ ~HasParent(next', x)
    <3> SUFFICES ASSUME NEW x \in TopLevel, x \notin owned
                 PROVE  x \in alive' /\ x # pipe' /\ ~HasParent(next', x)
      OBVIOUS
    <3>1. x \in alive /\ x # pipe /\ ~HasParent(next, x) /\ x # NullFilter /\ x \in Filters
      BY RootFacts, TopLevelFilters
    <3>2. QED
      BY <1>1, <1>4, <1>14, <3>1
  <2>5. ForksStandAlone => \A x \in alive' : HasParent(next', x) \/ x = pipe' \/ x \in TopLevel \ owned'
    <3> SUFFICES ASSUME ForksStandAlone, NEW x \in alive, x # Root
                 PROVE  HasParent(next', x) \/ x \in TopLevel \ owned
      BY <1>4
    <3>1. HasParent(next, x) \/ x = pipe \/ x \in TopLevel \ owned
      BY RootFacts
    <3>2. x # pipe /\ x \in Filters
      BY <1>1, RootFacts, FiltersAssumption
    <3>3. QED
      BY <1>14, <3>1, <3>2
  <2>6. NullFilter \in alive' <=> pipe' = NullFilter
    BY <1>1, <1>4, FiltersAssumption DEF PipeInv, RootsInv
  <2>7. ~HasParent(next', NullFilter)
    BY <1>14, RootFacts, FiltersAssumption
  <2>8. pipe' = NullFilter => \A j \in DOMAIN next'[pipe'] : ~IsFilter(next'[pipe'][j])
    <3> SUFFICES ASSUME Root = NullFilter, NEW j \in DOMAIN next[Root] PROVE next[Root][j] \notin Filters
      BY <1>1, <1>4, <1>9 DEF IsFilter
    <3>1. CASE pipe = Null
      BY <1>1, <3>1, FiltersAssumption DEF NoPorts
    <3>2. CASE pipe # Null
      BY <1>1, <3>2 DEF PipeInv, RootsInv, IsFilter
    <3>3. QED
      BY <3>1, <3>2
  <2>9. (inside_msg' \/ failed') /\ ~(inside_msg' /\ failed')
    OBVIOUS
  <2>10. QED
    BY <2>1, <2>2, <2>3, <2>4, <2>5, <2>6, <2>7, <2>8, <2>9 DEF RootsInv
<1>20. QueueInv'
  <2>1. \A i \in DOMAIN buffers' : buffers'[i] = offset' + i - 1
    BY <1>17
  <2>2. ASSUME NEW x \in Filters, NEW j \in DOMAIN next'[x], next'[x][j] \in Queues
        PROVE  next'[x][j] \in ToSet(buffers') /\ x \in Below(next, Root)
    <3>1. j \in DOMAIN next[x]
      BY <1>1, <2>2
    <3>2. QED
      BY <1>8, <1>11, <1>17, <2>2, <3>1
  <2>3. inside_msg' => \A x \in Below(next, Root) : \A j \in DOMAIN next'[x] : next'[x][j] # Null
    <3> SUFFICES ASSUME inside_msg', NEW x \in Below(next, Root), NEW j \in DOMAIN next[x]
                 PROVE  next'[x][j] # Null
      <4>1. Below(next, Root) \subseteq Filters
        BY <1>1, TreeType, BelowType
      <4>2. QED
        BY <1>1, <4>1
    <3>0. x \in Filters
      BY <1>1, TreeType, BelowType
    <3>1. CASE next[x][j] \in Filters
      BY <1>9, <3>0, <3>1, FiltersAssumption
    <3>2. CASE next[x][j] \notin Filters
      <4>1. <<x, j>> \in found
        BY <1>3, <3>2
      <4>2. QED
        BY <1>6, <1>8, <3>0, <4>1
    <3>3. QED
      BY <3>1, <3>2
  <2>4. inside_msg' \/ failed'
    OBVIOUS
  <2>5. QED
    BY <1>16, <2>1, <2>2, <2>3, <2>4 DEF QueueInv
<1>21. ChainInv'
  <2>1. alive' \subseteq Filters /\ \A x \in Filters : Len(next'[x]) = Len(next[x]) /\ 1 \in DOMAIN next[x]
    BY <1>1, <1>4, RootFacts, TreeType DEF IsPorts
  <2>2. \A x \in alive' : Len(next'[x]) = Len(next[x])
    BY <2>1
  <2>3. \A x \in alive' : next[x][1] \in Filters => next[x][1] \in alive' /\ next'[x][1] = next[x][1]
    BY <1>4, <1>9, <2>1, ChildAlive
  <2>4. alive' \subseteq alive \cup {NullFilter}
    BY <1>1, <1>4, RootFacts
  <2>5. QED
    BY <2>2, <2>3, <2>4, ChainKept
<1>22. QED
  BY <1>13, <1>18, <1>19, <1>20, <1>21 DEF PipeInv

(* The pipe has a first filter and a number of endpoints.                  *)
LEMMA EndpointCount ==
  ASSUME PipeInv
  PROVE  Root \in Filters /\ Len(Endpoints(next, Root)) \in Nat
<1>1. Root \in Filters
  BY FiltersAssumption, RootFacts DEF Root
<1>2. Endpoints(next, Root) \in Seq(Pairs)
  BY <1>1, TreeType, EndpointsAre
<1>3. QED
  BY <1>1, <1>2

(* start_msg gives a queue to every endpoint.                              *)
LEMMA StartMsgNext ==
  ASSUME PipeInv, StartMsg
  PROVE  PipeInv'
<1>1. PICK n : n = Len(Endpoints(next, Root))
  OBVIOUS
<1>2. n \in Nat /\ n <= Len(Endpoints(next, Root))
  BY <1>1, EndpointCount
<1>3. /\ made + n <= MaxQueues /\ ~inside_msg /\ FindEndpoints(n)
      /\ inside_msg' = TRUE /\ failed' = FALSE
      /\ UNCHANGED <<owned, offset, default_read, store, written, wild>> /\ throws' = throws
  BY <1>1 DEF StartMsg
<1>4. Opened(n)
  BY <1>2, <1>3 DEF Opened
<1>5. throws' \in 0 .. MaxThrows
  BY <1>3 DEF PipeInv, TypeOK
<1>6. inside_msg' \in BOOLEAN /\ failed' \in BOOLEAN /\ inside_msg' # failed'
  BY <1>3
<1>7. QED
  BY <1>1, <1>3, <1>4, <1>5, <1>6, OpenedNext

(* A start_msg that throws has given one to the first n.                   *)
LEMMA StartMsgThrowsNext ==
  ASSUME PipeInv, NEW n \in 0 .. MaxQueues, StartMsgThrows(n)
  PROVE  PipeInv'
<1>1. PICK k : k = Len(Endpoints(next, Root))
  OBVIOUS
<1>2. /\ made + k <= MaxQueues /\ n <= k /\ ~inside_msg /\ FindEndpoints(n)
      /\ failed' = TRUE /\ throws < MaxThrows /\ throws' = throws + 1
      /\ UNCHANGED <<owned, inside_msg, offset, default_read, store, written, wild>>
  BY <1>1 DEF StartMsgThrows, Throws
<1>3. n \in Nat /\ k \in Nat /\ made \in Nat /\ MaxQueues \in Nat
  BY <1>1, EndpointCount, QueueNumbers, BoundsAssumption
<1>4. Opened(n)
  BY <1>1, <1>2, <1>3 DEF Opened
<1>5. throws' \in 0 .. MaxThrows
  BY <1>2, BoundsAssumption DEF PipeInv, TypeOK
<1>6. inside_msg \in BOOLEAN
  BY DEF PipeInv, TypeOK
<1>7. inside_msg' = FALSE /\ failed' \in BOOLEAN /\ inside_msg' # failed'
  BY <1>2, <1>6
<1>8. QED
  BY <1>2, <1>4, <1>5, <1>7, OpenedNext

(* retire() takes empty queues away at the front only.                      *)
LEMMA RetainedDrops ==
  ASSUME NEW bs \in Seq(Queues), NEW st
  PROVE  \E k \in 1 .. Len(bs) + 1 :
           Retained(bs, st) = SubSeq(bs, k, Len(bs)) /\ \A i \in 1 .. k - 1 : st[bs[i]] = <<>>
<1>1. PICK full : full = {i \in DOMAIN bs : st[bs[i]] # <<>>}
  OBVIOUS
<1>2. Len(bs) \in Nat /\ DOMAIN bs = 1 .. Len(bs)
  OBVIOUS
<1>3. CASE full = {}
  <2>1. SubSeq(bs, Len(bs) + 1, Len(bs)) = <<>>
    BY <1>2
  <2>2. Len(bs) + 1 \in 1 .. Len(bs) + 1
    BY <1>2
  <2>3. Retained(bs, st) = <<>>
    BY <1>1, <1>3 DEF Retained
  <2>4. \A i \in 1 .. (Len(bs) + 1) - 1 : st[bs[i]] = <<>>
    BY <1>1, <1>2, <1>3
  <2>5. QED
    BY <2>1, <2>2, <2>3, <2>4
<1>4. CASE full # {}
  <2>1. full \subseteq Nat
    BY <1>1, <1>2
  <2>2. \E i \in full : \A k \in full : i <= k
    BY ONLY <1>4, <2>1, LeastNatural
  <2>3. PICK m : m = CHOOSE i \in full : \A k \in full : i <= k
    OBVIOUS
  <2>4. m \in full /\ \A k \in full : m <= k
    BY ONLY <2>2, <2>3, Zenon
  <2>5. m \in 1 .. Len(bs) + 1 /\ m \in 1 .. Len(bs)
    BY <1>1, <1>2, <2>4
  <2>6. Retained(bs, st) = SubSeq(bs, m, Len(bs))
    BY <1>1, <1>4, <2>3 DEF Retained
  <2>7. \A i \in 1 .. m - 1 : i \in 1 .. Len(bs) /\ ~(m <= i)
    BY <1>2, <2>5
  <2>8. \A i \in 1 .. m - 1 : st[bs[i]] = <<>>
    BY <1>1, <1>2, <2>4, <2>7
  <2>9. QED
    BY <2>5, <2>6, <2>8
<1>5. QED
  BY <1>3, <1>4

(* end_msg clears each port that led to a queue.                           *)
LEMMA ClearedPorts ==
  ASSUME PipeInv, EndMsg
  PROVE  /\ pipe \in Filters
         /\ next' \in [Filters -> Seq(Nodes)]
         /\ \A x \in Filters : DOMAIN next'[x] \subseteq DOMAIN next[x] /\ 1 \in DOMAIN next'[x]
         /\ \A x \in Filters : \A j \in DOMAIN next'[x] :
              next'[x][j] = IF next[x][j] \in Filters THEN next[x][j] ELSE Null
         /\ \A x \in Filters : x # NullFilter => DOMAIN next'[x] = DOMAIN next[x]
         /\ next'[NullFilter] = NoPorts
<1>1. /\ Null \notin Filters /\ Null \notin Queues /\ NoPorts \in Seq(Nodes)
      /\ DOMAIN NoPorts = {1} /\ NoPorts[1] = Null /\ NullFilter \in Filters /\ Filters \cap Queues = {}
  BY FiltersAssumption DEF NoPorts, Nodes
<1>2. pipe \in Filters /\ pipe # Null
  BY RootFacts DEF EndMsg, PipeInv, RootsInv
<1>3. PICK gone : gone = ToSet(Preorder(next, pipe))
  OBVIOUS
<1>4. gone = Below(next, pipe)
  BY <1>2, <1>3 DEF Preorder, Below
<1>5. next' = [f \in Filters |->
                 IF f \notin gone THEN next[f] ELSE IF f = NullFilter THEN NoPorts
                 ELSE [j \in DOMAIN next[f] |-> ClearEndpoints(next[f][j])]]
  BY <1>3 DEF EndMsg
<1>6. \A x \in Filters : next[x] \in Seq(Nodes) /\ 1 \in DOMAIN next[x]
                         /\ \A j \in DOMAIN next[x] : next[x][j] \in Nodes
  BY TreeType DEF IsPorts
<1>7. \A x \in Filters \ gone : \A j \in DOMAIN next[x] : next[x][j] \notin Queues
  BY <1>3 DEF PipeInv, QueueInv
<1>8. NullFilter \in gone => pipe = NullFilter
  <2>1. ASSUME NullFilter \in gone, NullFilter # pipe PROVE FALSE
    <3>1. \E y \in gone : \E j \in DOMAIN next[y] : next[y][j] = NullFilter
      BY <1>2, <1>4, <2>1, TreeType, BelowClosed
    <3>2. gone \subseteq Filters
      BY <1>2, <1>4, TreeType, BelowType
    <3>3. QED
      BY <3>1, <3>2, RootFacts DEF HasParent
  <2>2. QED
    BY <2>1
<1>9. NullFilter \notin gone => next[NullFilter] = NoPorts
  <2>1. NullFilter \notin gone => NullFilter # pipe
    BY <1>2, <1>4, TreeType, BelowType
  <2>2. NullFilter # pipe => NullFilter \notin alive
    BY DEF PipeInv, RootsInv
  <2>3. QED
    BY <1>1, <2>1, <2>2, RootFacts
<1>10. pipe = NullFilter => \A j \in DOMAIN next[NullFilter] : next[NullFilter][j] \notin Filters
  BY DEF PipeInv, RootsInv, IsFilter
<1> HIDE DEF NoPorts
<1>11. next'[NullFilter] = NoPorts
  BY <1>1, <1>5, <1>9
<1>12. ASSUME NEW x \in Filters, x \in gone, x # NullFilter
       PROVE  /\ next'[x] \in Seq(Nodes) /\ DOMAIN next'[x] = DOMAIN next[x]
              /\ \A j \in DOMAIN next[x] : next'[x][j] = IF next[x][j] \in Filters THEN next[x][j] ELSE Null
  <2>1. next'[x] = [j \in DOMAIN next[x] |-> ClearEndpoints(next[x][j])]
    BY <1>5, <1>12
  <2>2. \A j \in DOMAIN next[x] : ClearEndpoints(next[x][j]) = IF next[x][j] \in Filters THEN next[x][j] ELSE Null
    BY <1>1, <1>6 DEF Nodes, ClearEndpoints
  <2>3. \A j \in DOMAIN next[x] : ClearEndpoints(next[x][j]) \in Nodes
    BY <2>2 DEF Nodes
  <2>4. Len(next[x]) \in Nat /\ DOMAIN next[x] = 1 .. Len(next[x])
    BY <1>6
  <2>5. [j \in 1 .. Len(next[x]) |-> ClearEndpoints(next[x][j])] \in Seq(Nodes)
    BY <2>3, <2>4
  <2>6. QED
    BY <2>1, <2>2, <2>4, <2>5
<1>13. ASSUME NEW x \in Filters, x \notin gone, x # NullFilter
       PROVE  /\ next'[x] = next[x]
              /\ \A j \in DOMAIN next[x] : next'[x][j] = IF next[x][j] \in Filters THEN next[x][j] ELSE Null
  <2>1. next'[x] = next[x]
    BY <1>5, <1>13
  <2>2. QED
    BY <1>6, <1>7, <1>13, <2>1 DEF Nodes
<1>14. \A j \in DOMAIN next'[NullFilter] :
         next'[NullFilter][j] = IF next[NullFilter][j] \in Filters THEN next[NullFilter][j] ELSE Null
  <2>1. next[NullFilter][1] \notin Filters
    BY <1>1, <1>6, <1>8, <1>9, <1>10
  <2>2. QED
    BY <1>1, <1>11, <2>1
<1>15. ASSUME NEW x \in Filters
       PROVE  /\ next'[x] \in Seq(Nodes) /\ DOMAIN next'[x] \subseteq DOMAIN next[x] /\ 1 \in DOMAIN next'[x]
              /\ \A j \in DOMAIN next'[x] : next'[x][j] = IF next[x][j] \in Filters THEN next[x][j] ELSE Null
              /\ x # NullFilter => DOMAIN next'[x] = DOMAIN next[x]
  <2>1. CASE x = NullFilter
    BY <1>1, <1>6, <1>11, <1>14, <2>1
  <2>2. CASE x # NullFilter /\ x \in gone
    BY <1>6, <1>12, <2>2
  <2>3. CASE x # NullFilter /\ x \notin gone
    BY <1>6, <1>13, <2>3
  <2>4. QED
    BY <2>1, <2>2, <2>3
<1>16. next' \in [Filters -> Seq(Nodes)]
  BY <1>5, <1>15
<1>17. QED
  BY <1>2, <1>11, <1>15, <1>16

(* end_msg preserves the strengthening: the ports below the pipe are the   *)
(* only ones with queues, and are cleared.                                 *)
LEMMA EndMsgNext ==
  ASSUME PipeInv, EndMsg
  PROVE  PipeInv'
<1>1. /\ pipe \in Filters
      /\ next' \in [Filters -> Seq(Nodes)]
      /\ \A x \in Filters : DOMAIN next'[x] \subseteq DOMAIN next[x] /\ 1 \in DOMAIN next'[x]
      /\ \A x \in Filters : \A j \in DOMAIN next'[x] :
           next'[x][j] = IF next[x][j] \in Filters THEN next[x][j] ELSE Null
      /\ \A x \in Filters : x # NullFilter => DOMAIN next'[x] = DOMAIN next[x]
      /\ next'[NullFilter] = NoPorts
  BY ClearedPorts
<1>2. /\ pipe # NullFilter => pipe' = pipe /\ alive' = alive
      /\ pipe = NullFilter => pipe' = Null /\ alive' = alive \ {NullFilter}
      /\ buffers' = Retained(buffers, store') /\ offset' = offset + Len(buffers) - Len(buffers')
      /\ inside_msg' = FALSE /\ failed' = FALSE
      /\ UNCHANGED <<owned, default_read, made, written, throws, wild>>
  BY DEF EndMsg
<1>3. Null \notin Filters /\ Null \notin Queues /\ NullFilter \in Filters /\ Filters \cap Queues = {}
  BY FiltersAssumption
<1>4. /\ NullFilter \in alive <=> pipe = NullFilter
      /\ pipe \in alive \cup {Null} /\ alive \subseteq Filters
  BY RootFacts DEF PipeInv, RootsInv
<1>5. NullFilter \notin alive' /\ alive' = alive \ {NullFilter} /\ pipe' # NullFilter
      /\ pipe' \in alive' \cup {Null} /\ (pipe' # Null => pipe' = pipe)
  BY <1>1, <1>2, <1>3, <1>4
<1>6. store' \in Stores
  <2>1. PICK filters, n : filters = Preorder(next, pipe) /\ n = Len(filters)
    OBVIOUS
  <2>2. filters \in Seq(Filters) /\ n \in 0 .. Len(filters)
    BY <2>1, PreorderType
  <2>3. store' = FinishMsg(filters, n)
    BY <2>1 DEF EndMsg
  <2>4. QED
    BY <2>2, <2>3, TreeType, FinishType
<1>7. /\ buffers' \in Seq(Queues) /\ offset' \in Nat /\ offset' + Len(buffers') = made /\ Len(buffers') \in Nat
      /\ \A i \in 1 .. Len(buffers') : buffers'[i] = offset' + i - 1
  <2>1. PICK b, L, o, V : b = buffers /\ L = Len(buffers) /\ o = offset /\ V = Queues
    OBVIOUS
  <2>2. b \in Seq(V) /\ L = Len(b) /\ L \in Nat /\ o \in Nat /\ made = o + L
        /\ \A i \in 1 .. L : b[i] = o + i - 1
    BY <2>1, QueueNumbers
  <2>3. PICK k \in 1 .. L + 1 : buffers' = SubSeq(b, k, L)
    BY <1>2, <2>1, <2>2, RetainedDrops
  <2>4. SubSeq(b, k, L) \in Seq(V) /\ Len(SubSeq(b, k, L)) = L - k + 1
        /\ \A i \in 1 .. L - k + 1 : SubSeq(b, k, L)[i] = b[k + i - 1]
    <3>1. k \in Nat /\ k >= 1 /\ k <= L + 1
      BY ONLY <2>2, <2>3
    <3>2. SubSeq(b, k, L) = [i \in 1 .. (1 + L) - k |-> b[i + k - 1]]
      BY ONLY <2>2, <3>1
    <3>3. \A i \in 1 .. (1 + L) - k : i + k - 1 \in 1 .. L
      BY ONLY <2>2, <3>1
    <3>4. (1 + L) - k = L - k + 1 /\ (1 + L) - k \in Nat
      BY ONLY <2>2, <3>1
    <3>5. \A i \in 1 .. (1 + L) - k : b[i + k - 1] \in V /\ b[i + k - 1] = b[k + i - 1]
      BY ONLY <2>2, <3>1, <3>3
    <3>6. [i \in 1 .. (1 + L) - k |-> b[i + k - 1]] \in Seq(V)
      BY ONLY <3>4, <3>5
    <3>7. QED
      BY ONLY <3>2, <3>4, <3>5, <3>6
  <2>5. Len(buffers') = L - k + 1 /\ offset' = o + L - (L - k + 1)
    BY <1>2, <2>1, <2>3, <2>4
  <2>6. offset' = o + k - 1 /\ offset' \in Nat /\ L - k + 1 \in Nat /\ offset' + (L - k + 1) = made
    BY ONLY <2>2, <2>3, <2>5
  <2>7. \A i \in 1 .. L - k + 1 : b[k + i - 1] = offset' + i - 1
    <3>1. \A i \in 1 .. L - k + 1 : k + i - 1 \in 1 .. L /\ o + (k + i - 1) - 1 = offset' + i - 1
      BY ONLY <2>2, <2>3, <2>6
    <3>2. QED
      BY ONLY <2>2, <3>1
  <2>8. QED
    BY <2>1, <2>3, <2>4, <2>5, <2>6, <2>7
<1>8. IsPorts(next') /\ Forest(next')
  <2>1. Acyclic(next')
    <3> SUFFICES ASSUME NEW T \in SUBSET Filters, T # {}
                 PROVE  \E f \in T : \A j \in DOMAIN next'[f] : next'[f][j] \notin T
      BY DEF Acyclic
    <3>1. PICK x \in T : \A j \in DOMAIN next[x] : next[x][j] \notin T
      BY TreeType DEF Acyclic
    <3>2. x \in Filters /\ Null \notin T
      BY <1>3
    <3>3. \A j \in DOMAIN next'[x] : next'[x][j] \notin T
      BY <1>1, <3>1, <3>2
    <3>4. QED
      BY <3>3
  <2>2. \A x \in Filters : \A j \in DOMAIN next'[x] : next'[x][j] # Null =>
          j \in DOMAIN next[x] /\ next'[x][j] = next[x][j]
    BY <1>1
  <2>3. OneParent(next')
    BY <2>2, TreeType DEF OneParent
  <2>4. QED
    BY <1>1, <2>1, <2>3 DEF IsPorts, Forest
<1>9. \A x \in Filters : HasParent(next', x) <=> HasParent(next, x)
  <2> SUFFICES ASSUME NEW x \in Filters PROVE HasParent(next', x) <=> HasParent(next, x)
    OBVIOUS
  <2>1. ASSUME HasParent(next', x) PROVE HasParent(next, x)
    <3>1. PICK y \in Filters : \E j \in DOMAIN next'[y] : next'[y][j] = x
      BY <2>1 DEF HasParent
    <3>2. PICK j \in DOMAIN next'[y] : next'[y][j] = x
      BY <3>1
    <3>3. j \in DOMAIN next[y] /\ next[y][j] = x
      BY <1>1, <1>3, <3>2
    <3>4. QED
      BY <3>3 DEF HasParent
  <2>2. ASSUME HasParent(next, x) PROVE HasParent(next', x)
    <3>1. PICK y \in Filters : \E j \in DOMAIN next[y] : next[y][j] = x
      BY <2>2 DEF HasParent
    <3>2. PICK j \in DOMAIN next[y] : next[y][j] = x
      BY <3>1
    <3>3. y # NullFilter
      <4>1. ASSUME y = NullFilter PROVE FALSE
        <5>1. CASE pipe = NullFilter
          BY <3>2, <4>1, <5>1 DEF PipeInv, RootsInv, IsFilter
        <5>2. CASE pipe # NullFilter
          <6>1. next[NullFilter] = NoPorts
            BY <1>3, <1>4, <5>2, RootFacts
          <6>2. QED
            BY <1>3, <3>2, <4>1, <6>1 DEF NoPorts
        <5>3. QED
          BY <5>1, <5>2
      <4>2. QED
        BY <4>1
    <3>4. j \in DOMAIN next'[y] /\ next'[y][j] = x
      BY <1>1, <3>2, <3>3
    <3>5. QED
      BY <3>4 DEF HasParent
  <2>3. QED
    BY <2>1, <2>2
<1>10. TypeOK'
  <2>1. MessageCount' = made /\ MessageCount = made
    BY <1>7 DEF MessageCount, PipeInv, TypeOK
  <2>2. pipe' \in Filters \cup {Null} /\ alive' \subseteq Filters
    BY <1>1, <1>4, <1>5
  <2>3. QED
    BY <1>1, <1>2, <1>6, <1>7, <2>1, <2>2 DEF TypeOK, PipeInv, Nodes, Stores
<1>11. RootsInv'
  <2>1. \A x \in Filters : next'[x] # <<>>
    BY <1>1
  <2>2. \A x \in Filters \ alive' : next'[x] = NoPorts /\ ~HasParent(next', x)
    <3> SUFFICES ASSUME NEW x \in Filters, x \notin alive' PROVE next'[x] = NoPorts /\ ~HasParent(next', x)
      OBVIOUS
    <3>1. CASE x = NullFilter
      BY <1>1, <1>9, <3>1, RootFacts
    <3>2. CASE x # NullFilter
      <4>1. next[x] = NoPorts /\ ~HasParent(next, x)
        BY <1>5, <3>2, RootFacts
      <4>2. next'[x] = <<Null>>
        <5>1. DOMAIN next'[x] = {1} /\ next'[x][1] = Null
          BY <1>1, <1>3, <3>2, <4>1 DEF NoPorts
        <5>2. next'[x] \in Seq(Nodes)
          BY <1>1
        <5>3. QED
          BY <5>1, <5>2
      <4>3. QED
        BY <1>9, <4>1, <4>2 DEF NoPorts
    <3>3. QED
      BY <3>1, <3>2
  <2>3. pipe' # Null => ~HasParent(next', pipe')
    BY <1>1, <1>5, <1>9, RootFacts
  <2>4. \A x \in TopLevel \ owned' : x \in alive' /\ x # pipe' /\ ~HasParent(next', x)
    <3> SUFFICES ASSUME NEW x \in TopLevel, x \notin owned
                 PROVE  x \in alive' /\ x # pipe' /\ ~HasParent(next', x)
      BY <1>2
    <3>1. x \in alive /\ x # pipe /\ ~HasParent(next, x) /\ x # NullFilter /\ x \in Filters
      BY RootFacts, TopLevelFilters
    <3>2. QED
      BY <1>3, <1>5, <1>9, <3>1
  <2>5. ForksStandAlone => \A x \in alive' : HasParent(next', x) \/ x = pipe' \/ x \in TopLevel \ owned'
    <3> SUFFICES ASSUME ForksStandAlone, NEW x \in alive, x # NullFilter
                 PROVE  HasParent(next', x) \/ x = pipe' \/ x \in TopLevel \ owned'
      BY <1>5
    <3>1. HasParent(next, x) \/ x = pipe \/ x \in TopLevel \ owned
      BY RootFacts
    <3>2. x = pipe => x = pipe'
      BY <1>2
    <3>3. QED
      BY <1>2, <1>4, <1>9, <3>1, <3>2
  <2>6. ~HasParent(next', NullFilter)
    BY <1>3, <1>9, RootFacts
  <2>7. QED
    BY <1>2, <1>5, <2>1, <2>2, <2>3, <2>4, <2>5, <2>6 DEF RootsInv
<1>12. QueueInv'
  <2>1. \A x \in Filters : \A j \in DOMAIN next'[x] : next'[x][j] \notin Queues
    BY <1>1, <1>3
  <2>2. \A i \in DOMAIN buffers' : buffers'[i] = offset' + i - 1
    <3>1. buffers' \in Seq(Queues)
      BY <1>7
    <3>2. DOMAIN buffers' = 1 .. Len(buffers')
      BY <3>1
    <3>3. QED
      BY <1>7, <3>2
  <2>3. QED
    BY <1>2, <2>1, <2>2 DEF QueueInv
<1>13. ChainInv'
  <2>1. \A x \in alive' : x \in Filters /\ x # NullFilter
    BY <1>4, <1>5
  <2>2. \A x \in alive' : Len(next'[x]) = Len(next[x])
    <3> SUFFICES ASSUME NEW x \in alive' PROVE Len(next'[x]) = Len(next[x])
      OBVIOUS
    <3>1. DOMAIN next'[x] = DOMAIN next[x] /\ next'[x] \in Seq(Nodes) /\ next[x] \in Seq(Nodes)
      BY <1>1, <2>1, TreeType DEF IsPorts
    <3>2. QED
      BY <3>1
  <2>3. \A x \in alive' : next[x][1] \in Filters => next[x][1] \in alive' /\ next'[x][1] = next[x][1]
    <3> SUFFICES ASSUME NEW x \in alive', next[x][1] \in Filters
                 PROVE  next[x][1] \in alive' /\ next'[x][1] = next[x][1]
      OBVIOUS
    <3>1. 1 \in DOMAIN next'[x] /\ 1 \in DOMAIN next[x] /\ next'[x][1] = next[x][1]
      BY <1>1, <2>1
    <3>2. next[x][1] \in alive
      BY <2>1, <3>1, ChildAlive
    <3>3. next[x][1] # NullFilter
      BY <2>1, <3>1, RootFacts DEF HasParent
    <3>4. QED
      BY <1>5, <3>1, <3>2, <3>3
  <2>4. alive' \subseteq alive \cup {NullFilter}
    BY <1>5
  <2>5. QED
    BY <2>2, <2>3, <2>4, ChainKept
<1>14. QED
  BY <1>2, <1>8, <1>10, <1>11, <1>12, <1>13 DEF PipeInv

(* Every step preserves the strengthening.                                 *)
LEMMA PipeNext ==
  ASSUME PipeInv, [Next]_vars
  PROVE  PipeInv'
<1>1. ASSUME NotInUse, NEW f \in TopLevel, AppendFilter(f) PROVE PipeInv'
  BY <1>1, AppendNext
<1>2. ASSUME NotInUse, NEW f \in TopLevel, Prepend(f) PROVE PipeInv'
  BY <1>2, PrependNext
<1>3. CASE NotInUse /\ Pop
  BY <1>3, PopNext
<1>4. CASE Reset
  BY <1>4, ResetNext
<1>5. CASE StartMsg
  BY <1>5, StartMsgNext
<1>6. CASE EndMsg
  BY <1>6, EndMsgNext
<1>7. ASSUME NEW n \in 0 .. MaxQueues, StartMsgThrows(n) PROVE PipeInv'
  BY <1>7, StartMsgThrowsNext
<1>8. ASSUME NEW n \in 1 .. Cardinality(Filters), EndMsgThrows(n) PROVE PipeInv'
  BY <1>8, EndMsgThrowsNext
<1>9. ASSUME NEW x \in Items, Write(x) PROVE PipeInv'
  BY <1>9, WriteNext
<1>10. ASSUME NEW x \in Items, NEW n \in 0 .. MaxQueues, WriteThrows(x, n) PROVE PipeInv'
  BY <1>10, WriteThrowsNext
<1>11. ASSUME NEW m \in Queues, SetDefaultMsg(m) PROVE PipeInv'
  BY <1>11, SetDefaultMsgNext
<1>12. ASSUME NEW m \in Queues, NEW n \in ReadSizes, Read(m, n) PROVE PipeInv'
  BY <1>12, ReadNext
<1>13. CASE UNCHANGED vars
  <2>1. UNCHANGED <<tree, inside_msg, outputs, default_read, store, made, failed, written, throws, wild>>
    BY <1>13 DEF vars
  <2>2. TypeOK'
    BY <2>1 DEF PipeInv, TypeOK, tree, outputs, MessageCount
  <2>3. QED
    BY <2>1, <2>2, QuietNext
<1>14. QED
  BY <1>1, <1>2, <1>3, <1>4, <1>5, <1>6, <1>7, <1>8, <1>9, <1>10, <1>11, <1>12, <1>13 DEF Next, TreeChanges, Calls

-----------------------------------------------------------------------------
(* The trees that the constructors leave.                                  *)

Ports == [Filters -> Seq(Nodes)]

(* What a chain or a fork is given.                                        *)
LEMMA MembersType ==
  ASSUME NEW f \in Filters
  PROVE  /\ Members(f) \in Seq(Filters \cup {Null}) /\ Len(Members(f)) \in Nat
         /\ DOMAIN Members(f) = 1 .. Len(Members(f))
         /\ \A i \in DOMAIN Members(f) : Members(f)[i] \in Nodes
         /\ Kind[f] \in {"chain", "fork"} => Members(f) = Kids[f]
         /\ Kind[f] = "chain" => \A i \in DOMAIN Members(f) : Members(f)[i] \in Filters
         /\ Kind[f] = "fork" => Members(f) # <<>>
<1>1. Members(f) \in Seq(Filters \cup {Null})
  BY FiltersAssumption
<1>2. Len(Members(f)) \in Nat /\ DOMAIN Members(f) = 1 .. Len(Members(f))
  BY <1>1
<1>3. \A i \in DOMAIN Members(f) : Members(f)[i] \in Filters \cup {Null} /\ Members(f)[i] \in ToSet(Members(f))
  BY <1>1, <1>2 DEF ToSet
<1>4. Kind[f] \in {"chain", "fork"} => Members(f) = Kids[f]
  BY DEF Members
<1>5. Kind[f] = "chain" => Null \notin ToSet(Members(f))
  BY <1>4, KindsAssumption
<1>6. Kind[f] = "fork" => Members(f) # <<>>
  BY <1>4, KindsAssumption
<1>7. QED
  BY <1>1, <1>2, <1>3, <1>4, <1>5, <1>6 DEF Nodes

(* attach leaves ports that lead to filters, queues or nowhere.            *)
LEMMA AttachedType ==
  ASSUME NEW nx \in Ports, NEW f, NEW g \in Nodes
  PROVE  Attached(nx, f, g) \in Ports
<1>1. PICK l : l = LastOf(nx)[f]
  OBVIOUS
<1>2. Attached(nx, f, g) = [nx EXCEPT ![l] = [nx[l] EXCEPT ![1] = g]]
  BY <1>1 DEF Attached
<1>3. ASSUME NEW s \in Seq(Nodes) PROVE [s EXCEPT ![1] = g] \in Seq(Nodes)
  <2>1. Len(s) \in Nat /\ DOMAIN s = 1 .. Len(s) /\ \A j \in 1 .. Len(s) : s[j] \in Nodes
    OBVIOUS
  <2>2. PICK V, n : V = Nodes /\ n = Len(s)
    OBVIOUS
  <2>3. [s EXCEPT ![1] = g] = [j \in 1 .. n |-> IF j = 1 THEN g ELSE s[j]]
    BY <2>1, <2>2
  <2>4. n \in Nat /\ \A j \in 1 .. n : (IF j = 1 THEN g ELSE s[j]) \in V
    BY <2>1, <2>2
  <2>5. [j \in 1 .. n |-> IF j = 1 THEN g ELSE s[j]] \in Seq(V)
    BY ONLY <2>4
  <2>6. QED
    BY <2>2, <2>3, <2>5
<1>4. l \in Filters => [nx[l] EXCEPT ![1] = g] \in Seq(Nodes)
  BY <1>3 DEF Ports
<1>5. PICK s : s = [nx[l] EXCEPT ![1] = g]
  OBVIOUS
<1>6. [nx EXCEPT ![l] = s] = [x \in Filters |-> IF x = l THEN s ELSE nx[x]]
  BY DEF Ports
<1>7. QED
  BY <1>2, <1>4, <1>5, <1>6 DEF Ports

(* The constructor of Chain attaches its filters one after another.        *)
LEMMA ChainedEquation ==
  ASSUME NEW nx \in Ports, NEW f \in Filters, Kind[f] = "chain"
  PROVE  /\ Chained(nx, f)[0] = nx
         /\ \A i \in 0 .. Len(Kids[f]) : Chained(nx, f)[i] \in Ports
         /\ \A i \in 1 .. Len(Kids[f]) :
              Chained(nx, f)[i] = Attached(Chained(nx, f)[i - 1], f, Kids[f][i])
<1> DEFINE n == Len(Kids[f])
           Step(linked) == [i \in 0 .. n |-> IF i = 0 THEN nx ELSE Attached(linked[i - 1], f, Kids[f][i])]
<1>1. n \in Nat /\ \A i \in 1 .. n : Kids[f][i] \in Nodes
  BY MembersType
<1> HIDE DEF n
<1>2. PICK F : F = [p \in Ports \X (1 .. n) |-> Attached(p[1], f, Kids[f][p[2]])]
  OBVIOUS
<1>3. F \in [Ports \X (1 .. n) -> Ports]
  BY <1>1, <1>2, AttachedType
<1>4. PICK g \in [0 .. n -> Ports] : \A i \in 0 .. n : g[i] = IF i = 0 THEN nx ELSE F[<<g[i - 1], i>>]
  <2>1. Changes(F, n, nx, Ports)
    BY <1>1, <1>3 DEF Changes
  <2>2. \E g : Iterated(g, F, n, nx, Ports)
    BY <2>1, Iterates
  <2>3. QED
    BY <2>2 DEF Iterated
<1>5. \A i \in 0 .. n : i # 0 => i \in 1 .. n /\ i - 1 \in 0 .. n
  BY <1>1
<1>6. \A i \in 1 .. n : F[<<g[i - 1], i>>] = Attached(g[i - 1], f, Kids[f][i])
  BY <1>2, <1>4, <1>5
<1>7. g = Step(g)
  <2>1. \A i \in 0 .. n : g[i] = IF i = 0 THEN nx ELSE Attached(g[i - 1], f, Kids[f][i])
    BY <1>4, <1>5, <1>6
  <2>2. QED
    BY <2>1
<1>8. PICK h : h = CHOOSE a : a = Step(a)
  OBVIOUS
<1>9. h = Step(h)
  BY ONLY <1>7, <1>8, Zenon
<1>10. Chained(nx, f) = h
  BY <1>8 DEF Chained, n
<1>11. 0 \in 0 .. n /\ \A i \in 1 .. n : i \in 0 .. n /\ i # 0
  BY <1>1
<1>12. h[0] = nx /\ \A i \in 1 .. n : h[i] = Attached(h[i - 1], f, Kids[f][i])
  BY <1>9, <1>11
<1>13. PICK T : T = {i \in 0 .. n : h[i] \in Ports}
  OBVIOUS
<1>14. 0 \in T /\ \A i \in 0 .. n : i # n /\ i \in T => i + 1 \in T
  <2>1. 0 \in T
    BY <1>11, <1>12, <1>13
  <2>2. ASSUME NEW i \in 0 .. n, i # n, i \in T PROVE i + 1 \in T
    <3>1. i + 1 \in 1 .. n /\ i + 1 \in 0 .. n /\ (i + 1) - 1 = i
      BY <1>1, <2>2
    <3>2. h[i + 1] = Attached(h[i], f, Kids[f][i + 1]) /\ Kids[f][i + 1] \in Nodes /\ h[i] \in Ports
      BY <1>1, <1>12, <1>13, <2>2, <3>1
    <3>3. QED
      BY <1>13, <3>1, <3>2, AttachedType
  <2>3. QED
    BY <2>1, <2>2
<1>15. 0 .. n \subseteq T
  <2>1. 0 \in Nat
    OBVIOUS
  <2>2. QED
    BY ONLY <1>1, <1>14, <2>1, IntervalInduction
<1>16. QED
  BY <1>10, <1>12, <1>13, <1>15 DEF n

(* So do the constructors.                                                 *)
LEMMA ConstructedType ==
  ASSUME NEW nx \in Ports, NEW f \in Filters
  PROVE  Constructed(nx, f) \in Ports
<1>1. CASE Kind[f] = "fork"
  <2>1. Kids[f] \in Seq(Nodes)
    <3>1. Members(f) \in Seq(Filters \cup {Null}) /\ Members(f) = Kids[f]
      BY <1>1, MembersType
    <3>2. QED
      BY <3>1 DEF Nodes
  <2>2. Constructed(nx, f) = [nx EXCEPT ![f] = Kids[f]]
    BY <1>1 DEF Constructed
  <2>3. QED
    BY <2>1, <2>2 DEF Ports
<1>2. CASE Kind[f] = "chain"
  <2>1. Len(Kids[f]) \in Nat
    BY <1>2, MembersType
  <2>2. Constructed(nx, f) = Chained(nx, f)[Len(Kids[f])]
    BY <1>2 DEF Constructed
  <2>3. QED
    BY <1>2, <2>1, <2>2, ChainedEquation
<1>3. CASE Kind[f] # "fork" /\ Kind[f] # "chain"
  BY <1>3 DEF Constructed
<1>4. QED
  BY <1>1, <1>2, <1>3

(* The program makes its filters one after another.                        *)
LEMMA TreesEquation ==
  /\ Len(Built) \in Nat
  /\ Trees[0] = [f \in Filters |-> NoPorts]
  /\ \A i \in 0 .. Len(Built) : Trees[i] \in Ports
  /\ \A i \in 1 .. Len(Built) : Trees[i] = Constructed(Trees[i - 1], Built[i])
<1> DEFINE n == Len(Built)
           nx == [f \in Filters |-> NoPorts]
           Step(trees) == [i \in 0 .. n |-> IF i = 0 THEN nx ELSE Constructed(trees[i - 1], Built[i])]
<1>1. n \in Nat /\ \A i \in 1 .. n : Built[i] \in Filters
  BY BuiltAssumption
<1>2. nx \in Ports
  BY DEF Ports, Nodes, NoPorts
<1> HIDE DEF n, nx
<1>3. PICK F : F = [p \in Ports \X (1 .. n) |-> Constructed(p[1], Built[p[2]])]
  OBVIOUS
<1>4. F \in [Ports \X (1 .. n) -> Ports]
  BY <1>1, <1>3, ConstructedType
<1>5. PICK g \in [0 .. n -> Ports] : \A i \in 0 .. n : g[i] = IF i = 0 THEN nx ELSE F[<<g[i - 1], i>>]
  <2>1. Changes(F, n, nx, Ports)
    BY <1>1, <1>2, <1>4 DEF Changes
  <2>2. \E g : Iterated(g, F, n, nx, Ports)
    BY <2>1, Iterates
  <2>3. QED
    BY <2>2 DEF Iterated
<1>6. \A i \in 0 .. n : i # 0 => i \in 1 .. n /\ i - 1 \in 0 .. n
  BY <1>1
<1>7. \A i \in 1 .. n : F[<<g[i - 1], i>>] = Constructed(g[i - 1], Built[i])
  BY <1>3, <1>5, <1>6
<1>8. g = Step(g)
  <2>1. \A i \in 0 .. n : g[i] = IF i = 0 THEN nx ELSE Constructed(g[i - 1], Built[i])
    BY <1>5, <1>6, <1>7
  <2>2. QED
    BY <2>1
<1>9. PICK h : h = CHOOSE a : a = Step(a)
  OBVIOUS
<1>10. h = Step(h)
  BY ONLY <1>8, <1>9, Zenon
<1>11. Trees = h
  BY <1>9 DEF Trees, n, nx
<1>12. 0 \in 0 .. n /\ \A i \in 1 .. n : i \in 0 .. n /\ i # 0
  BY <1>1
<1>13. h[0] = nx /\ \A i \in 1 .. n : h[i] = Constructed(h[i - 1], Built[i])
  BY <1>10, <1>12
<1>14. PICK T : T = {i \in 0 .. n : h[i] \in Ports}
  OBVIOUS
<1>15. 0 \in T /\ \A i \in 0 .. n : i # n /\ i \in T => i + 1 \in T
  <2>1. 0 \in T
    BY <1>2, <1>12, <1>13, <1>14
  <2>2. ASSUME NEW i \in 0 .. n, i # n, i \in T PROVE i + 1 \in T
    <3>1. i + 1 \in 1 .. n /\ i + 1 \in 0 .. n /\ (i + 1) - 1 = i
      BY <1>1, <2>2
    <3>2. h[i + 1] = Constructed(h[i], Built[i + 1]) /\ Built[i + 1] \in Filters /\ h[i] \in Ports
      BY <1>1, <1>13, <1>14, <2>2, <3>1
    <3>3. QED
      BY <1>14, <3>1, <3>2, ConstructedType
  <2>3. QED
    BY <2>1, <2>2
<1>16. 0 .. n \subseteq T
  <2>1. 0 \in Nat
    OBVIOUS
  <2>2. QED
    BY ONLY <1>1, <1>15, <2>1, IntervalInduction
<1>17. QED
  BY <1>1, <1>11, <1>13, <1>14, <1>16 DEF n, nx

(* What a chain or a fork is given; and of a chain and what it is given,   *)
(* the first ports lead only to what it is given.                          *)
Given(f) == ToSet(Members(f)) \ {Null}
InFamilies(nx) ==
  \A x \in Filters : Kind[x] # "fork" /\ nx[x][1] \in Filters =>
    \E c \in Filters : Kind[c] = "chain" /\ nx[x][1] \in Given(c) /\ x \in Given(c) \cup {c}
(* The filters of D are made; those of G have been given to others.        *)
Grown(nx, D, G) ==
  /\ nx \in Ports /\ Forest(nx)
  /\ \A x \in Filters : nx[x] # <<>> /\ \A j \in DOMAIN nx[x] : nx[x][j] \in Filters \cup {Null}
  /\ \A x \in Filters \ D : nx[x] = NoPorts
  /\ \A x \in Filters : HasParent(nx, x) <=> x \in G
  /\ \A x \in Filters : Kind[x] # "fork" =>
       /\ Len(nx[x]) = 1
       /\ ForksStandAlone => (nx[x][1] \in Filters => Kind[nx[x][1]] # "fork")
  /\ \A x \in D \cap Filters : Kind[x] = "fork" => Len(nx[x]) = Len(Kids[x])
  /\ PlainFamilies => InFamilies(nx)
(* There is a way down the first ports of k steps.                         *)
HasPath(nx, f, k) == \E path : IsPath(path, nx, f, k)
(* What was behind a first port stays there.                               *)
Keeps(nx, nx2) == \A x \in Filters : nx[x][1] \in Filters => nx2[x][1] = nx[x][1]

(* What keeps the first ports keeps the ways down them.                    *)
LEMMA PathKept ==
  ASSUME NEW nx, NEW nx2, Keeps(nx, nx2), NEW f, NEW k \in Nat, HasPath(nx, f, k)
  PROVE  HasPath(nx2, f, k)
<1>1. PICK path \in [0 .. k -> Filters] : path[0] = f /\ \A i \in 1 .. k : path[i] = nx[path[i - 1]][1]
  BY DEF HasPath, IsPath
<1>2. \A i \in 1 .. k : i \in 0 .. k /\ i - 1 \in 0 .. k
  OBVIOUS
<1>3. \A i \in 1 .. k : path[i] = nx2[path[i - 1]][1]
  BY <1>1, <1>2 DEF Keeps
<1>4. QED
  BY <1>1, <1>3 DEF HasPath, IsPath
(* A filter and what is behind its first port have the same last filter.   *)
LEMMA PathToLast ==
  ASSUME NEW nx, Acyclic(nx), IsPorts(nx), \A x \in Filters : nx[x] # <<>>, NEW k \in Nat,
         NEW f, NEW path, IsPath(path, nx, f, k)
  PROVE  LastOf(nx)[path[k]] = LastOf(nx)[f]
<1> USE DEF IsPath
<1>1. \A x \in Filters : LastOf(nx)[x] = IF nx[x][1] \in Filters THEN LastOf(nx)[nx[x][1]] ELSE x
  BY LastEquation
<1>2. PICK T : T = {i \in 0 .. k : LastOf(nx)[path[i]] = LastOf(nx)[path[0]]}
  OBVIOUS
<1>3. ASSUME NEW i \in 0 .. k, i # k, i \in T PROVE i + 1 \in T
  <2>1. i + 1 \in 1 .. k /\ i + 1 \in 0 .. k /\ (i + 1) - 1 = i
    BY <1>3
  <2>2. path[i + 1] = nx[path[i]][1] /\ path[i + 1] \in Filters /\ path[i] \in Filters
    BY <2>1
  <2>3. LastOf(nx)[path[i]] = LastOf(nx)[path[i + 1]]
    BY <1>1, <2>2
  <2>4. QED
    BY <1>2, <1>3, <2>1, <2>3
<1>4. 0 \in T /\ k \in 0 .. k
  BY <1>2
<1>5. 0 .. k \subseteq T
  <2>1. 0 \in Nat /\ 0 \in T
    BY <1>4
  <2>2. QED
    BY ONLY <1>3, <2>1, k \in Nat, IntervalInduction
<1>6. QED
  BY <1>2, <1>4, <1>5

(* So where a chain is given no chains and forks, what is behind one of    *)
(* its filters is another.                                                 *)
LEMMA FamilyStep ==
  ASSUME PlainFamilies, NEW nx, InFamilies(nx), NEW f \in Filters, Kind[f] = "chain",
         NEW x \in Given(f) \cup {f}, nx[x][1] \in Filters
  PROVE  nx[x][1] \in Given(f)
<1>1. \A c \in Filters : Kind[c] = "chain" =>
        Given(c) \subseteq Filters /\ \A y \in Given(c) : Kind[y] \notin {"chain", "fork"}
  <2> SUFFICES ASSUME NEW c \in Filters, Kind[c] = "chain", NEW y \in Given(c)
               PROVE  y \in Filters /\ Kind[y] \notin {"chain", "fork"}
    OBVIOUS
  <2>1. Members(c) = Kids[c] /\ y \in ToSet(Members(c)) /\ y # Null
    BY MembersType DEF Given
  <2>2. y \in Filters
    BY <2>1, MembersType DEF ToSet
  <2>3. QED
    BY <2>1, <2>2 DEF PlainFamilies
<1>2. x \in Filters /\ Kind[x] # "fork"
  BY <1>1
<1>3. PICK c \in Filters : Kind[c] = "chain" /\ nx[x][1] \in Given(c) /\ x \in Given(c) \cup {c}
  BY <1>2 DEF InFamilies
<1>4. c = f
  <2>1. x = f \/ x = c => x = f /\ x = c
    BY <1>1, <1>3
  <2>2. ASSUME x \in Given(f), x \in Given(c) PROVE c = f
    <3>1. PICK j \in DOMAIN Members(f) : Members(f)[j] = x
      BY <2>2, MembersType DEF Given, ToSet
    <3>2. PICK k \in DOMAIN Members(c) : Members(c)[k] = x
      BY <1>3, <2>2, MembersType DEF Given, ToSet
    <3>3. x # Null
      BY <1>2, FiltersAssumption
    <3>4. QED
      BY <1>3, <3>1, <3>2, <3>3, BuiltAssumption
  <2>3. QED
    BY <1>3, <2>1, <2>2
<1>5. QED
  BY <1>3, <1>4

(* What Grown says of the tree alone.                                      *)
LEMMA GrownType ==
  ASSUME NEW nx, NEW D, NEW G, Grown(nx, D, G)
  PROVE  /\ IsPorts(nx) /\ Forest(nx) /\ Acyclic(nx) /\ OneParent(nx)
         /\ \A x \in Filters : nx[x] # <<>> /\ 1 \in DOMAIN nx[x] /\ nx[x] \in Seq(Nodes)
  BY DEF Grown, Ports, IsPorts, Forest
(* f may be a chain that g is one of.                                      *)
Links(f, g, D, G) ==
  /\ f \in Filters /\ f \in D /\ f \notin G /\ G \subseteq D
  /\ g \in Filters /\ g \notin G /\ g # f
  /\ Kind[f] = "chain" /\ \E i \in DOMAIN Kids[f] : g = Kids[f][i]

(* Attaching one more filter to a chain lengthens the way down it.         *)
LEMMA AttachGrows ==
  ASSUME NEW nx, NEW D, NEW G, NEW f, NEW g, Grown(nx, D, G), Links(f, g, D, G),
         NEW k \in Nat, HasPath(nx, f, k)
  PROVE  /\ Grown(Attached(nx, f, g), D, G \cup {g})
         /\ Keeps(nx, Attached(nx, f, g))
         /\ HasPath(Attached(nx, f, g), f, k + 1)
<1> USE DEF Links
<1>1. PICK l, nx2 : l = LastOf(nx)[f] /\ nx2 = Attached(nx, f, g)
  OBVIOUS
<1>2. ~HasParent(nx, f) /\ ~HasParent(nx, g)
  BY DEF Grown
<1>3. /\ Forest(nx2) /\ IsPorts(nx2) /\ l \in Filters /\ nx[l][1] \notin Filters
      /\ \A x \in Filters : DOMAIN nx2[x] = DOMAIN nx[x]
      /\ \A x \in Filters : \A j \in DOMAIN nx[x] :
           nx2[x][j] = IF x = l /\ j = 1 THEN g ELSE nx[x][j]
  BY <1>1, <1>2, GrownType, AttachedForest
<1>4. \A x \in Filters : nx[x] # <<>> /\ 1 \in DOMAIN nx[x] /\ nx[x] \in Seq(Nodes) /\ nx2[x] \in Seq(Nodes)
  BY <1>3, GrownType DEF IsPorts
<1>5. \A x \in Filters : nx2[x] # <<>> /\ Len(nx2[x]) = Len(nx[x])
  BY <1>3, <1>4
<1>6. \A x \in Filters : \A j \in DOMAIN nx2[x] : nx2[x][j] \in Filters \cup {Null}
  BY <1>3 DEF Grown
<1>7. \A x \in Filters : HasParent(nx2, x) <=> x \in G \cup {g}
  <2>1. \A x \in Filters : HasParent(nx, x) <=> x \in G
    BY DEF Grown
  <2>2. \A x \in Filters : HasParent(nx2, x) => HasParent(nx, x) \/ x = g
    BY <1>3 DEF HasParent
  <2>3. ASSUME NEW x \in Filters, HasParent(nx, x) PROVE HasParent(nx2, x)
    <3>1. PICK y \in Filters : \E j \in DOMAIN nx[y] : nx[y][j] = x
      BY <2>3 DEF HasParent
    <3>2. PICK j \in DOMAIN nx[y] : nx[y][j] = x
      BY <3>1
    <3>3. nx2[y][j] = x /\ j \in DOMAIN nx2[y]
      BY <1>3, <3>2
    <3>4. QED
      BY <3>3 DEF HasParent
  <2>4. HasParent(nx2, g)
    <3>1. nx2[l][1] = g /\ 1 \in DOMAIN nx2[l]
      BY <1>3, <1>4
    <3>2. QED
      BY <1>3, <3>1 DEF HasParent
  <2>5. QED
    BY <2>1, <2>2, <2>3, <2>4
<1>8. l \in D
  <2>1. PICK W : IsWay(W, nx, f)
    BY GrownType, WayToLast
  <2>2. l # f => \E y \in W : l = nx[y][1]
    BY <1>1, <2>1 DEF IsWay
  <2>3. W \subseteq Filters
    BY <2>1 DEF IsWay
  <2>4. l # f => HasParent(nx, l)
    BY <1>4, <2>2, <2>3 DEF HasParent
  <2>5. QED
    BY <1>3, <2>4 DEF Grown
<1>9. \A x \in Filters \ D : nx2[x] = NoPorts
  <2> SUFFICES ASSUME NEW x \in Filters, x \notin D PROVE nx2[x] = NoPorts
    OBVIOUS
  <2>1. nx[x] = NoPorts
    BY DEF Grown
  <2>2. \A j \in DOMAIN nx[x] : nx2[x][j] = nx[x][j]
    BY <1>3, <1>8
  <2>3. nx2[x] = nx[x]
    BY <1>3, <1>4, <2>2
  <2>4. QED
    BY <2>1, <2>3
<1>10. ForksStandAlone => Kind[g] # "fork"
  <2>1. g \in ToSet(Kids[f])
    BY DEF ToSet
  <2>2. QED
    BY <2>1 DEF ForksStandAlone
<1>11. \A x \in Filters : nx2[x][1] = IF x = l THEN g ELSE nx[x][1]
  BY <1>3, <1>4
<1>12. \A x \in Filters : Kind[x] # "fork" =>
         /\ Len(nx2[x]) = 1
         /\ ForksStandAlone => (nx2[x][1] \in Filters => Kind[nx2[x][1]] # "fork")
  <2>1. \A x \in Filters : Kind[x] # "fork" =>
          /\ Len(nx[x]) = 1
          /\ ForksStandAlone => (nx[x][1] \in Filters => Kind[nx[x][1]] # "fork")
    BY DEF Grown
  <2>2. QED
    BY <1>5, <1>10, <1>11, <2>1
<1>13. nx2 \in Ports
  BY <1>3 DEF IsPorts, Ports
<1>18. PlainFamilies => InFamilies(nx2)
  <2> SUFFICES ASSUME PlainFamilies PROVE InFamilies(nx2)
    OBVIOUS
  <2>1. InFamilies(nx)
    BY DEF Grown
  <2>2. g \in Given(f)
    BY MembersType, FiltersAssumption DEF Given, ToSet
  <2>3. PICK W : IsWay(W, nx, f)
    BY GrownType, WayToLast
  <2>4. PICK T : T = W \ (Given(f) \cup {f})
    OBVIOUS
  <2>5. T = {}
    <3> SUFFICES ASSUME T # {} PROVE FALSE
      OBVIOUS
    <3>1. T \in SUBSET Filters /\ W \subseteq Filters
      BY <2>3, <2>4 DEF IsWay
    <3>2. PICK x \in T : \A y \in T : \A j \in DOMAIN nx[y] : nx[y][j] # x
      <4>1. Acyclic(nx) /\ T # {}
        BY GrownType
      <4>2. QED
        BY ONLY <3>1, <4>1, HighestFilter
    <3>3. PICK y \in W : x = nx[y][1]
      BY <2>3, <2>4 DEF IsWay
    <3>4. y \in Given(f) \cup {f}
      BY <1>4, <2>4, <3>1, <3>2, <3>3
    <3>5. x \in Given(f)
      BY <2>1, <3>1, <3>3, <3>4, FamilyStep
    <3>6. QED
      BY <2>4, <3>5
  <2>6. l \in Given(f) \cup {f}
    BY <1>1, <2>3, <2>4, <2>5 DEF IsWay
  <2>7. QED
    BY <1>11, <2>1, <2>2, <2>6 DEF InFamilies
<1>19. \A x \in D \cap Filters : Kind[x] = "fork" => Len(nx2[x]) = Len(Kids[x])
  <2>1. \A x \in D \cap Filters : Kind[x] = "fork" => Len(nx[x]) = Len(Kids[x])
    BY DEF Grown
  <2>2. QED
    BY <1>5, <2>1
<1>14. Grown(nx2, D, G \cup {g})
  BY <1>3, <1>5, <1>6, <1>7, <1>9, <1>12, <1>13, <1>18, <1>19 DEF Grown
<1>15. Keeps(nx, nx2)
  BY <1>3, <1>11 DEF Keeps
<1>16. HasPath(nx2, f, k + 1)
  <2>1. PICK path \in [0 .. k -> Filters] : path[0] = f /\ \A i_1 \in 1 .. k : path[i_1] = nx[path[i_1 - 1]][1]
    BY DEF HasPath, IsPath
  <2>2. LastOf(nx)[path[k]] = l
    <3>1. IsPath(path, nx, f, k)
      BY <2>1 DEF IsPath
    <3>2. LastOf(nx)[path[k]] = LastOf(nx)[f]
      BY <3>1, GrownType, PathToLast
    <3>3. QED
      BY <1>1, <3>2
  <2>3. PICK e : e = path[k]
    OBVIOUS
  <2>4. e \in Filters
    BY <2>1, <2>3
  <2>5. nx2[e][1] \in Filters
    <3>1. nx[e][1] \notin Filters => LastOf(nx)[e] = e
      BY <2>4, GrownType, LastEquation
    <3>2. QED
      BY <1>11, <2>2, <2>3, <2>4, <3>1
  <2>6. PICK longer : longer = [m \in 0 .. k + 1 |-> IF m = k + 1 THEN nx2[e][1] ELSE path[m]]
    OBVIOUS
  <2>7. \A m \in 0 .. k + 1 : m # k + 1 => m \in 0 .. k
    OBVIOUS
  <2>8. longer \in [0 .. k + 1 -> Filters]
    BY <2>1, <2>5, <2>6, <2>7
  <2>9. longer[0] = f
    BY <2>1, <2>6
  <2>10. ASSUME NEW m \in 1 .. k + 1 PROVE longer[m] = nx2[longer[m - 1]][1]
    <3>1. m - 1 \in 0 .. k /\ m - 1 # k + 1 /\ m - 1 \in 0 .. k + 1 /\ m \in 0 .. k + 1
      OBVIOUS
    <3>2. longer[m - 1] = path[m - 1] /\ path[m - 1] \in Filters
      BY <2>1, <2>6, <3>1
    <3>3. CASE m = k + 1
      <4>1. longer[m] = nx2[e][1] /\ m - 1 = k
        BY <2>6, <3>1, <3>3
      <4>2. QED
        BY <2>3, <3>2, <4>1
    <3>4. CASE m # k + 1
      <4>1. m \in 1 .. k /\ m \in 0 .. k /\ longer[m] = path[m]
        BY <2>6, <3>1, <3>4
      <4>2. path[m] = nx[path[m - 1]][1] /\ path[m] \in Filters
        BY <2>1, <4>1
      <4>3. nx2[path[m - 1]][1] = nx[path[m - 1]][1]
        BY <1>15, <3>2, <4>2 DEF Keeps
      <4>4. QED
        BY <3>2, <4>1, <4>2, <4>3
    <3>5. QED
      BY <3>3, <3>4
  <2>11. QED
    BY <2>8, <2>9, <2>10 DEF HasPath, IsPath
<1>17. QED
  BY <1>1, <1>14, <1>15, <1>16

(* f may be made when those of D are: what it is given is made, and is     *)
(* given to no other and only once.                                        *)
Fresh(f, D, G) ==
  /\ f \in Filters /\ f \notin D /\ G \subseteq D
  /\ \A i \in DOMAIN Members(f) : Members(f)[i] # Null => Members(f)[i] \in D \ G
  /\ \A i, k \in DOMAIN Members(f) : Members(f)[i] = Members(f)[k] /\ Members(f)[i] # Null => i = k

(* A chain is made with a way down it as long as the filters it owns.      *)
LEMMA ChainGrows ==
  ASSUME NEW nx, NEW D, NEW G, NEW f, Grown(nx, D, G), Fresh(f, D, G), Kind[f] = "chain"
  PROVE  /\ Grown(Constructed(nx, f), D \cup {f}, G \cup Given(f))
         /\ Keeps(nx, Constructed(nx, f))
         /\ HasPath(Constructed(nx, f), f, Owns(f))
<1>1. PICK n, c : n = Len(Kids[f]) /\ c = Chained(nx, f)
  OBVIOUS
<1>2. /\ f \in Filters /\ f \notin D /\ G \subseteq D /\ n \in Nat
      /\ DOMAIN Kids[f] = 1 .. n /\ Members(f) = Kids[f]
      /\ \A m \in 1 .. n : Kids[f][m] \in Filters
  BY <1>1, MembersType DEF Fresh
<1>3. \A m \in 1 .. n : Kids[f][m] \in D \ G /\ Kids[f][m] # f
  BY <1>2, FiltersAssumption DEF Fresh
<1>4. \A m, o \in 1 .. n : Kids[f][m] = Kids[f][o] => m = o
  BY <1>2, FiltersAssumption DEF Fresh
<1>5. /\ c[0] = nx /\ Constructed(nx, f) = c[n]
      /\ \A m \in 1 .. n : c[m] = Attached(c[m - 1], f, Kids[f][m])
  <2>1. nx \in Ports
    BY DEF Grown
  <2>2. QED
    BY <1>1, <1>2, <2>1, ChainedEquation DEF Constructed
<1> DEFINE Up(k) == {Kids[f][m] : m \in 1 .. k}
           Good(k) == /\ Grown(c[k], D \cup {f}, G \cup Up(k)) /\ Keeps(nx, c[k])
                      /\ HasPath(c[k], f, k)
<1>6. Good(0)
  <2>1. Up(0) = {}
    OBVIOUS
  <2>2. Grown(nx, D \cup {f}, G)
    BY DEF Grown
  <2>3. Keeps(nx, nx)
    BY DEF Keeps
  <2>4. HasPath(nx, f, 0)
    <3>1. PICK path : path = [m \in 0 .. 0 |-> f]
      OBVIOUS
    <3>2. path \in [0 .. 0 -> Filters] /\ path[0] = f /\ 1 .. 0 = {}
      BY <1>2, <3>1
    <3>3. QED
      BY <3>2 DEF HasPath, IsPath
  <2>5. G \cup Up(0) = G
    BY <2>1
  <2>6. QED
    BY <1>5, <2>2, <2>3, <2>4, <2>5
<1>7. ASSUME NEW k \in 0 .. n, k # n, Good(k) PROVE Good(k + 1)
  <2>1. k + 1 \in 1 .. n /\ k \in Nat /\ (k + 1) - 1 = k
    BY <1>2, <1>7
  <2>2. PICK g, a, G2, D2 : g = Kids[f][k + 1] /\ a = c[k] /\ G2 = G \cup Up(k) /\ D2 = D \cup {f}
    OBVIOUS
  <2>3. Grown(a, D2, G2) /\ Keeps(nx, a) /\ HasPath(a, f, k)
    BY <1>7, <2>2
  <2>4. c[k + 1] = Attached(a, f, g)
    BY <1>5, <2>1, <2>2
  <2>5. \A x \in Up(k) : \E m \in 1 .. n : m <= k /\ x = Kids[f][m]
    BY <1>2, <2>1
  <2>6. g \notin Up(k)
    <3>1. ASSUME g \in Up(k) PROVE FALSE
      <4>1. PICK m \in 1 .. n : m <= k /\ g = Kids[f][m]
        BY <2>5, <3>1
      <4>2. m = k + 1
        BY <1>4, <2>1, <2>2, <4>1
      <4>3. QED
        BY <2>1, <4>1, <4>2
    <3>2. QED
      BY <3>1
  <2>7. Up(k) \subseteq D /\ f \notin Up(k)
    BY <1>3, <2>5
  <2>8. Up(k + 1) = Up(k) \cup {g}
    <3>1. \A m \in 1 .. k + 1 : m \in 1 .. k \/ m = k + 1
      BY <2>1
    <3>2. \A m \in 1 .. k : m \in 1 .. k + 1
      BY <2>1
    <3>3. k + 1 \in 1 .. k + 1
      BY <2>1
    <3>4. QED
      BY <2>2, <3>1, <3>2, <3>3
  <2> HIDE DEF Up
  <2>9. g \in Filters /\ g \in D \ G /\ g # f /\ k + 1 \in DOMAIN Kids[f]
    BY <1>2, <1>3, <2>1, <2>2
  <2>10. Links(f, g, D2, G2)
    <3>1. f \in D2 /\ f \notin G2 /\ g \notin G2 /\ G2 \subseteq D2 /\ f # g
      BY <1>2, <2>2, <2>6, <2>7, <2>9
    <3>2. \E i \in DOMAIN Kids[f] : g = Kids[f][i]
      BY <2>2, <2>9
    <3>3. QED
      BY <1>2, <2>9, <3>1, <3>2 DEF Links
  <2>11. /\ Grown(Attached(a, f, g), D2, G2 \cup {g})
         /\ Keeps(a, Attached(a, f, g))
         /\ HasPath(Attached(a, f, g), f, k + 1)
    BY <2>1, <2>3, <2>10, AttachGrows
  <2>12. Keeps(nx, c[k + 1])
    BY <2>3, <2>4, <2>11 DEF Keeps
  <2>13. G2 \cup {g} = G \cup Up(k + 1)
    BY <2>2, <2>8
  <2>14. QED
    BY <2>2, <2>4, <2>11, <2>12, <2>13
<1> HIDE DEF Good
<1>8. Good(n)
  <2>1. PICK T : T = {k \in 0 .. n : Good(k)}
    OBVIOUS
  <2>2. 0 \in Nat /\ 0 \in T
    BY <1>2, <1>6, <2>1
  <2>3. ASSUME NEW k \in 0 .. n, k # n, k \in T PROVE k + 1 \in T
    <3>1. k + 1 \in 0 .. n
      BY <1>2, <2>3
    <3>2. QED
      BY <1>7, <2>1, <2>3, <3>1
  <2>4. n \in Nat
    BY <1>2
  <2>5. 0 .. n \subseteq T
    BY ONLY <2>2, <2>3, <2>4, IntervalInduction
  <2>6. n \in 0 .. n
    BY <1>2
  <2>7. QED
    BY <2>1, <2>5, <2>6
<1>9. Up(n) = Given(f)
  <2>1. Null \notin Filters
    BY FiltersAssumption
  <2>2. ToSet(Members(f)) = {Kids[f][m] : m \in 1 .. n}
    BY <1>2 DEF ToSet
  <2>3. QED
    BY <1>2, <2>1, <2>2 DEF Given
<1>10. Owns(f) = n
  BY <1>1 DEF Owns
<1>11. QED
  BY <1>5, <1>8, <1>9, <1>10 DEF Good

(* A fork is made above filters that nothing led to.                       *)
LEMMA ForkGrows ==
  ASSUME NEW nx, NEW D, NEW G, NEW f, Grown(nx, D, G), Fresh(f, D, G), Kind[f] = "fork"
  PROVE  /\ Grown(Constructed(nx, f), D \cup {f}, G \cup Given(f))
         /\ Keeps(nx, Constructed(nx, f))
<1>1. PICK nx2 : nx2 = Constructed(nx, f)
  OBVIOUS
<1>2. /\ f \in Filters /\ f \notin D /\ G \subseteq D
      /\ Members(f) = Kids[f] /\ Kids[f] \in Seq(Filters \cup {Null}) /\ Kids[f] # <<>>
      /\ DOMAIN Kids[f] = 1 .. Len(Kids[f]) /\ Len(Kids[f]) \in Nat
      /\ \A j \in DOMAIN Kids[f] : Kids[f][j] \in Filters \cup {Null}
  BY MembersType DEF Fresh
<1>3. /\ \A j \in DOMAIN Kids[f] : Kids[f][j] # Null => Kids[f][j] \in D \ G /\ Kids[f][j] # f
      /\ \A j, k \in DOMAIN Kids[f] : Kids[f][j] = Kids[f][k] /\ Kids[f][j] # Null => j = k
  BY <1>2 DEF Fresh
<1>4. nx2 \in Ports /\ nx2[f] = Kids[f] /\ \A x \in Filters \ {f} : nx2[x] = nx[x]
  <2>1. nx \in Ports
    BY DEF Grown
  <2>2. nx2 \in Ports
    BY <1>1, <1>2, <2>1, ConstructedType
  <2>3. nx2 = [nx EXCEPT ![f] = Kids[f]]
    BY <1>1 DEF Constructed
  <2>4. QED
    BY <1>2, <2>1, <2>2, <2>3 DEF Ports
<1>5. /\ nx[f] = NoPorts /\ DOMAIN nx[f] = {1} /\ nx[f][1] = Null /\ Null \notin Filters
      /\ \A x \in Filters : HasParent(nx, x) <=> x \in G
  <2>1. nx[f] = NoPorts
    BY <1>2 DEF Grown
  <2>2. QED
    BY <2>1, FiltersAssumption DEF Grown, NoPorts
<1>6. ~HasParent(nx, f)
  BY <1>2, <1>5
<1>7. Acyclic(nx2)
  <2> SUFFICES ASSUME NEW T \in SUBSET Filters, T # {}
               PROVE  \E x \in T : \A j \in DOMAIN nx2[x] : nx2[x][j] \notin T
    BY DEF Acyclic
  <2>1. CASE T = {f}
    BY <1>3, <1>4, <1>5, <2>1
  <2>2. CASE T # {f}
    <3>1. T \ {f} # {} /\ T \ {f} \in SUBSET Filters
      BY <2>2
    <3>2. PICK x \in T \ {f} : \A j \in DOMAIN nx[x] : nx[x][j] \notin T \ {f}
      BY <3>1, GrownType DEF Acyclic
    <3>3. \A j \in DOMAIN nx[x] : nx[x][j] # f
      BY <1>6, <3>2 DEF HasParent
    <3>4. nx2[x] = nx[x]
      BY <1>4, <3>2
    <3>5. QED
      BY <3>2, <3>3, <3>4
  <2>3. QED
    BY <2>1, <2>2
<1>8. \A x \in Filters : \A j \in DOMAIN nx[x] : nx[x][j] \in Filters => nx[x][j] \in G
  BY <1>5 DEF HasParent
<1>9. OneParent(nx2)
  <2> SUFFICES ASSUME NEW x \in Filters, NEW y \in Filters, NEW j \in DOMAIN nx2[x], NEW k \in DOMAIN nx2[y],
                      nx2[x][j] = nx2[y][k], nx2[x][j] # Null
               PROVE  x = y /\ j = k
    BY DEF OneParent
  <2>1. CASE x = f /\ y = f
    BY <1>3, <1>4, <2>1
  <2>2. CASE x # f /\ y # f
    <3>1. nx2[x] = nx[x] /\ nx2[y] = nx[y]
      BY <1>4, <2>2
    <3>2. QED
      BY <3>1, GrownType DEF OneParent
  <2>3. \A z \in Filters : \A m \in DOMAIN nx2[z] : z # f /\ nx2[z][m] # Null => nx2[z][m] \in G
    BY <1>4, <1>8 DEF Grown
  <2>4. \A m \in DOMAIN nx2[f] : nx2[f][m] # Null => nx2[f][m] \notin G
    BY <1>3, <1>4
  <2>5. QED
    BY <2>1, <2>2, <2>3, <2>4
<1>10. \A x \in Filters : nx2[x] # <<>> /\ \A j \in DOMAIN nx2[x] : nx2[x][j] \in Filters \cup {Null}
  <2>1. \A x \in Filters : nx[x] # <<>> /\ \A j \in DOMAIN nx[x] : nx[x][j] \in Filters \cup {Null}
    BY DEF Grown
  <2>2. QED
    BY <1>2, <1>4, <2>1
<1>11. \A x \in Filters \ (D \cup {f}) : nx2[x] = NoPorts
  BY <1>4 DEF Grown
<1>12. \A x \in Filters : HasParent(nx2, x) <=> x \in G \cup Given(f)
  <2> SUFFICES ASSUME NEW x \in Filters PROVE HasParent(nx2, x) <=> x \in G \cup Given(f)
    OBVIOUS
  <2>1. HasParent(nx2, x) <=>
          \/ \E j \in DOMAIN Kids[f] : Kids[f][j] = x
          \/ \E y \in Filters \ {f} : \E j \in DOMAIN nx[y] : nx[y][j] = x
    BY <1>2, <1>4 DEF HasParent
  <2>2. HasParent(nx, x) <=> \E y \in Filters \ {f} : \E j \in DOMAIN nx[y] : nx[y][j] = x
    BY <1>2, <1>5 DEF HasParent
  <2>3. x \in Given(f) <=> \E j \in DOMAIN Kids[f] : Kids[f][j] = x
    BY <1>2, <1>5 DEF Given, ToSet
  <2>4. QED
    BY <1>5, <2>1, <2>2, <2>3
<1>13. \A x \in Filters : Kind[x] # "fork" => nx2[x] = nx[x]
  BY <1>4
<1>14. \A x \in Filters : Kind[x] # "fork" =>
         /\ Len(nx2[x]) = 1
         /\ ForksStandAlone => (nx2[x][1] \in Filters => Kind[nx2[x][1]] # "fork")
  <2>1. \A x \in Filters : Kind[x] # "fork" =>
          /\ Len(nx[x]) = 1
          /\ ForksStandAlone => (nx[x][1] \in Filters => Kind[nx[x][1]] # "fork")
    BY DEF Grown
  <2>2. QED
    BY <1>13, <2>1
<1>18. PlainFamilies => InFamilies(nx2)
  BY <1>13 DEF Grown, InFamilies
<1>19. \A x \in (D \cup {f}) \cap Filters : Kind[x] = "fork" => Len(nx2[x]) = Len(Kids[x])
  BY <1>2, <1>4 DEF Grown
<1>15. Grown(nx2, D \cup {f}, G \cup Given(f))
  BY <1>4, <1>7, <1>9, <1>10, <1>11, <1>12, <1>14, <1>18, <1>19 DEF Grown, Forest
<1>16. Keeps(nx, nx2)
  BY <1>4, <1>5 DEF Keeps
<1>17. QED
  BY <1>1, <1>15, <1>16

(* Every constructor adds one filter, above those it is given.             *)
LEMMA ConstructedGrows ==
  ASSUME NEW nx, NEW D, NEW G, NEW f, Grown(nx, D, G), Fresh(f, D, G)
  PROVE  /\ Grown(Constructed(nx, f), D \cup {f}, G \cup Given(f))
         /\ Keeps(nx, Constructed(nx, f))
         /\ HasPath(Constructed(nx, f), f, Owns(f))
<1>1. ASSUME NEW nx2, Kind[f] # "chain" PROVE HasPath(nx2, f, Owns(f))
  <2>1. Owns(f) = 0 /\ f \in Filters
    BY <1>1 DEF Owns, Fresh
  <2>2. PICK path : path = [i \in 0 .. 0 |-> f]
    OBVIOUS
  <2>3. path \in [0 .. 0 -> Filters] /\ path[0] = f /\ 1 .. 0 = {}
    BY <2>1, <2>2
  <2>4. QED
    BY <2>1, <2>3 DEF HasPath, IsPath
<1>2. CASE Kind[f] = "chain"
  BY <1>2, ChainGrows
<1>3. CASE Kind[f] = "fork"
  BY <1>1, <1>3, ForkGrows
<1>4. CASE Kind[f] # "chain" /\ Kind[f] # "fork"
  <2>1. Constructed(nx, f) = nx
    BY <1>4 DEF Constructed
  <2>2. Given(f) = {}
    BY <1>4 DEF Given, Members, ToSet
  <2>3. Grown(nx, D \cup {f}, G)
    BY <1>4 DEF Grown
  <2>4. Keeps(nx, nx)
    BY DEF Keeps
  <2>5. G \cup Given(f) = G
    BY <2>2
  <2>6. QED
    BY <1>1, <1>4, <2>1, <2>3, <2>4, <2>5
<1>5. QED
  BY <1>2, <1>3, <1>4

(* When the program has made its filters they form trees.                  *)
LEMMA TreesGrow ==
  LET made0 == ToSet(Built)
      given0 == UNION {Given(f) : f \in made0}
  IN Grown(Trees[Len(Built)], made0, given0) /\ \A f \in made0 : HasPath(Trees[Len(Built)], f, Owns(f))
<1> DEFINE n == Len(Built)
           D(i) == {Built[h] : h \in 1 .. i}
           G(i) == UNION {Given(f) : f \in D(i)}
           Good(i) == Grown(Trees[i], D(i), G(i)) /\ \A f \in D(i) : HasPath(Trees[i], f, Owns(f))
<1>1. /\ n \in Nat /\ DOMAIN Built = 1 .. n /\ \A h \in 1 .. n : Built[h] \in Filters
      /\ Trees[0] = [f \in Filters |-> NoPorts] /\ \A i \in 0 .. n : Trees[i] \in Ports
      /\ \A i \in 1 .. n : Trees[i] = Constructed(Trees[i - 1], Built[i])
  BY TreesEquation, BuiltAssumption
<1>2. \A h, k \in 1 .. n : Built[h] = Built[k] => h = k
  BY <1>1, BuiltAssumption DEF IsInjective
<1>3. \A h \in 1 .. n : \A x \in Given(Built[h]) : \E k \in 1 .. h - 1 : Built[k] = x
  BY <1>1, BuiltAssumption DEF Given
<1>4. \A f, g \in Filters : \A j \in DOMAIN Members(f), k \in DOMAIN Members(g) :
        Members(f)[j] = Members(g)[k] /\ Members(f)[j] # Null => f = g /\ j = k
  BY BuiltAssumption
<1>5. ASSUME NEW f \in Filters
      PROVE  \A x : x \in Given(f) <=> x # Null /\ \E j \in DOMAIN Members(f) : Members(f)[j] = x
  BY MembersType DEF Given, ToSet
<1> HIDE DEF n
<1>6. Good(0)
  <2>1. D(0) = {} /\ G(0) = {}
    OBVIOUS
  <2>2. PICK nx : nx = Trees[0]
    OBVIOUS
  <2>3. /\ nx \in Ports /\ \A x \in Filters : nx[x] = NoPorts
        /\ DOMAIN NoPorts = {1} /\ NoPorts[1] = Null /\ Len(NoPorts) = 1 /\ NoPorts # <<>> /\ Null \notin Filters
    <3>1. 0 \in 0 .. n
      BY <1>1
    <3>2. QED
      BY <1>1, <2>2, <3>1, FiltersAssumption DEF NoPorts
  <2> HIDE DEF NoPorts
  <2>4. Forest(nx)
    BY <2>3 DEF Forest, Acyclic, OneParent
  <2>5. \A x \in Filters : ~HasParent(nx, x)
    BY <2>3 DEF HasParent
  <2>6. Grown(nx, {}, {})
    BY <2>3, <2>4, <2>5 DEF Grown, InFamilies
  <2>7. QED
    BY <2>1, <2>2, <2>6
<1>7. ASSUME NEW i \in 0 .. n, i # n, Good(i) PROVE Good(i + 1)
  <2>1. i + 1 \in 1 .. n /\ i \in Nat /\ (i + 1) - 1 = i /\ \A h \in 1 .. i : h \in 1 .. n /\ h # i + 1
    <3>1. n \in Nat /\ i \in 0 .. n /\ i # n
      BY <1>1, <1>7
    <3>2. QED
      BY ONLY <3>1
  <2>2. PICK f, nx, D0, G0 : f = Built[i + 1] /\ nx = Trees[i] /\ D0 = D(i) /\ G0 = G(i)
    OBVIOUS
  <2>3. f \in Filters /\ Trees[i + 1] = Constructed(nx, f)
    BY <1>1, <2>1, <2>2
  <2>4. D(i + 1) = D0 \cup {f}
    <3>1. \A h : h \in 1 .. i + 1 <=> h \in 1 .. i \/ h = i + 1
      BY <2>1
    <3>2. QED
      BY <2>2, <3>1
  <2>5. f \notin D0
    BY <1>2, <2>1, <2>2
  <2>6. \A h \in 1 .. i + 1 : \A x \in Given(Built[h]) : x \in D0
    <3> SUFFICES ASSUME NEW h \in 1 .. i + 1, NEW x \in Given(Built[h]) PROVE x \in D0
      OBVIOUS
    <3>1. h \in 1 .. n
      BY <1>1, <2>1
    <3>2. PICK k \in 1 .. h - 1 : Built[k] = x
      BY <1>3, <3>1
    <3>3. k \in 1 .. i
      BY <2>1, <3>1, <3>2
    <3>4. QED
      BY <2>2, <3>2, <3>3
  <2>7. G0 \subseteq D0
    <3>1. \A h \in 1 .. i : h \in 1 .. i + 1
      BY <2>1
    <3>2. QED
      BY <2>2, <2>6, <3>1
  <2>8. Given(f) \subseteq D0
    <3>1. i + 1 \in 1 .. i + 1
      BY <2>1
    <3>2. QED
      BY <2>2, <2>6, <3>1
  <2>9. D0 \subseteq Filters
    BY <1>1, <2>1, <2>2
  <2>10. \A x \in Given(f) : x \notin G0
    <3> SUFFICES ASSUME NEW x \in Given(f), x \in G0 PROVE FALSE
      OBVIOUS
    <3>1. PICK g \in D0 : x \in Given(g)
      BY <2>2
    <3>2. PICK j \in DOMAIN Members(f) : Members(f)[j] = x
      BY <1>5, <2>3
    <3>3. PICK k \in DOMAIN Members(g) : Members(g)[k] = x
      BY <1>5, <2>9, <3>1
    <3>4. x # Null
      BY DEF Given
    <3>5. f = g
      BY <1>4, <2>3, <2>9, <3>2, <3>3, <3>4
    <3>6. QED
      BY <2>5, <3>5
  <2>11. Fresh(f, D0, G0)
    <3>1. \A j \in DOMAIN Members(f) : Members(f)[j] # Null => Members(f)[j] \in D0 \ G0
      BY <1>5, <2>3, <2>8, <2>10
    <3>2. QED
      BY <1>4, <2>3, <2>5, <2>7, <3>1 DEF Fresh
  <2>12. Grown(nx, D0, G0) /\ \A g \in D0 : HasPath(nx, g, Owns(g))
    BY <1>7, <2>2
  <2>13. /\ Grown(Constructed(nx, f), D0 \cup {f}, G0 \cup Given(f))
         /\ Keeps(nx, Constructed(nx, f)) /\ HasPath(Constructed(nx, f), f, Owns(f))
    BY <2>11, <2>12, ConstructedGrows
  <2>14. \A g \in D0 : HasPath(Constructed(nx, f), g, Owns(g))
    <3> SUFFICES ASSUME NEW g \in D0 PROVE HasPath(Constructed(nx, f), g, Owns(g))
      OBVIOUS
    <3>1. Owns(g) \in Nat
      BY <2>9, MembersType DEF Owns
    <3>2. QED
      BY <2>12, <2>13, <3>1, PathKept
  <2>15. G(i + 1) = G0 \cup Given(f)
    BY <2>2, <2>4
  <2>16. QED
    BY <2>3, <2>4, <2>13, <2>14, <2>15
<1> HIDE DEF Good
<1>8. Good(n)
  <2>1. PICK T : T = {i \in 0 .. n : Good(i)}
    OBVIOUS
  <2>2. 0 \in Nat /\ 0 \in T /\ n \in Nat
    BY <1>1, <1>6, <2>1
  <2>3. ASSUME NEW i \in 0 .. n, i # n, i \in T PROVE i + 1 \in T
    <3>1. i + 1 \in 0 .. n
      BY <1>1, <2>3
    <3>2. QED
      BY <1>7, <2>1, <2>3, <3>1
  <2>4. 0 .. n \subseteq T
    BY ONLY <2>2, <2>3, IntervalInduction
  <2>5. n \in 0 .. n
    BY <1>1
  <2>6. QED
    BY <2>1, <2>4, <2>5
<1>9. D(n) = ToSet(Built)
  BY <1>1 DEF ToSet
<1>10. QED
  BY <1>8, <1>9 DEF Good, n

(* The strengthening holds at the start.                                   *)
LEMMA PipeInit ==
  ASSUME Init
  PROVE  PipeInv
<1>1. PICK D, G : D = ToSet(Built) /\ G = UNION {Given(f) : f \in D}
  OBVIOUS
<1>2. Grown(next, D, G) /\ \A f \in D : HasPath(next, f, Owns(f))
  <2>1. next = Trees[Len(Built)]
    BY DEF Init
  <2>2. QED
    BY <1>1, <2>1, TreesGrow
<1>3. /\ next \in Ports /\ Forest(next)
      /\ \A x \in Filters : next[x] # <<>> /\ \A j \in DOMAIN next[x] : next[x][j] \in Filters \cup {Null}
      /\ \A x \in Filters \ D : next[x] = NoPorts
      /\ \A x \in Filters : HasParent(next, x) <=> x \in G
      /\ \A x \in Filters : Kind[x] # "fork" =>
           /\ Len(next[x]) = 1
           /\ ForksStandAlone => (next[x][1] \in Filters => Kind[next[x][1]] # "fork")
  BY <1>2 DEF Grown
<1>4. /\ D = Filters \ {NullFilter} /\ NullFilter \in Filters /\ Null \notin Filters
      /\ Null \notin Queues /\ Filters \cap Queues = {}
  BY <1>1, BuiltAssumption, FiltersAssumption
<1>5. /\ alive = D /\ owned = {} /\ pipe = Null /\ inside_msg = FALSE /\ failed = FALSE
      /\ buffers = <<>> /\ offset = 0 /\ default_read = 0 /\ made = 0 /\ written = <<>> /\ throws = 0
      /\ store = [x \in Filters \cup Queues |-> <<>>] /\ wild = FALSE
  BY <1>4 DEF Init
<1>6. TopLevel = D \ G
  <2>1. \A x \in D : x \in UNION {ToSet(Members(f)) : f \in Filters} <=> x \in G
    <3>1. \A x \in D : x # Null
      BY <1>4
    <3>2. ToSet(Members(NullFilter)) = {}
      BY FiltersAssumption DEF Members, ToSet
    <3>3. QED
      BY <1>1, <1>4, <3>1, <3>2 DEF Given
  <2>2. QED
    BY <1>1, <2>1 DEF TopLevel
<1>7. NullFilter \notin G
  <2>1. SUFFICES ASSUME NullFilter \in G PROVE FALSE
    OBVIOUS
  <2>2. PICK f \in D : NullFilter \in Given(f)
    BY <1>1, <2>1
  <2>3. PICK i \in DOMAIN Built : f = Built[i]
    BY <1>1, <2>2, BuiltAssumption DEF ToSet
  <2>4. NullFilter \in ToSet(Members(Built[i])) \ {Null}
    BY <2>2, <2>3 DEF Given
  <2>5. PICK h \in 1 .. i - 1 : Built[h] = NullFilter
    BY <2>4, BuiltAssumption
  <2>6. Len(Built) \in Nat /\ DOMAIN Built = 1 .. Len(Built)
    BY BuiltAssumption
  <2>7. h \in DOMAIN Built
    BY <2>6
  <2>8. NullFilter \in ToSet(Built)
    BY <2>5, <2>7 DEF ToSet
  <2>9. QED
    BY <1>1, <1>4, <2>8
<1>8. TypeOK
  <2>1. next \in [Filters -> Seq(Filters \cup Queues \cup {Null})]
    BY <1>3 DEF Ports, Nodes
  <2>2. alive \subseteq Filters /\ owned \subseteq TopLevel /\ pipe \in Filters \cup {Null}
    BY <1>4, <1>5
  <2>3. store \in [Filters \cup Queues -> Seq(Items)]
    BY <1>5
  <2>4. buffers \in Seq(Queues) /\ offset \in Nat /\ MessageCount = made
    BY <1>5 DEF MessageCount
  <2>5. written \in Seq(Items) /\ throws \in 0 .. MaxThrows
    BY <1>5, BoundsAssumption
  <2>6. QED
    BY <1>5, <2>1, <2>2, <2>3, <2>4, <2>5 DEF TypeOK
<1>9. RootsInv
  <2>1. next[NullFilter] = NoPorts /\ ~HasParent(next, NullFilter)
    BY <1>3, <1>4, <1>7
  <2>2. \A f \in TopLevel \ owned : f \in alive /\ f # pipe /\ ~HasParent(next, f)
    BY <1>3, <1>4, <1>5, <1>6
  <2>3. \A f \in alive : HasParent(next, f) \/ f \in TopLevel \ owned
    BY <1>3, <1>4, <1>5, <1>6
  <2>4. \A f \in Filters \ alive : f = NullFilter
    BY <1>4, <1>5
  <2>5. NullFilter \notin alive /\ pipe # NullFilter
    BY <1>4, <1>5
  <2>6. QED
    BY <1>3, <1>5, <2>1, <2>2, <2>3, <2>4, <2>5 DEF RootsInv
<1>10. QueueInv
  <2>1. \A f \in Filters : \A j \in DOMAIN next[f] : next[f][j] \notin Queues
    BY <1>3, <1>4
  <2>2. DOMAIN buffers = {}
    BY <1>5
  <2>3. QED
    BY <1>5, <2>1, <2>2 DEF QueueInv
<1>11. ChainInv
  <2> SUFFICES ASSUME NEW f \in D
               PROVE  \E path \in [0 .. Owns(f) -> Filters] :
                        /\ path[0] = f
                        /\ \A i \in 1 .. Owns(f) : path[i] = next[path[i - 1]][1]
                        /\ ForksStandAlone => \A i \in 1 .. Owns(f) : Len(next[path[i]]) = 1
    BY <1>5 DEF ChainInv
  <2>1. PICK path : IsPath(path, next, f, Owns(f))
    BY <1>2 DEF HasPath
  <2>2. PICK n : n = Owns(f)
    OBVIOUS
  <2>3. n \in Nat /\ path \in [0 .. n -> Filters] /\ path[0] = f
        /\ \A i \in 1 .. n : path[i] = next[path[i - 1]][1]
    <3>1. n \in Nat
      BY <1>4, <2>2, MembersType DEF Owns
    <3>2. QED
      BY <2>1, <2>2, <3>1 DEF IsPath
  <2>4. ForksStandAlone => \A i \in 1 .. n : Len(next[path[i]]) = 1
    <3> SUFFICES ASSUME ForksStandAlone, n # 0 PROVE \A i \in 1 .. n : Len(next[path[i]]) = 1
      BY <2>3
    <3>1. Kind[f] = "chain"
      BY <2>2 DEF Owns
    <3>2. PICK T : T = {i \in 0 .. n : Kind[path[i]] # "fork"}
      OBVIOUS
    <3>3. 0 \in T
      BY <2>3, <3>1, <3>2
    <3>4. ASSUME NEW i \in 0 .. n, i # n, i \in T PROVE i + 1 \in T
      <4>1. i + 1 \in 1 .. n /\ i + 1 \in 0 .. n /\ (i + 1) - 1 = i
        BY <2>3, <3>4
      <4>2. path[i + 1] = next[path[i]][1] /\ path[i + 1] \in Filters /\ path[i] \in Filters
        BY <2>3, <4>1
      <4>3. Kind[path[i]] # "fork"
        BY <3>2, <3>4
      <4>4. Kind[path[i + 1]] # "fork"
        BY <1>3, <4>2, <4>3
      <4>5. QED
        BY <3>2, <4>1, <4>4
    <3>5. 0 .. n \subseteq T
      <4>1. 0 \in Nat /\ n \in Nat
        BY <2>3
      <4>2. QED
        BY ONLY <3>3, <3>4, <4>1, IntervalInduction
    <3>6. \A i \in 1 .. n : i \in 0 .. n
      BY <2>3
    <3>7. \A i \in 1 .. n : path[i] \in Filters /\ Kind[path[i]] # "fork"
      BY <2>3, <3>2, <3>5, <3>6
    <3>8. QED
      BY <1>3, <3>7
  <2>5. QED
    BY <2>2, <2>3, <2>4
<1>12. QED
  BY <1>3, <1>5, <1>8, <1>9, <1>10, <1>11 DEF PipeInv

(* The strengthening holds of every step.                                  *)
THEOREM PipeInvariant == Spec => []PipeInv
<1>1. Init => PipeInv
  BY PipeInit
<1>2. PipeInv /\ [Next]_vars => PipeInv'
  BY PipeNext
<1>3. QED
  BY <1>1, <1>2, PTL DEF Spec

(* Every variable keeps its type, and every queue its number.              *)
THEOREM TypeCorrect == Spec => []TypeOK
<1>1. PipeInv => TypeOK
  BY DEF PipeInv
<1>2. QED
  BY <1>1, PipeInvariant, PTL

(* A port that leads to a queue is the only one that does, belongs to a    *)
(* message that is open or was begun in vain, and the queue is still kept. *)
THEOREM QueuesAreKept == Spec => []PortsReferToKeptQueues
<1>1. ASSUME PipeInv PROVE PortsReferToKeptQueues
  <2> SUFFICES ASSUME NEW f \in alive, NEW j \in DOMAIN next[f], next[f][j] \in Queues
               PROVE  /\ inside_msg \/ failed
                      /\ next[f][j] \in ToSet(buffers)
                      /\ \A g \in alive : \A k \in DOMAIN next[g] :
                           next[g][k] = next[f][j] => <<g, k>> = <<f, j>>
    BY DEF PortsReferToKeptQueues
  <2>1. alive \subseteq Filters /\ next[f][j] # Null
    BY <1>1, RootFacts, FiltersAssumption
  <2>2. (inside_msg \/ failed) /\ next[f][j] \in ToSet(buffers)
    BY <1>1, <2>1 DEF PipeInv, QueueInv
  <2>3. \A g \in alive : \A k \in DOMAIN next[g] : next[g][k] = next[f][j] => g = f /\ k = j
    BY <1>1, <2>1, TreeType DEF OneParent
  <2>4. QED
    BY <2>2, <2>3
<1>2. QED
  BY <1>1, PipeInvariant, PTL

(* Where no chain holds a fork, every filter not deleted is in the pipe or *)
(* below one not given to it yet, and in the pipe only once: destruct      *)
(* deletes each filter of the pipe exactly once, and pop loses none.       *)
LEMMA RootsReachAll ==
  ASSUME PipeInv, ForksStandAlone
  PROVE  OwnsItsFilters
<1>1. PICK Roots : Roots = ({pipe} \cup (TopLevel \ owned)) \ {Null}
  OBVIOUS
<1>2. /\ Roots \subseteq alive /\ alive \subseteq Filters
      /\ \A x \in alive : HasParent(next, x) \/ x \in Roots
  BY <1>1, RootFacts, TopLevelFilters, FiltersAssumption
<1>3. \A f \in Roots : ToSet(Preorder(next, f)) = Below(next, f)
  BY <1>1 DEF Preorder, Below
<1>4. ToSet(Preorder(next, Null)) = {}
  BY DEF Preorder, ToSet
<1>5. UNION {ToSet(Preorder(next, f)) : f \in {pipe} \cup (TopLevel \ owned)} = UNION {Below(next, f) : f \in Roots}
  <2>1. \A f \in {pipe} \cup (TopLevel \ owned) : f \in Roots \/ ToSet(Preorder(next, f)) = {}
    BY <1>1, <1>4
  <2>2. Roots \subseteq {pipe} \cup (TopLevel \ owned)
    BY <1>1
  <2>3. QED
    BY <1>3, <2>1, <2>2
<1>6. ASSUME NEW f \in Roots, NEW x \in Below(next, f) PROVE x \in alive
  <2>1. f \in Filters /\ x \in Filters /\ Below(next, f) \subseteq Filters
    BY <1>2, TreeType, BelowType
  <2>2. x # f => \E y \in Below(next, f) : \E j \in DOMAIN next[y] : next[y][j] = x
    BY <2>1, TreeType, BelowClosed
  <2>3. x # f => HasParent(next, x)
    BY <2>1, <2>2 DEF HasParent
  <2>4. QED
    BY <1>2, <2>1, <2>3, RootFacts
<1>7. PICK T : T = {x \in alive : \A f \in Roots : x \notin Below(next, f)}
  OBVIOUS
<1>8. T = {}
  <2>1. SUFFICES ASSUME T # {} PROVE FALSE
    OBVIOUS
  <2>2. T \in SUBSET Filters
    BY <1>2, <1>7
  <2>3. PICK x \in T : \A y \in T : \A j \in DOMAIN next[y] : next[y][j] # x
    BY <2>1, <2>2, TreeType, HighestFilter
  <2>4. x \notin Roots
    BY <1>2, <1>7, TreeType, BelowType
  <2>5. x \in alive /\ x \in Filters /\ HasParent(next, x)
    BY <1>2, <1>7, <2>4
  <2>6. PICK y \in Filters : \E j \in DOMAIN next[y] : next[y][j] = x
    BY <2>5 DEF HasParent
  <2>7. PICK j \in DOMAIN next[y] : next[y][j] = x
    BY <2>6
  <2>8. y \in alive
    <3>1. y \notin alive => next[y] = <<Null>>
      BY RootFacts DEF NoPorts
    <3>2. x # Null
      BY <2>5, FiltersAssumption
    <3>3. QED
      BY <2>7, <3>1, <3>2
  <2>9. y \notin T
    BY <2>3, <2>7
  <2>10. PICK f \in Roots : y \in Below(next, f)
    BY <1>7, <2>8, <2>9
  <2>11. x \in Below(next, f)
    BY <1>2, <2>5, <2>7, <2>10, TreeType, BelowClosed
  <2>12. QED
    BY <1>7, <2>11
<1>9. alive = UNION {Below(next, f) : f \in Roots}
  BY <1>6, <1>7, <1>8
<1>10. IsInjective(Preorder(next, pipe))
  <2>1. pipe = Null => IsInjective(Preorder(next, pipe))
    BY DEF Preorder, IsInjective
  <2>2. pipe # Null => IsInjective(Preorders(next)[pipe])
    BY RootFacts, TreeType, PreorderInjective
  <2>3. QED
    BY <2>1, <2>2 DEF Preorder
<1>11. QED
  BY <1>5, <1>9, <1>10 DEF OwnsItsFilters

(* The same as a property of every behaviour.                              *)
THEOREM FiltersAreOwned ==
  ASSUME ForksStandAlone
  PROVE  Spec => []OwnsItsFilters
<1>1. PipeInv => OwnsItsFilters
  BY RootsReachAll
<1>2. QED
  BY <1>1, PipeInvariant, PTL

-----------------------------------------------------------------------------
(* pop() undoes prepend().                                                *)

(* A way down the first ports does not come to a filter twice.             *)
LEMMA PathInjective ==
  ASSUME NEW nx, Acyclic(nx), \A x \in Filters : 1 \in DOMAIN nx[x], NEW f, NEW k \in Nat,
         NEW path, IsPath(path, nx, f, k), NEW i \in 0 .. k, NEW j \in 0 .. k, i < j
  PROVE  path[i] # path[j]
<1> SUFFICES ASSUME path[i] = path[j] PROVE FALSE
  OBVIOUS
<1>1. \A m \in i .. j : m \in 0 .. k
  OBVIOUS
<1>2. PICK T : T = {path[m] : m \in i .. j}
  OBVIOUS
<1>3. \A m \in 0 .. k : path[m] \in Filters
  BY DEF IsPath
<1>4. T \in SUBSET Filters /\ i \in i .. j /\ path[i] \in T
  BY <1>1, <1>2, <1>3
<1>5. PICK x \in T : \A h \in DOMAIN nx[x] : nx[x][h] \notin T
  BY <1>4 DEF Acyclic
<1>6. nx[x][1] \notin T
  BY <1>4, <1>5
<1>7. PICK m \in i .. j : x = path[m]
  BY <1>2
<1>8. PICK o \in i .. j : x = path[o] /\ o # j
  BY <1>4, <1>7
<1>9. o + 1 \in i .. j /\ o + 1 \in 1 .. k /\ (o + 1) - 1 = o
  BY <1>8
<1>10. path[o + 1] = nx[path[o]][1]
  BY <1>9 DEF IsPath
<1>11. QED
  BY <1>2, <1>6, <1>8, <1>9, <1>10

(* A chain that is given no chains and forks is made as a line of just     *)
(* those it is given: they are as many as the way down it is long.         *)
LEMMA ChainLine ==
  ASSUME PlainFamilies, NEW nx, NEW D, NEW G, Grown(nx, D, G),
         NEW f \in Filters, Kind[f] = "chain", HasPath(nx, f, Owns(f))
  PROVE  IsLine(nx, f, Owns(f))
<1>1. PICK n : n = Owns(f)
  OBVIOUS
<1>2. n \in Nat /\ n = Len(Kids[f]) /\ DOMAIN Kids[f] = 1 .. n
  BY <1>1, MembersType DEF Owns
<1>3. PICK path : IsPath(path, nx, f, n)
  BY <1>1 DEF HasPath
<1>4. path \in [0 .. n -> Filters] /\ path[0] = f /\ \A i \in 1 .. n : path[i] = nx[path[i - 1]][1]
  BY <1>3 DEF IsPath
<1>5. PICK z : z = nx[path[n]][1]
  OBVIOUS
<1>6. z \notin Filters
  <2> SUFFICES ASSUME z \in Filters PROVE FALSE
    OBVIOUS
  <2>1. PICK q : q = [m \in 0 .. n + 1 |-> IF m = n + 1 THEN z ELSE path[m]]
    OBVIOUS
  <2>2. \A m \in 0 .. n + 1 : m # n + 1 => m \in 0 .. n
    BY <1>2
  <2>3. q \in [0 .. n + 1 -> Filters] /\ q[0] = f
    <3>1. 0 \in 0 .. n + 1 /\ 0 # n + 1
      BY <1>2
    <3>2. QED
      BY <1>4, <2>1, <2>2, <3>1
  <2>4. ASSUME NEW m \in 1 .. n + 1 PROVE q[m] = nx[q[m - 1]][1]
    <3>1. m - 1 \in 0 .. n /\ m - 1 \in 0 .. n + 1 /\ m - 1 # n + 1 /\ m \in 0 .. n + 1
      BY <1>2, <2>4
    <3>2. q[m - 1] = path[m - 1]
      BY <2>1, <3>1
    <3>3. CASE m = n + 1
      <4>1. m - 1 = n /\ q[m] = z
        BY <1>2, <2>1, <3>1, <3>3
      <4>2. QED
        BY <1>5, <3>2, <4>1
    <3>4. CASE m # n + 1
      <4>1. m \in 1 .. n /\ q[m] = path[m]
        BY <1>2, <2>1, <2>4, <3>1, <3>4
      <4>2. QED
        BY <1>4, <3>2, <4>1
    <3>5. QED
      BY <3>3, <3>4
  <2>5. IsPath(q, nx, f, n + 1) /\ n + 1 \in Nat
    BY <1>2, <2>3, <2>4 DEF IsPath
  <2>6. PICK T : T = {m \in 1 .. n + 1 : q[m] \in Given(f)}
    OBVIOUS
  <2>7. InFamilies(nx)
    BY DEF Grown
  <2>8. 1 \in T
    <3>1. 1 \in 1 .. n + 1 /\ 1 \in 0 .. n + 1 /\ 1 - 1 = 0
      BY <1>2
    <3>2. q[1] = nx[f][1] /\ q[1] \in Filters
      BY <2>3, <2>4, <3>1
    <3>3. QED
      BY <2>6, <2>7, <3>1, <3>2, FamilyStep
  <2>9. ASSUME NEW m \in 1 .. n + 1, m # n + 1, m \in T PROVE m + 1 \in T
    <3>1. m + 1 \in 1 .. n + 1 /\ m + 1 \in 0 .. n + 1 /\ (m + 1) - 1 = m
      BY <1>2, <2>9
    <3>2. q[m + 1] = nx[q[m]][1] /\ q[m + 1] \in Filters /\ q[m] \in Given(f)
      BY <2>3, <2>4, <2>6, <2>9, <3>1
    <3>3. QED
      BY <2>6, <2>7, <3>1, <3>2, FamilyStep
  <2>10. 1 .. n + 1 \subseteq T
    <3>1. 1 \in Nat
      OBVIOUS
    <3>2. QED
      BY ONLY <2>5, <2>8, <2>9, <3>1, IntervalInduction
  <2>11. PICK S, R : S = 1 .. n + 1 /\ R = 1 .. n
    OBVIOUS
  <2>12. \A m \in S : \E i \in R : Kids[f][i] = q[m]
    <3> SUFFICES ASSUME NEW m \in S PROVE \E i \in R : Kids[f][i] = q[m]
      OBVIOUS
    <3>1. q[m] \in ToSet(Members(f)) /\ Members(f) = Kids[f]
      BY <2>6, <2>10, <2>11, MembersType DEF Given
    <3>2. QED
      BY <1>2, <2>11, <3>1 DEF ToSet
  <2>13. PICK h : h = [m \in S |-> CHOOSE i \in R : Kids[f][i] = q[m]]
    OBVIOUS
  <2>14. h \in [S -> R] /\ \A m \in S : Kids[f][h[m]] = q[m]
    BY <2>12, <2>13
  <2>15. \A m, o \in S : q[m] = q[o] => m = o
    <3> SUFFICES ASSUME NEW m \in S, NEW o \in S, q[m] = q[o], m # o PROVE FALSE
      OBVIOUS
    <3>1. m \in 0 .. n + 1 /\ o \in 0 .. n + 1 /\ (m < o \/ o < m)
      BY <1>2, <2>11
    <3>2. Acyclic(nx) /\ \A x \in Filters : 1 \in DOMAIN nx[x]
      BY GrownType
    <3>3. QED
      BY ONLY <2>5, <3>1, <3>2, q[m] = q[o], PathInjective
  <2>16. h \in Injection(S, R)
    BY <2>14, <2>15 DEF Injection, IsInjective
  <2>17. IsFiniteSet(S) /\ IsFiniteSet(R) /\ Cardinality(S) = n + 1 /\ Cardinality(R) = n
    <3>1. 1 \in Int /\ n \in Int /\ n + 1 \in Int /\ ~(1 > n + 1) /\ (n + 1) - 1 + 1 = n + 1 /\ (1 > n => n = 0) /\ n - 1 + 1 = n
      BY <1>2
    <3>2. QED
      BY ONLY <2>11, <3>1, FS_Interval
  <2>18. Cardinality(S) <= Cardinality(R)
    BY ONLY <2>16, <2>17, FS_Injection
  <2>19. QED
    BY <1>2, <2>17, <2>18
<1>7. QED
  BY <1>1, <1>3, <1>4, <1>5, <1>6 DEF IsLine

(* What is below one root is not below another.                            *)
LEMMA RootsApart ==
  ASSUME NEW nx, Forest(nx), IsPorts(nx), NEW f \in Filters, NEW g \in Filters, f # g,
         ~HasParent(nx, f), ~HasParent(nx, g)
  PROVE  Below(nx, f) \cap Below(nx, g) = {}
<1>1. PICK T : T = Below(nx, f) \cap Below(nx, g)
  OBVIOUS
<1> SUFFICES ASSUME T # {} PROVE FALSE
  BY <1>1
<1>2. Acyclic(nx) /\ OneParent(nx)
  BY DEF Forest
<1>3. Below(nx, f) \subseteq Filters /\ Below(nx, g) \subseteq Filters
  BY <1>2, BelowType
<1>4. \A r \in {f, g} : \A x \in Below(nx, r) \ {r} :
        \E y \in Below(nx, r) : \E j \in DOMAIN nx[y] : nx[y][j] = x
  BY <1>2, BelowClosed
<1>5. T \in SUBSET Filters /\ T # {}
  BY <1>1, <1>3
<1>6. PICK x \in T : \A y \in T : \A j \in DOMAIN nx[y] : nx[y][j] # x
  BY ONLY <1>2, <1>5, HighestFilter
<1>7. \A r \in {f, g} : x # r =>
        \E y \in Below(nx, r) : y \in Filters /\ \E j \in DOMAIN nx[y] : nx[y][j] = x
  BY <1>1, <1>3, <1>4
<1>8. x # f /\ x # g
  BY <1>7 DEF HasParent
<1>9. PICK y \in Below(nx, f) : y \in Filters /\ \E j \in DOMAIN nx[y] : nx[y][j] = x
  BY <1>7, <1>8
<1>10. PICK z \in Below(nx, g) : z \in Filters /\ \E j \in DOMAIN nx[z] : nx[z][j] = x
  BY <1>7, <1>8
<1>11. x # Null
  BY <1>5, FiltersAssumption
<1>12. y = z
  BY <1>2, <1>9, <1>10, <1>11 DEF OneParent
<1>13. QED
  BY <1>1, <1>6, <1>9, <1>10, <1>12

(* The ways down the first ports stay below where they start,              *)
LEMMA PathBelow ==
  ASSUME NEW nx, Acyclic(nx), IsPorts(nx), \A x \in Filters : nx[x] # <<>>, NEW f \in Filters,
         NEW k \in Nat, NEW path, IsPath(path, nx, f, k)
  PROVE  \A i \in 0 .. k : path[i] \in Below(nx, f)
<1>1. PICK T : T = {i \in 0 .. k : path[i] \in Below(nx, f)}
  OBVIOUS
<1>2. f \in Below(nx, f) /\ Below(nx, f) \subseteq Filters
  BY BelowType
<1>3. 0 \in Nat /\ 0 \in T
  BY <1>1, <1>2 DEF IsPath
<1>4. ASSUME NEW i \in 0 .. k, i # k, i \in T PROVE i + 1 \in T
  <2>1. i + 1 \in 1 .. k /\ i + 1 \in 0 .. k /\ (i + 1) - 1 = i
    BY <1>4
  <2>2. path[i + 1] = nx[path[i]][1] /\ path[i + 1] \in Filters /\ path[i] \in Below(nx, f)
    BY <1>1, <1>4, <2>1 DEF IsPath
  <2>3. 1 \in DOMAIN nx[path[i]]
    BY <1>2, <2>2 DEF IsPorts
  <2>4. path[i + 1] \in Below(nx, f)
    BY <2>2, <2>3, BelowClosed
  <2>5. QED
    BY <1>1, <2>1, <2>4
<1>5. 0 .. k \subseteq T
  BY ONLY <1>3, <1>4, k \in Nat, IntervalInduction
<1>6. QED
  BY <1>1, <1>5

(* and so does the one that attach takes.                                  *)
LEMMA LastBelow ==
  ASSUME NEW nx, Acyclic(nx), IsPorts(nx), \A x \in Filters : nx[x] # <<>>, NEW f \in Filters
  PROVE  LastOf(nx)[f] \in Below(nx, f)
<1>1. PICK W : IsWay(W, nx, f)
  BY WayToLast
<1>2. PICK T : T = W \ Below(nx, f)
  OBVIOUS
<1>3. f \in Below(nx, f) /\ Below(nx, f) \subseteq Filters
  BY BelowType
<1>4. T = {}
  <2> SUFFICES ASSUME T # {} PROVE FALSE
    OBVIOUS
  <2>1. T \in SUBSET Filters /\ T # {}
    BY <1>1, <1>2 DEF IsWay
  <2>2. PICK x \in T : \A y \in T : \A j \in DOMAIN nx[y] : nx[y][j] # x
    BY ONLY <2>1, Acyclic(nx), HighestFilter
  <2>3. PICK y \in W : x = nx[y][1]
    BY <1>1, <1>2, <1>3 DEF IsWay
  <2>4. y \in Filters /\ 1 \in DOMAIN nx[y]
    BY <1>1 DEF IsWay, IsPorts
  <2>5. y \in Below(nx, f)
    BY <1>2, <2>2, <2>3, <2>4
  <2>6. x \in Below(nx, f)
    BY <2>1, <2>3, <2>4, <2>5, BelowClosed
  <2>7. QED
    BY <1>2, <2>6
<1>5. QED
  BY <1>1, <1>2, <1>4 DEF IsWay

(* A line ends where attach goes on.                                       *)
LEMMA LineEnd ==
  ASSUME NEW nx, Acyclic(nx), IsPorts(nx), \A x \in Filters : nx[x] # <<>>, NEW f \in Filters,
         NEW k \in Nat, NEW path, IsPath(path, nx, f, k), nx[path[k]][1] \notin Filters
  PROVE  path[k] = LastOf(nx)[f]
<1>1. path[k] \in Filters
  BY DEF IsPath
<1>2. LastOf(nx)[path[k]] = LastOf(nx)[f]
  BY PathToLast
<1>3. QED
  BY <1>1, <1>2, LastEquation

(* A line stays while below its start first ports keep their filters and   *)
(* get none.                                                               *)
LEMMA LineKept ==
  ASSUME NEW nx, NEW nx2, Acyclic(nx), IsPorts(nx), \A x \in Filters : nx[x] # <<>>, NEW f \in Filters,
         NEW k \in Nat, IsLine(nx, f, k),
         \A x \in Below(nx, f) : nx[x][1] \in Filters \/ nx2[x][1] \in Filters => nx2[x][1] = nx[x][1]
  PROVE  IsLine(nx2, f, k)
<1>1. PICK path \in [0 .. k -> Filters] : IsPath(path, nx, f, k) /\ nx[path[k]][1] \notin Filters
  BY DEF IsLine
<1>2. \A i \in 0 .. k : path[i] \in Below(nx, f)
  BY <1>1, PathBelow
<1>3. nx2[path[k]][1] \notin Filters
  BY <1>1, <1>2
<1>4. \A i \in 1 .. k : path[i] = nx2[path[i - 1]][1]
  <2> SUFFICES ASSUME NEW i \in 1 .. k PROVE path[i] = nx2[path[i - 1]][1]
    OBVIOUS
  <2>1. i - 1 \in 0 .. k /\ i \in 0 .. k
    OBVIOUS
  <2>2. path[i] = nx[path[i - 1]][1] /\ path[i] \in Filters /\ path[i - 1] \in Below(nx, f)
    BY <1>1, <1>2, <2>1 DEF IsPath
  <2>3. QED
    BY <2>2
<1>5. QED
  BY <1>1, <1>3, <1>4 DEF IsLine, IsPath

(* The lines of the filters not given to the pipe yet stay, if below them  *)
(* no first port is changed                                                *)
LEMMA LinesKept ==
  ASSUME PipeInv, LinesInv, owned \subseteq owned',
         \A f \in TopLevel \ owned' : \A x \in Below(next, f) :
           /\ Len(next'[x]) = Len(next[x])
           /\ next[x][1] \in Filters \/ next'[x][1] \in Filters => next'[x][1] = next[x][1]
  PROVE  LinesInv'
<1> SUFFICES ASSUME NEW f \in TopLevel \ owned', ~(Len(next'[f]) > 1)
             PROVE  IsLine(next', f, Owns(f))
  BY DEF LinesInv
<1>1. f \in TopLevel \ owned /\ f \in Filters
  BY TopLevelFilters
<1>2. Acyclic(next) /\ IsPorts(next) /\ \A x \in Filters : next[x] # <<>>
  BY TreeType
<1>3. f \in Below(next, f)
  BY <1>1, <1>2, BelowType
<1>4. IsLine(next, f, Owns(f))
  BY <1>1, <1>3 DEF LinesInv
<1>5. PICK k \in Nat : k = Owns(f)
  BY <1>1, MembersType DEF Owns
<1>6. PICK nx2 : nx2 = next'
  OBVIOUS
<1>7. /\ IsLine(next, f, k)
      /\ \A x \in Below(next, f) : next[x][1] \in Filters \/ nx2[x][1] \in Filters => nx2[x][1] = next[x][1]
  BY <1>4, <1>5, <1>6
<1>8. f \in Filters
  BY <1>1
<1>9. IsLine(nx2, f, k)
  BY ONLY <1>2, <1>5, <1>7, <1>8, LineKept
<1>10. QED
  BY <1>5, <1>6, <1>9

(* or if only what is below another root is.                               *)
LEMMA ElsewhereKept ==
  ASSUME PipeInv, LinesInv, owned \subseteq owned',
         NEW r \in Filters, ~HasParent(next, r), r \notin TopLevel \ owned',
         \A x \in Filters \ Below(next, r) : next'[x] = next[x]
  PROVE  LinesInv'
<1>1. ASSUME NEW f \in TopLevel \ owned', NEW x \in Below(next, f) PROVE next'[x] = next[x]
  <2>1. f \in Filters /\ f # r /\ ~HasParent(next, f)
    BY TopLevelFilters, RootFacts
  <2>2. Forest(next) /\ IsPorts(next) /\ Acyclic(next)
    BY TreeType
  <2>3. Below(next, f) \cap Below(next, r) = {} /\ Below(next, f) \subseteq Filters
    BY <2>1, <2>2, RootsApart, BelowType
  <2>4. QED
    BY <2>3
<1>2. \A f \in TopLevel \ owned' : \A x \in Below(next, f) :
           /\ Len(next'[x]) = Len(next[x])
           /\ next[x][1] \in Filters \/ next'[x][1] \in Filters => next'[x][1] = next[x][1]
  BY <1>1
<1>3. QED
  BY <1>2, LinesKept

(* What a message does to the ports: it puts queues in some, or takes them *)
(* out.                                                                    *)
Softly(nx, nx2) ==
  /\ \A x \in Filters : x # NullFilter => DOMAIN nx2[x] = DOMAIN nx[x]
  /\ \A x \in Filters : 1 \in DOMAIN nx[x] /\ 1 \in DOMAIN nx2[x]
  /\ \A x \in Filters : \A j \in DOMAIN nx[x] \cap DOMAIN nx2[x] :
       nx[x][j] \in Filters \/ nx2[x][j] \in Filters => nx2[x][j] = nx[x][j]

(* Either way the ports are the same but for their queues.                 *)
LEMMA ClearedAlike ==
  ASSUME NEW nx, NEW nx2, IsPorts(nx), IsPorts(nx2), Softly(nx, nx2), NEW x \in Filters, x # NullFilter
  PROVE  Cleared(nx2[x]) = Cleared(nx[x])
<1>1. DOMAIN nx2[x] = DOMAIN nx[x]
  BY DEF Softly
<1>2. ASSUME NEW j \in DOMAIN nx[x] PROVE Cleared(nx2[x])[j] = Cleared(nx[x])[j]
  <2>1. nx[x][j] \in Nodes /\ nx2[x][j] \in Nodes
    BY <1>1 DEF IsPorts
  <2>2. nx[x][j] \in Filters \/ nx2[x][j] \in Filters => nx2[x][j] = nx[x][j]
    BY <1>1 DEF Softly
  <2>3. QED
    BY <1>1, <2>1, <2>2, FiltersAssumption DEF Cleared, Nodes
<1>3. QED
  BY <1>1, <1>2 DEF Cleared

(* So a message leaves the lines, and what pop() is to bring back, alone.  *)
LEMMA MessageKept ==
  ASSUME PipeInv, UndoInv, next' \in [Filters -> Seq(Nodes)], Softly(next, next'),
         owned' = owned, before' = before, before # <<>> => alive' = alive /\ pipe' = pipe
  PROVE  UndoInv'
<1>1. IsPorts(next) /\ IsPorts(next') /\ Acyclic(next)
  BY TreeType DEF IsPorts
<1>2. \A x \in Filters : x # NullFilter => Len(next'[x]) = Len(next[x])
  BY <1>1 DEF IsPorts, Softly
<1>3. \A x \in Filters : next[x][1] \in Filters \/ next'[x][1] \in Filters => next'[x][1] = next[x][1]
  BY DEF Softly
<1>4. LinesInv'
  <2>1. ASSUME NEW f \in TopLevel \ owned' PROVE Below(next, f) \subseteq Filters \ {NullFilter}
    <3>1. f \in Filters /\ f # NullFilter
      BY TopLevelFilters
    <3>2. /\ Below(next, f) \subseteq Filters
          /\ \A x \in Below(next, f) \ {f} : \E y \in Below(next, f) : \E j \in DOMAIN next[y] : next[y][j] = x
      BY <1>1, <3>1, BelowType, BelowClosed
    <3>3. ~HasParent(next, NullFilter)
      BY RootFacts
    <3>4. QED
      BY <3>1, <3>2, <3>3 DEF HasParent
  <2>2. \A f \in TopLevel \ owned' : \A x \in Below(next, f) :
           /\ Len(next'[x]) = Len(next[x])
           /\ next[x][1] \in Filters \/ next'[x][1] \in Filters => next'[x][1] = next[x][1]
    BY <1>2, <1>3, <2>1
  <2>3. LinesInv /\ owned \subseteq owned'
    BY DEF UndoInv
  <2>4. QED
    BY <2>2, <2>3, LinesKept
<1>5. BeforeInv'
  <2> SUFFICES ASSUME before # <<>> PROVE pipe' \in alive' \ {NullFilter} /\ (Len(next'[pipe']) > 1 \/ Undoable')
    BY DEF BeforeInv
  <2>1. pipe' = pipe /\ alive' = alive /\ pipe \in alive \ {NullFilter} /\ (Len(next[pipe]) > 1 \/ Undoable)
    BY DEF UndoInv, BeforeInv
  <2>2. pipe \in Filters /\ alive \subseteq Filters /\ NullFilter \notin alive
    BY <2>1, RootFacts DEF PipeInv, RootsInv
  <2>3. CASE Len(next[pipe]) > 1
    BY <1>2, <2>1, <2>2, <2>3
  <2>4. CASE Undoable
    <3>1. PICK k \in Nat : k = Owns(pipe)
      BY <2>2, MembersType DEF Owns
    <3>2. PICK path \in [0 .. k -> Filters] :
             /\ IsPath(path, next, pipe, k) /\ Cleared(next[path[k]])[1] = before[1]
             /\ \A f \in alive \ {path[k]} : Cleared(next[f]) = before[2][f]
      BY <2>4, <3>1 DEF Undoable
    <3>3. IsPath(path, next', pipe, k)
      <4>1. ASSUME NEW i \in 1 .. k PROVE path[i] = next'[path[i - 1]][1]
        <5>1. i - 1 \in 0 .. k /\ i \in 0 .. k
          BY <3>1
        <5>2. path[i] = next[path[i - 1]][1] /\ path[i] \in Filters /\ path[i - 1] \in Filters
          BY <3>2, <5>1 DEF IsPath
        <5>3. QED
          BY <1>3, <5>2
      <4>2. QED
        BY <3>2, <4>1 DEF IsPath
    <3>4. path[k] \in Filters /\ path[k] # NullFilter
      <4>1. CASE k = 0
        BY <2>1, <2>2, <3>2, <4>1 DEF IsPath
      <4>2. CASE k # 0
        <5>1. k \in 1 .. k /\ k - 1 \in 0 .. k
          BY <3>1, <4>2
        <5>2. path[k] = next[path[k - 1]][1] /\ path[k] \in Filters /\ path[k - 1] \in Filters
          BY <3>2, <5>1 DEF IsPath
        <5>3. HasParent(next, path[k])
          BY <5>2, Softly(next, next') DEF Softly, HasParent
        <5>4. QED
          BY <5>2, <5>3, RootFacts
      <4>3. QED
        BY <4>1, <4>2
    <3>5. \A x \in Filters : x # NullFilter => Cleared(next'[x]) = Cleared(next[x])
      BY <1>1, ClearedAlike
    <3>6. Cleared(next'[path[k]])[1] = before[1] /\ \A f \in alive \ {path[k]} : Cleared(next'[f]) = before[2][f]
      BY <2>2, <3>2, <3>4, <3>5
    <3>7. Undoable'
      BY <2>1, <3>1, <3>2, <3>3, <3>6 DEF Undoable
    <3>8. QED
      BY <2>1, <3>7
  <2>5. QED
    BY <2>1, <2>3, <2>4
<1>6. QED
  BY <1>4, <1>5 DEF UndoInv

(* What the constructors make of a filter of which no other is given.      *)
LEMMA UndoInit ==
  ASSUME PlainFamilies, Init
  PROVE  UndoInv
<1>1. PICK D, G : D = ToSet(Built) /\ G = UNION {Given(f) : f \in D}
  OBVIOUS
<1>2. Grown(next, D, G) /\ \A f \in D : HasPath(next, f, Owns(f))
  <2>1. next = Trees[Len(Built)]
    BY DEF Init
  <2>2. QED
    BY <1>1, <2>1, TreesGrow
<1>3. ASSUME NEW f \in TopLevel PROVE Len(next[f]) > 1 \/ IsLine(next, f, Owns(f))
  <2>1. f \in Filters /\ f \in D
    BY <1>1, TopLevelFilters DEF TopLevel
  <2>2. CASE Kind[f] = "fork"
    <3>1. Len(next[f]) = Len(Kids[f])
      BY <1>2, <2>1, <2>2 DEF Grown
    <3>2. Len(Kids[f]) > 1
      BY <2>1, <2>2 DEF PlainFamilies
    <3>3. QED
      BY <3>1, <3>2
  <2>3. CASE Kind[f] = "chain"
    BY <1>2, <2>1, <2>3, ChainLine
  <2>4. CASE Kind[f] \notin {"fork", "chain"}
    <3>1. Owns(f) = 0
      BY <2>4 DEF Owns
    <3>2. next[f][1] \notin Filters
      <4> SUFFICES ASSUME next[f][1] \in Filters PROVE FALSE
        OBVIOUS
      <4>1. InFamilies(next)
        BY <1>2 DEF Grown
      <4>2. PICK c \in Filters : Kind[c] = "chain" /\ f \in Given(c) \cup {c}
        BY <2>1, <2>4, <4>1 DEF InFamilies
      <4>3. f \in ToSet(Members(c))
        BY <2>4, <4>2 DEF Given
      <4>4. QED
        BY <4>2, <4>3 DEF TopLevel
    <3>3. PICK path : path = [m \in 0 .. 0 |-> f]
      OBVIOUS
    <3>4. path \in [0 .. 0 -> Filters] /\ path[0] = f
      BY <2>1, <3>3
    <3>5. IsPath(path, next, f, 0)
      BY <3>4 DEF IsPath
    <3>6. QED
      BY <3>1, <3>2, <3>4, <3>5 DEF IsLine
  <2>5. QED
    BY <2>2, <2>3, <2>4
<1>4. before = <<>>
  BY DEF Init
<1>5. QED
  BY <1>3, <1>4 DEF UndoInv, LinesInv, BeforeInv

(* A step that leaves the tree alone.                                      *)
LEMMA QuietUndo ==
  ASSUME UndoInv, UNCHANGED <<tree, before>>
  PROVE  UndoInv'
<1>1. next' = next /\ alive' = alive /\ owned' = owned /\ pipe' = pipe /\ before' = before
  BY DEF tree
<1>2. LinesInv'
  BY <1>1 DEF UndoInv, LinesInv
<1>3. BeforeInv'
  BY <1>1 DEF UndoInv, BeforeInv, Undoable
<1>4. QED
  BY <1>2, <1>3 DEF UndoInv

(* start_msg, whether it throws or not, only puts queues in the ports.     *)
LEMMA OpenedUndo ==
  ASSUME PipeInv, UndoInv, NEW n, Opened(n), UNCHANGED <<owned, before>>
  PROVE  UndoInv'
<1>1. /\ (pipe # Null => Root = pipe)
      /\ next' \in [Filters -> Seq(Nodes)]
      /\ \A x \in Filters : DOMAIN next'[x] = DOMAIN next[x]
  BY OpenedPorts
<1>2. PICK num, found : Numbers(num, found, n)
  BY OpenedPorts
<1>3. /\ \A x \in Filters : \A j \in DOMAIN next[x] :
           next'[x][j] = IF <<x, j>> \in found THEN num[<<x, j>>] ELSE next[x][j]
      /\ \A x \in Filters : \A j \in Nat : <<x, j>> \in found =>
           next[x][j] \notin Filters /\ num[<<x, j>>] \in made .. made + n - 1
  BY <1>2 DEF Numbers
<1>4. /\ pipe' = Root /\ alive' = alive \cup {Root}
      /\ n \in Nat /\ made + n <= MaxQueues
  BY DEF Opened, FindEndpoints
<1>5. \A q \in made .. made + n - 1 : q \notin Filters
  <2>1. MaxQueues \in Nat /\ Queues = 0 .. MaxQueues - 1 /\ made \in Nat
    BY BoundsAssumption, QueueNumbers DEF Queues
  <2>2. \A q \in made .. made + n - 1 : q \in 0 .. MaxQueues - 1
    BY ONLY <1>4, <2>1
  <2>3. QED
    BY <2>1, <2>2, FiltersAssumption
<1>6. \A x \in Filters : 1 \in DOMAIN next[x] /\ DOMAIN next[x] \subseteq Nat
  BY TreeType DEF IsPorts
<1>7. \A x \in Filters : \A j \in DOMAIN next[x] :
        next[x][j] \in Filters \/ next'[x][j] \in Filters => next'[x][j] = next[x][j]
  BY <1>3, <1>5, <1>6
<1>8. Softly(next, next')
  BY <1>1, <1>6, <1>7 DEF Softly
<1>9. before # <<>> => alive' = alive /\ pipe' = pipe
  <2>1. before # <<>> => pipe \in alive /\ pipe # Null
    BY RootFacts, FiltersAssumption DEF UndoInv, BeforeInv
  <2>2. QED
    BY <1>1, <1>4, <2>1
<1>10. QED
  BY <1>1, <1>8, <1>9, MessageKept

(* So start_msg leaves what UndoInv says,                                  *)
LEMMA StartMsgUndo ==
  ASSUME PipeInv, UndoInv, StartMsg
  PROVE  UndoInv'
<1>1. PICK n : n = Len(Endpoints(next, Root))
  OBVIOUS
<1>2. n \in Nat /\ n <= Len(Endpoints(next, Root))
  BY <1>1, EndpointCount
<1>3. Opened(n) /\ UNCHANGED <<owned, before>>
  BY <1>1, <1>2 DEF StartMsg, Opened
<1>4. QED
  BY <1>3, OpenedUndo

(* and so does one that throws after the first n queues.                   *)
LEMMA StartMsgThrowsUndo ==
  ASSUME PipeInv, UndoInv, NEW n \in 0 .. MaxQueues, StartMsgThrows(n)
  PROVE  UndoInv'
<1>1. PICK k : k = Len(Endpoints(next, Root))
  OBVIOUS
<1>2. /\ made + k <= MaxQueues /\ n <= k /\ ~inside_msg /\ FindEndpoints(n)
      /\ UNCHANGED <<owned, before>>
  BY <1>1 DEF StartMsgThrows
<1>3. n \in Nat /\ k \in Nat /\ made \in Nat /\ MaxQueues \in Nat
  BY <1>1, EndpointCount, QueueNumbers, BoundsAssumption
<1>4. Opened(n)
  BY <1>1, <1>2, <1>3 DEF Opened
<1>5. QED
  BY <1>2, <1>4, OpenedUndo

(* end_msg takes them out again.                                           *)
LEMMA EndMsgUndo ==
  ASSUME PipeInv, UndoInv, EndMsg
  PROVE  UndoInv'
<1>1. /\ next' \in [Filters -> Seq(Nodes)]
      /\ \A x \in Filters : DOMAIN next'[x] \subseteq DOMAIN next[x] /\ 1 \in DOMAIN next'[x]
      /\ \A x \in Filters : \A j \in DOMAIN next'[x] :
           next'[x][j] = IF next[x][j] \in Filters THEN next[x][j] ELSE Null
      /\ \A x \in Filters : x # NullFilter => DOMAIN next'[x] = DOMAIN next[x]
  BY ClearedPorts
<1>2. /\ pipe # NullFilter => pipe' = pipe /\ alive' = alive
      /\ UNCHANGED <<owned, before>>
  BY DEF EndMsg
<1>3. Softly(next, next')
  BY <1>1, FiltersAssumption DEF Softly
<1>4. before # <<>> => alive' = alive /\ pipe' = pipe
  BY <1>2 DEF UndoInv, BeforeInv
<1>5. QED
  BY <1>1, <1>2, <1>3, <1>4, MessageKept

(* Between messages no port has a queue to be taken out.                   *)
LEMMA ClearedIdle ==
  ASSUME PipeInv, NotInUse, NEW x \in Filters
  PROVE  Cleared(next[x]) = next[x]
<1>1. next[x] \in [1 .. Len(next[x]) -> Nodes] /\ DOMAIN next[x] = 1 .. Len(next[x])
  BY TreeType DEF IsPorts
<1>2. \A j \in DOMAIN next[x] : next[x][j] \notin Queues
  BY IdlePorts, FiltersAssumption
<1>3. QED
  BY <1>1, <1>2 DEF Cleared

(* append changes the end of the pipe's tree, or makes its root.            *)
LEMMA AppendUndo ==
  ASSUME NotInUse, PipeInv, UndoInv, NEW f \in TopLevel, AppendFilter(f)
  PROVE  UndoInv'
<1>1. NotInUse /\ f \in TopLevel \ owned
  BY DEF AppendFilter
<1>2. pipe # Null => IsFree(next, pipe)
  BY <1>1, EndIsFree, RootFacts
<1>3. owned' = owned \cup {f} /\ before' = <<>>
  BY <1>2 DEF AppendFilter
<1>4. LinesInv /\ owned \subseteq owned'
  BY <1>3 DEF UndoInv
<1>5. LinesInv'
  <2>1. CASE pipe = Null
    <3>1. next' = next
      BY <2>1 DEF AppendFilter
    <3>2. QED
      BY <1>4, <3>1, LinesKept
  <2>2. CASE pipe # Null
    <3>1. next' = Attached(next, pipe, f) /\ pipe \in Filters /\ ~HasParent(next, pipe)
      BY <1>2, <2>2, RootFacts DEF AppendFilter
    <3>2. Acyclic(next) /\ IsPorts(next) /\ \A x \in Filters : next[x] # <<>>
      BY TreeType
    <3>3. LastOf(next)[pipe] \in Below(next, pipe)
      BY ONLY <3>1, <3>2, LastBelow
    <3>4. \A x \in Filters : x # LastOf(next)[pipe] => next'[x] = next[x]
      BY <3>1, <3>2 DEF Attached, IsPorts
    <3>5. \A x \in Filters \ Below(next, pipe) : next'[x] = next[x]
      BY <3>3, <3>4
    <3>6. pipe \notin TopLevel \ owned'
      BY <1>4, RootFacts
    <3>7. QED
      BY <1>4, <3>1, <3>5, <3>6, ElsewhereKept
  <2>3. QED
    BY <2>1, <2>2
<1>6. QED
  BY <1>3, <1>5 DEF UndoInv, BeforeInv

(* prepend puts the pipe's tree behind the line of the new filter.         *)
LEMMA PrependUndo ==
  ASSUME NotInUse, PipeInv, UndoInv, NEW f \in TopLevel, Prepend(f)
  PROVE  UndoInv'
<1>1. NotInUse /\ f \in TopLevel \ owned /\ f \in Filters /\ f # NullFilter
  BY TopLevelFilters DEF Prepend
<1>2. /\ owned' = owned \cup {f} /\ pipe' = f /\ before' = <<pipe, next>> /\ alive' = alive
      /\ next' = IF pipe = Null THEN next ELSE Attached(next, f, pipe)
  BY DEF Prepend
<1>3. LinesInv /\ owned \subseteq owned'
  BY <1>2 DEF UndoInv
<1>4. f \in alive /\ ~HasParent(next, f) /\ f # pipe
  BY <1>1, RootFacts
<1>5. Acyclic(next) /\ IsPorts(next) /\ Forest(next) /\ \A x \in Filters : next[x] # <<>>
  BY TreeType
<1>6. \A x \in Filters : next[x] \in Seq(Nodes) /\ 1 \in DOMAIN next[x] /\ DOMAIN next[x] = 1 .. Len(next[x])
  BY <1>5 DEF IsPorts
<1>7. \A x \in Filters : x # LastOf(next)[f] => next'[x] = next[x]
  BY <1>2, <1>5 DEF Attached, IsPorts
<1>8. LastOf(next)[f] \in Below(next, f) /\ LastOf(next)[f] \in Filters
  BY ONLY <1>1, <1>5, LastBelow, BelowType
<1>9. LinesInv'
  <2>1. \A x \in Filters \ Below(next, f) : next'[x] = next[x]
    BY <1>7, <1>8
  <2>2. f \notin TopLevel \ owned'
    BY <1>2
  <2>3. QED
    BY <1>1, <1>3, <1>4, <2>1, <2>2, ElsewhereKept
<1>10. /\ Len(next'[f]) = Len(next[f])
       /\ Keeps(next, next')
       /\ next'[LastOf(next)[f]][1] = pipe
  <2>1. next[LastOf(next)[f]][1] \notin Filters
    BY <1>1, <1>5, LastIsLast
  <2>2. CASE pipe = Null
    <3>1. next[LastOf(next)[f]][1] = Null
      BY <1>1, <1>6, <1>8, <2>1, IdlePorts
    <3>2. QED
      BY <1>2, <2>2, <3>1 DEF Keeps
  <2>3. CASE pipe # Null
    <3>1. next' = Attached(next, f, pipe) /\ pipe \in Filters /\ pipe \in alive /\ ~HasParent(next, pipe)
      BY <1>2, <2>3, RootFacts
    <3>2. Joins(f, pipe)
      BY <1>4, <3>1 DEF Joins
    <3>3. Len(next'[f]) = Len(next[f]) /\ Keeps(next, next')
      BY <1>1, <3>1, <3>2, JoinedTree DEF Keeps
    <3>4. next'[LastOf(next)[f]][1] = pipe
      BY <1>5, <1>6, <1>8, <3>1 DEF Attached, IsPorts
    <3>5. QED
      BY <3>3, <3>4
  <2>4. QED
    BY <2>2, <2>3
<1>11. Len(next'[f]) > 1 \/ Undoable'
  <2> SUFFICES ASSUME ~(Len(next[f]) > 1) PROVE Undoable'
    BY <1>10
  <2>1. PICK k \in Nat : k = Owns(f)
    BY <1>1, MembersType DEF Owns
  <2>2. IsLine(next, f, k)
    BY <1>1, <2>1 DEF UndoInv, LinesInv
  <2>3. PICK path \in [0 .. k -> Filters] : IsPath(path, next, f, k) /\ next[path[k]][1] \notin Filters
    BY <2>2 DEF IsLine
  <2>4. path[k] = LastOf(next)[f] /\ path[k] \in Filters
    <3>1. path[k] \in Filters
      BY <2>1, <2>3
    <3>2. path[k] = LastOf(next)[f]
      BY ONLY <1>1, <1>5, <2>1, <2>3, LineEnd
    <3>3. QED
      BY <3>1, <3>2
  <2>5. IsPath(path, next', f, k)
    <3>1. ASSUME NEW i \in 1 .. k PROVE path[i] = next'[path[i - 1]][1]
      <4>1. i - 1 \in 0 .. k /\ i \in 0 .. k
        BY <2>1
      <4>2. path[i] = next[path[i - 1]][1] /\ path[i] \in Filters /\ path[i - 1] \in Filters
        BY <2>3, <4>1 DEF IsPath
      <4>3. QED
        BY <1>10, <4>2 DEF Keeps
    <3>2. QED
      BY <2>3, <3>1 DEF IsPath
  <2>6. \A g \in alive \ {path[k]} : Cleared(next'[g]) = before'[2][g]
    <3>1. \A g \in Filters : Cleared(next[g]) = next[g]
      BY <1>1, ClearedIdle
    <3>2. alive \subseteq Filters
      BY RootFacts
    <3>3. QED
      BY <1>2, <1>7, <2>4, <3>1, <3>2
  <2>7. Cleared(next'[path[k]])[1] = before'[1]
    <3>1. next'[path[k]][1] = pipe /\ before'[1] = pipe
      BY <1>2, <1>10, <2>4
    <3>2. 1 \in DOMAIN next'[path[k]]
      <4>1. DOMAIN next'[path[k]] = DOMAIN next[path[k]]
        BY <1>2, <1>5, <2>4 DEF Attached, IsPorts
      <4>2. QED
        BY <1>6, <2>4, <4>1
    <3>3. pipe \notin Queues
      BY RootFacts, FiltersAssumption
    <3>4. QED
      BY <3>1, <3>2, <3>3 DEF Cleared
  <2>8. QED
    BY <1>2, <2>1, <2>3, <2>5, <2>6, <2>7 DEF Undoable
<1>12. BeforeInv'
  BY <1>1, <1>2, <1>4, <1>11 DEF BeforeInv
<1>13. QED
  BY <1>9, <1>12 DEF UndoInv

(* reset takes away what is below the pipe's first filter.                 *)
LEMMA ResetUndo ==
  ASSUME PipeInv, UndoInv, Reset
  PROVE  UndoInv'
<1>1. /\ next' = [f \in Filters |-> IF f \in Destructed THEN NoPorts ELSE next[f]]
      /\ before' = <<>> /\ owned' = owned
  BY DEF Reset
<1>2. LinesInv /\ owned \subseteq owned'
  BY <1>1 DEF UndoInv
<1>3. LinesInv'
  <2>1. CASE pipe = Null
    <3>1. Destructed = {}
      BY <2>1 DEF Destructed, Preorder, ToSet
    <3>2. \A x \in Filters : next'[x] = next[x]
      BY <1>1, <3>1
    <3>3. \A f \in TopLevel \ owned' : Below(next, f) \subseteq Filters
      BY TopLevelFilters, TreeType, BelowType
    <3>4. QED
      BY <1>2, <3>2, <3>3, LinesKept
  <2>2. CASE pipe # Null
    <3>1. pipe \in Filters /\ ~HasParent(next, pipe) /\ pipe \notin TopLevel \ owned'
      BY <1>1, <2>2, RootFacts
    <3>2. Destructed = Below(next, pipe)
      BY <2>2 DEF Destructed, Preorder, Below
    <3>3. \A x \in Filters \ Below(next, pipe) : next'[x] = next[x]
      BY <1>1, <3>2
    <3>4. QED
      BY <1>2, <3>1, <3>3, ElsewhereKept
  <2>3. QED
    BY <2>1, <2>2
<1>4. QED
  BY <1>1, <1>3 DEF UndoInv, BeforeInv

(* What pop does of a pipe that is left alone.                             *)
LEMMA PopFacts ==
  ASSUME NotInUse, PipeInv, Pop
  PROVE  LET gone == ToSet(Popped(pipe))
         IN /\ NotInUse /\ pipe \in alive /\ pipe \in Filters /\ ~HasParent(next, pipe) /\ Len(next[pipe]) <= 1
            /\ pipe' = next[Last(Popped(pipe))][1] /\ alive' = alive \ gone
            /\ next' = [f \in Filters |-> IF f \in gone THEN NoPorts ELSE next[f]]
            /\ before' = <<>> /\ owned' = owned
            /\ gone \subseteq Below(next, pipe)
<1>1. NotInUse /\ pipe \in alive /\ pipe \in Filters /\ ~HasParent(next, pipe) /\ Len(next[pipe]) <= 1
  BY RootFacts DEF Pop
<1>2. PICK gone, last : gone = ToSet(Popped(pipe)) /\ last = Last(Popped(pipe))
  OBVIOUS
<1>3. /\ gone \subseteq Filters /\ last \in gone
      /\ \A x \in gone \ {pipe} : \E y \in gone : x = next[y][1]
  BY <1>1, <1>2, PoppedProperties
<1>4. \A x \in Filters : 1 \in DOMAIN next[x]
  BY TreeType DEF IsPorts
<1>5. next[last][1] \in Filters \cup {Null}
  BY <1>1, <1>3, <1>4, IdlePorts
<1>6. /\ next' = [f \in Filters |-> IF f \in gone THEN NoPorts ELSE next[f]]
      /\ alive' = alive \ gone /\ pipe' = next[last][1] /\ before' = <<>> /\ owned' = owned
  BY <1>2, <1>5 DEF Pop
<1>7. Acyclic(next) /\ IsPorts(next)
  BY TreeType
<1>8. gone \subseteq Below(next, pipe)
  <2>1. PICK T : T = gone \ Below(next, pipe)
    OBVIOUS
  <2> SUFFICES ASSUME T # {} PROVE FALSE
    BY <2>1
  <2>2. T \in SUBSET Filters /\ T # {}
    BY <1>3, <2>1
  <2>3. PICK x \in T : \A y \in T : \A j \in DOMAIN next[y] : next[y][j] # x
    BY ONLY <1>7, <2>2, HighestFilter
  <2>4. pipe \in Below(next, pipe)
    BY <1>1, <1>7, BelowType
  <2>5. PICK y \in gone : x = next[y][1]
    BY <1>3, <2>1, <2>4
  <2>6. y \in Filters /\ 1 \in DOMAIN next[y] /\ x \in Filters
    BY <1>3, <1>4, <2>2, <2>5
  <2>7. y \in Below(next, pipe)
    BY <2>1, <2>3, <2>5, <2>6
  <2>8. x \in Below(next, pipe)
    BY <1>1, <1>7, <2>5, <2>6, <2>7, BelowClosed
  <2>9. QED
    BY <2>1, <2>8
<1>9. QED
  BY <1>1, <1>2, <1>6, <1>8

(* It takes nothing from the filters not given to the pipe yet.            *)
LEMMA PopUndo ==
  ASSUME NotInUse, PipeInv, UndoInv, Pop
  PROVE  UndoInv'
<1>1. PICK gone : gone = ToSet(Popped(pipe))
  OBVIOUS
<1>2. /\ pipe \in Filters /\ ~HasParent(next, pipe)
      /\ next' = [f \in Filters |-> IF f \in gone THEN NoPorts ELSE next[f]]
      /\ before' = <<>> /\ owned' = owned
      /\ gone \subseteq Below(next, pipe)
  BY <1>1, PopFacts
<1>3. \A x \in Filters \ Below(next, pipe) : next'[x] = next[x]
  BY <1>2
<1>4. LinesInv /\ owned \subseteq owned' /\ pipe \notin TopLevel \ owned'
  BY <1>2, RootFacts DEF UndoInv
<1>5. LinesInv'
  BY <1>2, <1>3, <1>4, ElsewhereKept
<1>6. QED
  BY <1>2, <1>5 DEF UndoInv, BeforeInv

(* pop takes away the line that prepend has put in front.                  *)
LEMMA PopRestores ==
  ASSUME NotInUse, PipeInv, UndoInv, Pop, before # <<>>
  PROVE  pipe' = before[1] /\ \A f \in alive' : next'[f] = before[2][f]
<1>1. PICK gone, last : gone = ToSet(Popped(pipe)) /\ last = Last(Popped(pipe))
  OBVIOUS
<1>2. /\ NotInUse /\ pipe \in Filters /\ Len(next[pipe]) <= 1
      /\ pipe' = next[last][1] /\ alive' = alive \ gone
      /\ next' = [f \in Filters |-> IF f \in gone THEN NoPorts ELSE next[f]]
  BY <1>1, PopFacts
<1>3. Len(next[pipe]) \in Nat /\ alive \subseteq Filters
  BY <1>2, RootFacts, TreeType DEF IsPorts
<1>4. ~(Len(next[pipe]) > 1)
  BY <1>2, <1>3
<1>5. Undoable
  BY <1>4 DEF UndoInv, BeforeInv
<1>6. PICK k \in Nat : k = Owns(pipe)
  BY <1>2, MembersType DEF Owns
<1>7. PICK path \in [0 .. k -> Filters] :
        /\ IsPath(path, next, pipe, k) /\ Cleared(next[path[k]])[1] = before[1]
        /\ \A f \in alive \ {path[k]} : Cleared(next[f]) = before[2][f]
  BY <1>5, <1>6 DEF Undoable
<1>8. gone = {path[i] : i \in 0 .. k} /\ last = path[k]
  BY <1>1, <1>6, <1>7, PoppedPath
<1>9. path[k] \in gone /\ path[k] \in Filters
  BY <1>6, <1>7, <1>8
<1>10. \A f \in Filters : Cleared(next[f]) = next[f]
  BY <1>2, ClearedIdle
<1>11. QED
  BY <1>2, <1>3, <1>7, <1>8, <1>9, <1>10

(* No step leaves the invariant.                                           *)
LEMMA UndoNext ==
  ASSUME PipeInv, UndoInv, [Next]_vars
  PROVE  UndoInv'
<1>1. ASSUME NotInUse, NEW f \in TopLevel, AppendFilter(f) PROVE UndoInv'
  BY <1>1, AppendUndo
<1>2. ASSUME NotInUse, NEW f \in TopLevel, Prepend(f) PROVE UndoInv'
  BY <1>2, PrependUndo
<1>3. CASE NotInUse /\ Pop
  BY <1>3, PopUndo
<1>4. CASE Reset
  BY <1>4, ResetUndo
<1>5. CASE StartMsg
  BY <1>5, StartMsgUndo
<1>6. CASE EndMsg
  BY <1>6, EndMsgUndo
<1>7. ASSUME NEW n \in 0 .. MaxQueues, StartMsgThrows(n) PROVE UndoInv'
  BY <1>7, StartMsgThrowsUndo
<1>8. ASSUME NEW n \in 1 .. Cardinality(Filters), EndMsgThrows(n) PROVE UndoInv'
  BY <1>8, QuietUndo DEF EndMsgThrows
<1>9. ASSUME NEW x \in Items, Write(x) PROVE UndoInv'
  BY <1>9, QuietUndo DEF Write
<1>10. ASSUME NEW x \in Items, NEW n \in 0 .. MaxQueues, WriteThrows(x, n) PROVE UndoInv'
  BY <1>10, QuietUndo DEF WriteThrows
<1>11. ASSUME NEW m \in Queues, SetDefaultMsg(m) PROVE UndoInv'
  BY <1>11, QuietUndo DEF SetDefaultMsg
<1>12. ASSUME NEW m \in Queues, NEW n \in ReadSizes, Read(m, n) PROVE UndoInv'
  BY <1>12, QuietUndo DEF Read
<1>13. CASE UNCHANGED vars
  BY <1>13, QuietUndo DEF vars
<1>14. QED
  BY <1>1, <1>2, <1>3, <1>4, <1>5, <1>6, <1>7, <1>8, <1>9, <1>10, <1>11, <1>12, <1>13 DEF Next, TreeChanges, Calls

(* The line is there whenever a pop() may follow.                          *)
THEOREM UndoInvariant ==
  ASSUME PlainFamilies
  PROVE  Spec => []UndoInv
<1>1. Init => UndoInv
  BY UndoInit
<1>2. PipeInv /\ UndoInv /\ [Next]_vars => UndoInv'
  BY UndoNext
<1>3. QED
  BY <1>1, <1>2, PipeInvariant, PTL DEF Spec

(* api.tex:545: pop() undoes prepend(), whatever messages went in between. *)
THEOREM PopsUndoPrepends ==
  ASSUME PlainFamilies
  PROVE  Spec => PopUndoesPrepend
<1>1. PipeInv /\ UndoInv /\ [Next]_vars =>
        [NotInUse /\ Pop /\ before # <<>> => pipe' = before[1] /\ \A f \in alive' : next'[f] = before[2][f]]_vars
  BY PopRestores
<1>2. QED
  BY <1>1, PipeInvariant, UndoInvariant, PTL DEF Spec, PopUndoesPrepend

-----------------------------------------------------------------------------
(* What is held back.                                                      *)

(* The filter before another one, in whose ports it is found.              *)
LEMMA HolderIs ==
  ASSUME NEW nx, NEW x, HasParent(nx, x)
  PROVE  /\ Holder(nx, x) \in Filters
         /\ \E j \in DOMAIN nx[Holder(nx, x)] : nx[Holder(nx, x)][j] = x
  BY DEF HasParent, Holder

(* In a forest it is the only one.                                         *)
LEMMA OnlyHolder ==
  ASSUME NEW nx, OneParent(nx), NEW x, x # Null, NEW y \in Filters, NEW j \in DOMAIN nx[y], nx[y][j] = x
  PROVE  HasParent(nx, x) /\ Holder(nx, x) = y
<1>1. HasParent(nx, x)
  BY DEF HasParent
<1>2. PICK h : h = Holder(nx, x)
  OBVIOUS
<1>3. h \in Filters /\ \E k \in DOMAIN nx[h] : nx[h][k] = x
  BY <1>1, <1>2, HolderIs
<1>4. h = y
  BY <1>3 DEF OneParent
<1>5. QED
  BY <1>1, <1>2, <1>4

(* What each filter holds, or is behind.                                   *)
Contents == [Filters -> Seq(Items)]
(* What is held down to a filter: its own data first.                      *)
LEMMA HeldEquation ==
  ASSUME NEW nx, Acyclic(nx), IsPorts(nx), NEW st \in Stores
  PROVE  /\ Held(nx, st) \in Contents
         /\ \A f \in Filters : ~HasParent(nx, f) => Held(nx, st)[f] = st[f]
         /\ \A f \in Filters : HasParent(nx, f) =>
              Held(nx, st)[f] = st[f] \o Held(nx, st)[Holder(nx, f)]
<1> DEFINE Step(w) == [f \in Filters |-> st[f] \o (IF HasParent(nx, f) THEN w[Holder(nx, f)] ELSE <<>>)]
<1>1. PICK B : B = [w \in Contents |-> Step(w)]
  OBVIOUS
<1>2. \A f \in Filters : st[f] \in Seq(Items)
  BY DEF Stores
<1>3. \A f \in Filters : HasParent(nx, f) => Holder(nx, f) \in Filters
  BY HolderIs
<1>4. \A w \in Contents : \A f \in Filters :
        st[f] \o (IF HasParent(nx, f) THEN w[Holder(nx, f)] ELSE <<>>) \in Seq(Items)
  <2> SUFFICES ASSUME NEW w \in Contents, NEW f \in Filters
               PROVE  st[f] \o (IF HasParent(nx, f) THEN w[Holder(nx, f)] ELSE <<>>) \in Seq(Items)
    OBVIOUS
  <2>1. PICK r : r = IF HasParent(nx, f) THEN w[Holder(nx, f)] ELSE <<>>
    OBVIOUS
  <2>2. r \in Seq(Items)
    BY <1>3, <2>1 DEF Contents
  <2>3. QED
    BY <1>2, <2>1, <2>2
<1>5. \A w \in Contents : B[w] = Step(w) /\ Step(w) \in Contents
  BY <1>1, <1>4 DEF Contents
<1>6. PICK R : R = {p \in Filters \X Filters : HasParent(nx, p[2]) /\ p[1] = Holder(nx, p[2])}
  OBVIOUS
<1>7. NoDescent(R, Filters)
  <2> SUFFICES ASSUME NEW T \in SUBSET Filters, T # {} PROVE \E x \in T : \A y \in T : <<y, x>> \notin R
    BY DEF NoDescent
  <2>1. PICK x \in T : \A y \in T : \A j \in DOMAIN nx[y] : nx[y][j] # x
    BY HighestFilter
  <2>2. \A y \in T : <<y, x>> \notin R
    BY <1>6, <2>1, HolderIs
  <2>3. QED
    BY <2>2
<1>8. Recurs(B, R, Filters, Seq(Items))
  <2>1. B \in [Contents -> Contents]
    BY <1>1, <1>5
  <2>2. <<>> \in Seq(Items)
    OBVIOUS
  <2>3. ASSUME NEW g \in Contents, NEW h \in Contents, NEW x \in Filters,
               \A y \in Filters : <<y, x>> \in R => g[y] = h[y]
        PROVE  B[g][x] = B[h][x]
    <3>1. HasParent(nx, x) => g[Holder(nx, x)] = h[Holder(nx, x)]
      BY <1>3, <1>6, <2>3
    <3>2. \A w \in Contents : B[w][x] = st[x] \o (IF HasParent(nx, x) THEN w[Holder(nx, x)] ELSE <<>>)
      BY <1>5
    <3> HIDE DEF Step
    <3>3. QED
      BY <3>1, <3>2
  <2>4. QED
    BY <2>1, <2>2, <2>3 DEF Recurs, Contents
<1>9. PICK w \in Contents : w = B[w]
  <2>1. IsFiniteSet(Filters)
    BY FiltersAssumption
  <2>2. PICK S, V : S = Filters /\ V = Seq(Items)
    OBVIOUS
  <2>3. IsFiniteSet(S) /\ NoDescent(R, S) /\ Recurs(B, R, S, V)
    BY <1>7, <1>8, <2>1, <2>2
  <2>4. \E g \in [S -> V] : g = B[g]
    BY ONLY <2>3, Definable
  <2>5. QED
    BY <2>2, <2>4 DEF Contents
<1>10. w = Step(w)
  BY <1>5, <1>9
<1>11. PICK G : G = CHOOSE v : v = Step(v)
  OBVIOUS
<1>12. G = Step(G)
  BY ONLY <1>10, <1>11, Zenon
<1>13. Held(nx, st) = G
  BY <1>11 DEF Held
<1>14. \A f \in Filters : G[f] = st[f] \o (IF HasParent(nx, f) THEN G[Holder(nx, f)] ELSE <<>>)
  BY <1>12
<1>15. \A f \in Filters : G[f] \in Seq(Items)
  <2>1. PICK T : T = {f \in Filters : G[f] \notin Seq(Items)}
    OBVIOUS
  <2> SUFFICES ASSUME T # {} PROVE FALSE
    BY <2>1
  <2>2. T \in SUBSET Filters /\ T # {}
    BY <2>1
  <2>3. PICK x \in T : \A y \in T : \A j \in DOMAIN nx[y] : nx[y][j] # x
    BY ONLY <2>2, Acyclic(nx), HighestFilter
  <2>4. x \in Filters /\ G[x] \notin Seq(Items)
    BY <2>1, <2>3
  <2>5. HasParent(nx, x) => G[Holder(nx, x)] \in Seq(Items)
    BY <2>1, <2>3, HolderIs
  <2>6. PICK r : r = IF HasParent(nx, x) THEN G[Holder(nx, x)] ELSE <<>>
    OBVIOUS
  <2>7. G[x] = st[x] \o r
    BY <1>14, <2>4, <2>6
  <2>8. r \in Seq(Items) /\ st[x] \in Seq(Items)
    BY <1>2, <2>4, <2>5, <2>6
  <2>9. G[x] \in Seq(Items)
    BY ONLY <2>7, <2>8
  <2>10. QED
    BY <2>4, <2>9
<1>16. G \in Contents
  <2>1. DOMAIN G = Filters
    BY <1>12
  <2>2. G = [f \in Filters |-> G[f]]
    BY <1>12, <2>1
  <2>3. QED
    BY <1>15, <2>2 DEF Contents
<1>17. \A f \in Filters : st[f] \o <<>> = st[f]
  BY <1>2
<1>18. \A f \in Filters : ~HasParent(nx, f) => G[f] = st[f]
  BY <1>14, <1>17
<1>19. \A f \in Filters : HasParent(nx, f) => G[f] = st[f] \o G[Holder(nx, f)]
  BY <1>14
<1>20. QED
  BY <1>13, <1>16, <1>18, <1>19

(* It is nothing where nothing is held from there up.                      *)
LEMMA NothingHeld ==
  ASSUME NEW nx, Acyclic(nx), IsPorts(nx), NEW st \in Stores, NEW D \in SUBSET Filters,
         \A x \in D : st[x] = <<>>,
         \A x \in D : HasParent(nx, x) => Holder(nx, x) \in D
  PROVE  \A x \in D : Held(nx, st)[x] = <<>>
<1>1. PICK T : T = {x \in D : Held(nx, st)[x] # <<>>}
  OBVIOUS
<1> SUFFICES ASSUME T # {} PROVE FALSE
  BY <1>1
<1>2. T \in SUBSET Filters /\ T # {}
  BY <1>1
<1>3. PICK x \in T : \A y \in T : \A j \in DOMAIN nx[y] : nx[y][j] # x
  BY ONLY <1>2, Acyclic(nx), HighestFilter
<1>4. x \in D /\ x \in Filters /\ st[x] = <<>> /\ Held(nx, st)[x] # <<>>
  BY <1>1, <1>3
<1>5. CASE ~HasParent(nx, x)
  <2>1. Held(nx, st)[x] = st[x]
    BY <1>4, <1>5, HeldEquation
  <2>2. QED
    BY <1>4, <2>1
<1>6. CASE HasParent(nx, x)
  <2>1. Holder(nx, x) \in D /\ Holder(nx, x) \notin T
    BY <1>3, <1>4, <1>6, HolderIs
  <2>2. Held(nx, st)[Holder(nx, x)] = <<>>
    BY <1>1, <2>1
  <2>3. Held(nx, st)[x] = st[x] \o Held(nx, st)[Holder(nx, x)]
    BY <1>4, <1>6, HeldEquation
  <2>4. <<>> \o <<>> = <<>>
    OBVIOUS
  <2>5. QED
    BY <1>4, <2>2, <2>3, <2>4
<1>7. QED
  BY <1>5, <1>6

(* Data that comes to the filters below f is held by these only.           *)
LEMMA HeldElsewhere ==
  ASSUME NEW nx, Forest(nx), IsPorts(nx), NEW st \in Stores, NEW st2 \in Stores,
         NEW D \in SUBSET Filters,
         \A x \in Filters \ D : st2[x] = st[x],
         \A x \in D : \A j \in DOMAIN nx[x] : nx[x][j] \in Filters => nx[x][j] \in D
  PROVE  \A x \in Filters \ D : Held(nx, st2)[x] = Held(nx, st)[x]
<1>1. PICK T : T = {x \in Filters \ D : Held(nx, st2)[x] # Held(nx, st)[x]}
  OBVIOUS
<1> SUFFICES ASSUME T # {} PROVE FALSE
  BY <1>1
<1>2. T \in SUBSET Filters /\ T # {} /\ Acyclic(nx)
  BY <1>1 DEF Forest
<1>3. PICK x \in T : \A y \in T : \A j \in DOMAIN nx[y] : nx[y][j] # x
  BY ONLY <1>2, HighestFilter
<1>4. x \in Filters \ D
  BY <1>1, <1>3
<1>5. CASE ~HasParent(nx, x)
  <2>1. Held(nx, st2)[x] = st2[x] /\ Held(nx, st)[x] = st[x]
    BY <1>2, <1>4, <1>5, HeldEquation
  <2>2. QED
    BY <1>1, <1>3, <1>4, <2>1
<1>6. CASE HasParent(nx, x)
  <2>1. Holder(nx, x) \notin D /\ Holder(nx, x) \notin T /\ Holder(nx, x) \in Filters
    BY <1>3, <1>4, <1>6, HolderIs
  <2>2. Held(nx, st2)[Holder(nx, x)] = Held(nx, st)[Holder(nx, x)]
    BY <1>1, <2>1
  <2>3. /\ Held(nx, st2)[x] = st2[x] \o Held(nx, st2)[Holder(nx, x)]
        /\ Held(nx, st)[x] = st[x] \o Held(nx, st)[Holder(nx, x)]
    BY <1>2, <1>4, <1>6, HeldEquation
  <2>4. QED
    BY <1>1, <1>3, <1>4, <2>2, <2>3
<1>7. QED
  BY <1>5, <1>6

(* Data d is added at the end; or perhaps, if not all that is to receive   *)
(* it has been served.                                                     *)
Moved(a, b, d, full) == b = a \o d \/ (~full /\ b = a)
(* What receives it below f: behind the filters of I, which hold nothing   *)
(* and pass it on, those of R.                                             *)
Passes(nx, f, I, R) ==
  /\ I \subseteq Filters /\ f \in I \cup R /\ I \cap R = {}
  /\ \A x \in Below(nx, f) : \A j \in DOMAIN nx[x] : nx[x][j] # Null =>
       (nx[x][j] \in I \cup R <=> x \in I)
(* Nothing else changes.                                                   *)
Reaches(st, st2, d, full, I, R) ==
  /\ \A x \in I : st[x] = <<>> /\ st2[x] = <<>>
  /\ \A x \in (Filters \cup Queues) \cap R : Moved(st[x], st2[x], d, full)
  /\ \A x \in (Filters \cup Queues) \ R : st2[x] = st[x]
(* No filter above f holds anything.                                       *)
Empties(nx, st, f) == HasParent(nx, f) => Held(nx, st)[Holder(nx, f)] = <<>>

(* What is held down to a place, and there.                                *)
LEMMA MovedJoins ==
  ASSUME NEW s \in Seq(Items), NEW s2 \in Seq(Items), NEW a \in Seq(Items), NEW a2 \in Seq(Items),
         NEW d \in Seq(Items), NEW full \in BOOLEAN,
         \/ a = <<>> /\ a2 = <<>> /\ Moved(s, s2, d, full)
         \/ s2 = s /\ Moved(a, a2, d, full)
  PROVE  Moved(s \o a, s2 \o a2, d, full)
<1>1. CASE a = <<>> /\ a2 = <<>> /\ Moved(s, s2, d, full)
  <2>1. s \o <<>> = s /\ s2 \o <<>> = s2
    BY ConcatEmptySeq
  <2>2. QED
    BY <1>1, <2>1
<1>2. CASE s2 = s /\ Moved(a, a2, d, full)
  <2>1. PICK V : V = Items
    OBVIOUS
  <2>2. s \in Seq(V) /\ a \in Seq(V) /\ d \in Seq(V)
    BY <2>1
  <2>3. (s \o a) \o d = s \o (a \o d)
    BY ONLY <2>2, ConcatAssociative
  <2>4. QED
    BY <1>2, <2>3 DEF Moved
<1>3. QED
  BY <1>1, <1>2

(* Data that is sent from f reaches every place below it once.             *)
LEMMA Passed ==
  ASSUME NEW nx, Forest(nx), IsPorts(nx), NEW f \in Filters, NEW st \in Stores, NEW st2 \in Stores,
         NEW d \in Seq(Items), NEW full \in BOOLEAN, NEW I, NEW R,
         Passes(nx, f, I, R), Reaches(st, st2, d, full, I, R), Empties(nx, st, f), Empties(nx, st2, f)
  PROVE  \A x \in Below(nx, f) :
           IF x \in I THEN Held(nx, st)[x] = <<>> /\ Held(nx, st2)[x] = <<>>
           ELSE Moved(Held(nx, st)[x], Held(nx, st2)[x], d, full)
<1> DEFINE Ok(x) == IF x \in I THEN Held(nx, st)[x] = <<>> /\ Held(nx, st2)[x] = <<>>
                    ELSE Moved(Held(nx, st)[x], Held(nx, st2)[x], d, full)
<1>1. PICK T : T = {x \in Below(nx, f) : ~Ok(x)}
  OBVIOUS
<1> SUFFICES ASSUME T # {} PROVE FALSE
  BY <1>1
<1>2. Acyclic(nx) /\ OneParent(nx) /\ Below(nx, f) \subseteq Filters /\ f \in Below(nx, f)
  BY BelowType DEF Forest
<1>3. T \in SUBSET Filters /\ T # {}
  BY <1>1, <1>2
<1>4. PICK x \in T : \A y \in T : \A j \in DOMAIN nx[y] : nx[y][j] # x
  BY ONLY <1>2, <1>3, HighestFilter
<1>5. x \in Below(nx, f) /\ x \in Filters /\ ~Ok(x)
  BY <1>1, <1>2, <1>4
<1>6. st[x] \in Seq(Items) /\ st2[x] \in Seq(Items) /\ <<>> \in Seq(Items)
  BY <1>5 DEF Stores
<1>7. PICK a, a2 :
        /\ a = IF HasParent(nx, x) THEN Held(nx, st)[Holder(nx, x)] ELSE <<>>
        /\ a2 = IF HasParent(nx, x) THEN Held(nx, st2)[Holder(nx, x)] ELSE <<>>
  OBVIOUS
<1>8. a \in Seq(Items) /\ a2 \in Seq(Items)
  <2>1. Held(nx, st) \in Contents /\ Held(nx, st2) \in Contents
    BY <1>2, HeldEquation
  <2>2. HasParent(nx, x) => Holder(nx, x) \in Filters
    BY HolderIs
  <2>3. QED
    BY <1>6, <1>7, <2>1, <2>2 DEF Contents
<1>9. Held(nx, st)[x] = st[x] \o a /\ Held(nx, st2)[x] = st2[x] \o a2
  <2>1. st[x] \o <<>> = st[x] /\ st2[x] \o <<>> = st2[x]
    BY <1>6, ConcatEmptySeq
  <2>2. QED
    BY <1>2, <1>5, <1>7, <2>1, HeldEquation
<1>10. \/ x \in I \cup R /\ a = <<>> /\ a2 = <<>>
       \/ x \notin I \cup R /\ Moved(a, a2, d, full)
  <2>1. CASE x = f
    <3>1. a = <<>> /\ a2 = <<>>
      BY <1>7, <2>1 DEF Empties
    <3>2. QED
      BY <2>1, <3>1 DEF Passes
  <2>2. CASE x # f
    <3>1. PICK y \in Below(nx, f) : \E j \in DOMAIN nx[y] : nx[y][j] = x
      BY <1>2, <1>5, <2>2, BelowClosed
    <3>2. x # Null /\ y \in Filters
      BY <1>2, <1>5, FiltersAssumption
    <3>3. HasParent(nx, x) /\ Holder(nx, x) = y
      BY <1>2, <3>1, <3>2, OnlyHolder
    <3>4. a = Held(nx, st)[y] /\ a2 = Held(nx, st2)[y]
      BY <1>7, <3>3
    <3>5. Ok(y)
      BY <1>1, <1>4, <3>1
    <3>6. x \in I \cup R <=> y \in I
      BY <3>1, <3>2 DEF Passes
    <3>7. QED
      BY <3>4, <3>5, <3>6
  <2>3. QED
    BY <2>1, <2>2
<1>11. CASE x \in I
  <2>1. st[x] = <<>> /\ st2[x] = <<>> /\ a = <<>> /\ a2 = <<>>
    BY <1>10, <1>11 DEF Reaches
  <2>2. <<>> \o <<>> = <<>>
    OBVIOUS
  <2>3. QED
    BY <1>5, <1>9, <1>11, <2>1, <2>2
<1>12. CASE x \notin I
  <2>1. \/ a = <<>> /\ a2 = <<>> /\ Moved(st[x], st2[x], d, full)
        \/ st2[x] = st[x] /\ Moved(a, a2, d, full)
    BY <1>5, <1>10, <1>12 DEF Reaches
  <2>2. Moved(st[x] \o a, st2[x] \o a2, d, full)
    BY ONLY <1>6, <1>8, <2>1, d \in Seq(Items), full \in BOOLEAN, MovedJoins
  <2>3. QED
    BY <1>5, <1>9, <1>12, <2>2
<1>13. QED
  BY <1>11, <1>12

(* What a queue contains, with all that filters hold back from it.         *)
Output(nx, st, q) == st[q] \o Held(nx, st)[Holder(nx, q)]
(* So does it reach every queue below it.                                  *)
LEMMA OutputMoved ==
  ASSUME NEW nx, Forest(nx), IsPorts(nx), NEW f \in Filters, NEW st \in Stores, NEW st2 \in Stores,
         NEW d \in Seq(Items), NEW full \in BOOLEAN, NEW I, NEW R,
         Passes(nx, f, I, R), Reaches(st, st2, d, full, I, R), Empties(nx, st, f), Empties(nx, st2, f),
         NEW q \in Queues, HasParent(nx, q), Holder(nx, q) \in Below(nx, f)
  PROVE  Moved(Output(nx, st, q), Output(nx, st2, q), d, full)
<1>1. PICK y : y = Holder(nx, q)
  OBVIOUS
<1>2. y \in Below(nx, f) /\ y \in Filters /\ \E j \in DOMAIN nx[y] : nx[y][j] = q
  BY <1>1, HolderIs
<1>3. IF y \in I THEN Held(nx, st)[y] = <<>> /\ Held(nx, st2)[y] = <<>>
      ELSE Moved(Held(nx, st)[y], Held(nx, st2)[y], d, full)
  BY <1>2, Passed
<1>4. PICK a, a2, s, s2 : a = Held(nx, st)[y] /\ a2 = Held(nx, st2)[y] /\ s = st[q] /\ s2 = st2[q]
  OBVIOUS
<1>5. Acyclic(nx)
  BY DEF Forest
<1>6. s \in Seq(Items) /\ s2 \in Seq(Items) /\ a \in Seq(Items) /\ a2 \in Seq(Items)
  BY <1>2, <1>4, <1>5, HeldEquation DEF Contents, Stores
<1>7. q # Null /\ q \notin Filters
  BY FiltersAssumption
<1>8. q \in R <=> y \in I
  BY <1>2, <1>7 DEF Passes
<1>9. \/ a = <<>> /\ a2 = <<>> /\ Moved(s, s2, d, full)
      \/ s2 = s /\ Moved(a, a2, d, full)
  BY <1>3, <1>4, <1>8 DEF Reaches
<1>10. Moved(s \o a, s2 \o a2, d, full)
  BY ONLY <1>6, <1>9, d \in Seq(Items), full \in BOOLEAN, MovedJoins
<1>11. QED
  BY <1>1, <1>4, <1>10 DEF Output

(* Other queues get nothing.                                               *)
LEMMA OutputElsewhere ==
  ASSUME NEW nx, Forest(nx), IsPorts(nx), NEW st \in Stores, NEW st2 \in Stores,
         NEW D \in SUBSET Filters, \A x \in Filters \ D : st2[x] = st[x],
         \A x \in D : \A j \in DOMAIN nx[x] : nx[x][j] \in Filters => nx[x][j] \in D,
         NEW q \in Queues, HasParent(nx, q), Holder(nx, q) \notin D, st2[q] = st[q]
  PROVE  Output(nx, st2, q) = Output(nx, st, q)
<1>1. Holder(nx, q) \in Filters \ D
  BY HolderIs
<1>2. Held(nx, st2)[Holder(nx, q)] = Held(nx, st)[Holder(nx, q)]
  BY <1>1, HeldElsewhere
<1>3. QED
  BY <1>2 DEF Output

-----------------------------------------------------------------------------
(* What a filter sends.                                                    *)

(* No way down returns to where it began.                                  *)
LEMMA NoReturn ==
  ASSUME NEW nx, Acyclic(nx), IsPorts(nx), NEW f \in Filters
  PROVE  \A x \in Below(nx, f) : \A j \in DOMAIN nx[x] : nx[x][j] # f
<1>1. PICK T : T = Below(nx, f)
  OBVIOUS
<1>2. T \in SUBSET Filters /\ T # {}
  BY <1>1, BelowType
<1>3. PICK x \in T : \A y \in T : \A j \in DOMAIN nx[y] : nx[y][j] # x
  BY ONLY <1>2, Acyclic(nx), HighestFilter
<1>4. x = f
  BY <1>1, <1>3, BelowClosed
<1>5. QED
  BY <1>1, <1>3, <1>4

(* What is above f is not below it.                                        *)
LEMMA AboveNotBelow ==
  ASSUME NEW nx, Forest(nx), IsPorts(nx), NEW f \in Filters, NEW D \in SUBSET Filters, f \notin D,
         \A x \in D : HasParent(nx, x) => Holder(nx, x) \in D
  PROVE  D \cap Below(nx, f) = {}
<1>1. PICK T : T = D \cap Below(nx, f)
  OBVIOUS
<1> SUFFICES ASSUME T # {} PROVE FALSE
  BY <1>1
<1>2. T \in SUBSET Filters /\ T # {} /\ Acyclic(nx) /\ OneParent(nx)
  BY <1>1 DEF Forest
<1>3. PICK x \in T : \A y \in T : \A j \in DOMAIN nx[y] : nx[y][j] # x
  BY ONLY <1>2, HighestFilter
<1>4. PICK y \in Below(nx, f) : \E j \in DOMAIN nx[y] : nx[y][j] = x
  BY <1>1, <1>2, <1>3, BelowClosed
<1>5. y \in Filters /\ x # Null
  BY <1>2, <1>3, BelowType, FiltersAssumption
<1>6. HasParent(nx, x) /\ Holder(nx, x) = y
  BY <1>2, <1>4, <1>5, OnlyHolder
<1>7. QED
  BY <1>1, <1>3, <1>4, <1>6

(* Filter::send reaches what hangs in a port of f, or of a filter that it  *)
(* reaches through filters which pass on what they get.                    *)
LEMMA SentPorts ==
  ASSUME PipeInv, NEW f \in Filters
  PROVE  \A y : y \in ToSet(SentTo(f)) <=>
           \E x \in Within(next, Passing, f) : \E j \in DOMAIN next[x] : next[x][j] = y /\ y \notin Passing
<1>1. Acyclic(next) /\ IsPorts(next) /\ Passing \in SUBSET Filters
  BY TreeType DEF Passing
<1>2. PICK P, W : P = Fringes(next, Passing)[f] /\ W = Within(next, Passing, f)
  OBVIOUS
<1>3. /\ P \in Seq(Pairs)
      /\ \A x \in Filters, j \in Nat :
           <<x, j>> \in ToSet(P) <=> x \in W /\ j \in DOMAIN next[x] /\ next[x][j] \notin Passing
  BY <1>1, <1>2, FringePorts
<1>4. W \subseteq Filters
  BY <1>1, <1>2, WithinIs
<1>5. SentTo(f) = [i \in DOMAIN P |-> next[P[i][1]][P[i][2]]]
  BY <1>2 DEF SentTo
<1>6. ASSUME NEW y, y \in ToSet(SentTo(f))
      PROVE  \E x \in W : \E j \in DOMAIN next[x] : next[x][j] = y /\ y \notin Passing
  <2>1. PICK i \in DOMAIN P : y = next[P[i][1]][P[i][2]]
    BY <1>5, <1>6 DEF ToSet
  <2>2. P[i] \in Pairs /\ P[i] \in ToSet(P)
    BY <1>3, <2>1 DEF ToSet
  <2>3. PICK x \in Filters, j \in Nat : P[i] = <<x, j>>
    BY <2>2 DEF Pairs
  <2>4. x \in W /\ j \in DOMAIN next[x] /\ next[x][j] \notin Passing /\ y = next[x][j]
    BY <1>3, <2>1, <2>2, <2>3
  <2>5. QED
    BY <2>4
<1>7. ASSUME NEW y, NEW x \in W, NEW j \in DOMAIN next[x], next[x][j] = y, y \notin Passing
      PROVE  y \in ToSet(SentTo(f))
  <2>1. x \in Filters /\ j \in Nat
    BY <1>1, <1>4, <1>7 DEF IsPorts
  <2>2. <<x, j>> \in ToSet(P)
    BY <1>3, <1>7, <2>1
  <2>3. PICK i \in DOMAIN P : P[i] = <<x, j>>
    BY <2>2 DEF ToSet
  <2>4. SentTo(f)[i] = y
    BY <1>5, <1>7, <2>3
  <2>5. QED
    BY <1>5, <2>3, <2>4 DEF ToSet
<1>8. QED
  BY <1>2, <1>6, <1>7

(* So what f sends comes once to each place below f.                       *)
LEMMA SendPasses ==
  ASSUME PipeInv, NEW f \in Filters
  PROVE  /\ Passes(next, f, Within(next, Passing, f), ToSet(SentTo(f)))
         /\ Within(next, Passing, f) \subseteq Below(next, f) \cap ({f} \cup Passing)
         /\ ToSet(SentTo(f)) \cap Filters \subseteq Below(next, f) \ ({f} \cup Passing)
         /\ \A q \in Queues : q \in ToSet(SentTo(f)) => HasParent(next, q) /\ Holder(next, q) \in Below(next, f)
<1>1. Acyclic(next) /\ OneParent(next) /\ IsPorts(next) /\ Passing \in SUBSET Filters
  BY TreeType DEF Passing
<1>2. PICK I, R : I = Within(next, Passing, f) /\ R = ToSet(SentTo(f))
  OBVIOUS
<1>3. \A y : y \in R <=> \E x \in I : \E j \in DOMAIN next[x] : next[x][j] = y /\ y \notin Passing
  BY <1>2, SentPorts
<1>4. /\ I \subseteq Filters /\ f \in I
      /\ \A x \in I : \A j \in DOMAIN next[x] : next[x][j] \in Passing => next[x][j] \in I
      /\ \A x \in I \ {f} : x \in Passing /\ \E y \in I : \E j \in DOMAIN next[y] : next[y][j] = x
      /\ \A D \in SUBSET Filters :
           f \in D /\ (\A x \in D : \A j \in DOMAIN next[x] : next[x][j] \in Passing => next[x][j] \in D)
           => I \subseteq D
  <2>1. PICK P : P = Passing
    OBVIOUS
  <2>2. P \in SUBSET Filters /\ I = Within(next, P, f)
    BY <1>1, <1>2, <2>1
  <2>3. I \subseteq Filters /\ f \in I
    BY ONLY <1>1, <2>2, f \in Filters, WithinIs
  <2>4. \A x \in I : \A j \in DOMAIN next[x] : next[x][j] \in P => next[x][j] \in I
    BY ONLY <1>1, <2>2, f \in Filters, WithinIs
  <2>5. \A x \in I \ {f} : x \in P /\ \E y \in I : \E j \in DOMAIN next[y] : next[y][j] = x
    BY ONLY <1>1, <2>2, f \in Filters, WithinIs
  <2>6. \A D \in SUBSET Filters :
           f \in D /\ (\A x \in D : \A j \in DOMAIN next[x] : next[x][j] \in P => next[x][j] \in D)
           => I \subseteq D
    BY ONLY <1>1, <2>2, f \in Filters, WithinIs
  <2>7. QED
    BY <2>1, <2>3, <2>4, <2>5, <2>6
<1>5. /\ Below(next, f) \subseteq Filters /\ f \in Below(next, f)
      /\ \A x \in Below(next, f) : \A j \in DOMAIN next[x] :
           next[x][j] # f /\ (next[x][j] \in Filters => next[x][j] \in Below(next, f))
  BY <1>1, BelowType, BelowClosed, NoReturn
<1>6. I \subseteq Below(next, f)
  <2>1. \A x \in Below(next, f) : \A j \in DOMAIN next[x] :
          next[x][j] \in Passing => next[x][j] \in Below(next, f)
    BY <1>1, <1>5
  <2>2. QED
    BY <1>4, <1>5, <2>1
<1>7. f \notin R
  BY <1>3, <1>5, <1>6
<1>8. I \cap R = {}
  BY <1>3, <1>4, <1>7
<1>9. ASSUME NEW x \in Below(next, f), NEW j \in DOMAIN next[x], next[x][j] # Null
      PROVE  next[x][j] \in I \cup R <=> x \in I
  <2>1. x \in I => next[x][j] \in I \cup R
    BY <1>3, <1>4
  <2>2. ASSUME next[x][j] \in I \cup R PROVE x \in I
    <3>1. next[x][j] # f
      BY <1>5
    <3>2. PICK y \in I : \E k \in DOMAIN next[y] : next[y][k] = next[x][j]
      BY <1>3, <1>4, <2>2, <3>1
    <3>3. PICK k \in DOMAIN next[y] : next[y][k] = next[x][j]
      BY <3>2
    <3>4. y \in Filters /\ x \in Filters
      BY <1>4, <1>5
    <3>5. x = y
      BY <1>1, <1>9, <3>3, <3>4 DEF OneParent
    <3>6. QED
      BY <3>5
  <2>3. QED
    BY <2>1, <2>2
<1>10. Passes(next, f, I, R)
  BY <1>4, <1>8, <1>9 DEF Passes
<1>11. R \cap Filters \subseteq Below(next, f) \ ({f} \cup Passing)
  BY <1>3, <1>5, <1>6, <1>7
<1>12. ASSUME NEW q \in Queues, q \in R PROVE HasParent(next, q) /\ Holder(next, q) \in Below(next, f)
  <2>1. PICK x \in I : \E j \in DOMAIN next[x] : next[x][j] = q
    BY <1>3, <1>12
  <2>2. x \in Filters /\ q # Null
    BY <1>4, FiltersAssumption
  <2>3. HasParent(next, q) /\ Holder(next, q) = x
    BY <1>1, <2>1, <2>2, OnlyHolder
  <2>4. QED
    BY <1>6, <2>3
<1>13. QED
  BY <1>2, <1>4, <1>6, <1>10, <1>11, <1>12

(* A queue may get more, and loses nothing.                                *)
Grows(a, b) == \E e \in Seq(Items) : b = a \o e
(* It may get more in several steps.                                       *)
LEMMA GrowsAlong ==
  ASSUME NEW a \in Seq(Items)
  PROVE  /\ Grows(a, a)
         /\ \A b \in Seq(Items) : Grows(a, a \o b)
         /\ \A b, c : Grows(a, b) /\ Grows(b, c) => Grows(a, c)
<1>1. a \o <<>> = a /\ <<>> \in Seq(Items)
  BY ConcatEmptySeq
<1>2. ASSUME NEW b, NEW c, Grows(a, b), Grows(b, c) PROVE Grows(a, c)
  <2>1. PICK V : V = Items
    OBVIOUS
  <2>2. PICK d \in Seq(V) : b = a \o d
    BY <1>2, <2>1 DEF Grows
  <2>3. PICK e \in Seq(V) : c = b \o e
    BY <1>2, <2>1 DEF Grows
  <2>4. a \in Seq(V)
    BY <2>1
  <2>5. c = a \o (d \o e) /\ d \o e \in Seq(V)
    BY ONLY <2>2, <2>3, <2>4, ConcatAssociative, ConcatProperties
  <2>6. QED
    BY <2>1, <2>5 DEF Grows
<1>3. QED
  BY <1>1, <1>2 DEF Grows

-----------------------------------------------------------------------------
(* The end of a message.                                                   *)

(* All that leads to f is in D, and nothing is held there, or by a filter  *)
(* that passes on what it gets.                                            *)
Cleaned(nx, st, f, D) ==
  /\ D \subseteq Filters /\ f \notin D
  /\ \A x \in D \cup {f} : HasParent(nx, x) => Holder(nx, x) \in D
  /\ \A x \in D \cup Passing : st[x] = <<>>
(* Then none above f holds anything, and none of these is below f.         *)
LEMMA CleanedAbove ==
  ASSUME NEW nx, Forest(nx), IsPorts(nx), NEW st \in Stores, NEW f \in Filters, NEW D, Cleaned(nx, st, f, D)
  PROVE  Empties(nx, st, f) /\ D \cap Below(nx, f) = {}
<1>1. Acyclic(nx)
  BY DEF Forest
<1>2. D \in SUBSET Filters /\ \A x \in D : HasParent(nx, x) => Holder(nx, x) \in D
  BY DEF Cleaned
<1>3. \A x \in D : st[x] = <<>>
  BY DEF Cleaned
<1>4. \A x \in D : Held(nx, st)[x] = <<>>
  BY <1>1, <1>2, <1>3, NothingHeld
<1>5. Empties(nx, st, f)
  BY <1>4 DEF Empties, Cleaned
<1>6. f \notin D
  BY DEF Cleaned
<1>7. D \cap Below(nx, f) = {}
  BY <1>2, <1>6, AboveNotBelow
<1>8. QED
  BY <1>5, <1>7

(* What f holds is the end of what the queues below it are to get.         *)
HoldsTheEnd(nx, st, st1, f) ==
  \A q \in Queues : HasParent(nx, q) =>
    IF Holder(nx, q) \in Below(nx, f) THEN Output(nx, st, q) = Output(nx, st1, q) \o st[f]
    ELSE Output(nx, st, q) = Output(nx, st1, q)
LEMMA HeldIsLast ==
  ASSUME NEW nx, Forest(nx), IsPorts(nx), NEW st \in Stores, NEW st1 \in Stores, NEW f \in Filters, NEW D,
         Cleaned(nx, st, f, D), st1 = [st EXCEPT ![f] = <<>>]
  PROVE  /\ Cleaned(nx, st1, f, D)
         /\ HoldsTheEnd(nx, st, st1, f)
<1>1. /\ \A x \in (Filters \cup Queues) \ {f} : st1[x] = st[x]
      /\ st1[f] = <<>> /\ st[f] \in Seq(Items)
  BY DEF Stores
<1>2. Cleaned(nx, st1, f, D)
  BY <1>1 DEF Cleaned, Passing
<1>3. Empties(nx, st, f) /\ Empties(nx, st1, f)
  BY <1>2, CleanedAbove
<1>4. Acyclic(nx) /\ Below(nx, f) \subseteq Filters /\ f \in Below(nx, f)
  BY BelowType DEF Forest
<1>5. PICK I, R : I = {} /\ R = {f}
  OBVIOUS
<1>6. Passes(nx, f, I, R)
  <2>1. \A x \in Below(nx, f) : \A j \in DOMAIN nx[x] : nx[x][j] # f
    BY <1>4, NoReturn
  <2>2. QED
    BY <1>5, <2>1 DEF Passes
<1>7. PICK d, full : d = st[f] /\ full = TRUE
  OBVIOUS
<1>8. Reaches(st1, st, d, full, I, R)
  <2>1. <<>> \o st[f] = st[f]
    BY <1>1, ConcatEmptySeq
  <2>2. Moved(st1[f], st[f], d, full)
    BY <1>1, <1>7, <2>1 DEF Moved
  <2>3. QED
    BY <1>1, <1>5, <2>2 DEF Reaches
<1>9. ASSUME NEW q \in Queues, HasParent(nx, q), Holder(nx, q) \in Below(nx, f)
      PROVE  Output(nx, st, q) = Output(nx, st1, q) \o st[f]
  <2>1. d \in Seq(Items) /\ full \in BOOLEAN
    BY <1>1, <1>7
  <2>2. Moved(Output(nx, st1, q), Output(nx, st, q), d, full)
    BY <1>3, <1>6, <1>8, <1>9, <2>1, OutputMoved
  <2>3. QED
    BY <1>7, <2>2 DEF Moved
<1>10. ASSUME NEW q \in Queues, HasParent(nx, q), Holder(nx, q) \notin Below(nx, f)
       PROVE  Output(nx, st, q) = Output(nx, st1, q)
  <2>1. PICK B : B = Below(nx, f)
    OBVIOUS
  <2>2. /\ B \in SUBSET Filters /\ (\A x \in Filters \ B : st[x] = st1[x])
        /\ st[q] = st1[q] /\ Holder(nx, q) \notin B
    BY <1>1, <1>4, <1>10, <2>1, FiltersAssumption
  <2>3. \A x \in B : \A j \in DOMAIN nx[x] : nx[x][j] \in Filters => nx[x][j] \in B
    BY <1>4, <2>1, BelowClosed
  <2>4. QED
    BY ONLY Forest(nx), IsPorts(nx), st \in Stores, st1 \in Stores, q \in Queues, HasParent(nx, q),
            <2>2, <2>3, OutputElsewhere
<1>11. QED
  BY <1>2, <1>9, <1>10 DEF HoldsTheEnd

(* The end of the message in f: what it holds goes on, and nothing is      *)
(* lost, doubled or put in another place.                                  *)
LEMMA FlushKeeps ==
  ASSUME PipeInv, NEW st \in Stores, NEW f \in Filters, NEW D, Cleaned(next, st, f, D),
         NEW st2, st2 = Flush(st, f)
  PROVE  /\ st2 \in Stores
         /\ \A x \in D \cup {f} \cup Passing : st2[x] = <<>>
         /\ \A x \in Filters \ Below(next, f) : st2[x] = st[x]
         /\ \A q \in Queues : HasParent(next, q) =>
              Output(next, st2, q) = Output(next, st, q) /\ Grows(st[q], st2[q])
         /\ \A q \in Queues : ~HasParent(next, q) => st2[q] = st[q]
<1>1. Forest(next) /\ IsPorts(next) /\ Acyclic(next)
  BY TreeType
<1>2. st2 \in Stores
  BY FlushType
<1>3. \A x \in Filters \cup Queues : st[x] \in Seq(Items) /\ st2[x] \in Seq(Items) /\ Grows(st[x], st[x])
  BY <1>2, GrowsAlong DEF Stores
<1>4. CASE Kind[f] # "hold"
  <2>1. f \in Passing /\ st2 = st
    BY <1>4 DEF Passing, Flush
  <2>2. \A x \in D \cup {f} \cup Passing : st2[x] = <<>>
    BY <2>1 DEF Cleaned
  <2>3. QED
    BY <1>2, <1>3, <2>1, <2>2
<1>5. CASE Kind[f] = "hold"
  <2>1. PICK I, R, d : I = Within(next, Passing, f) /\ R = ToSet(SentTo(f)) /\ d = st[f]
    OBVIOUS
  <2>2. /\ Passes(next, f, I, R)
        /\ I \subseteq Below(next, f) \cap ({f} \cup Passing)
        /\ R \cap Filters \subseteq Below(next, f) \ ({f} \cup Passing)
        /\ \A q \in Queues : q \in R => HasParent(next, q) /\ Holder(next, q) \in Below(next, f)
    BY <2>1, SendPasses
  <2>3. f \notin R /\ Below(next, f) \subseteq Filters /\ d \in Seq(Items)
    BY <1>1, <1>3, <2>1, <2>2, BelowType
  <2>4. st2 = [Received(st, SentTo(f), d) EXCEPT ![f] = <<>>]
    BY <1>5, <2>1 DEF Flush
  <2>5. /\ st2[f] = <<>>
        /\ \A x \in (Filters \cup Queues) \ {f} : st2[x] = IF x \in R THEN st[x] \o d ELSE st[x]
    BY <2>1, <2>4 DEF Received, Stores
  <2>6. PICK st1 : st1 = [st EXCEPT ![f] = <<>>]
    OBVIOUS
  <2>7. /\ st1 \in Stores /\ st1[f] = <<>>
        /\ \A x \in (Filters \cup Queues) \ {f} : st1[x] = st[x]
    BY <2>6 DEF Stores
  <2>8. /\ Cleaned(next, st1, f, D)
        /\ \A q \in Queues : HasParent(next, q) =>
              IF Holder(next, q) \in Below(next, f) THEN Output(next, st, q) = Output(next, st1, q) \o d
              ELSE Output(next, st, q) = Output(next, st1, q)
    <3>1. Cleaned(next, st1, f, D)
      BY ONLY <1>1, <2>6, <2>7, st \in Stores, f \in Filters, Cleaned(next, st, f, D), HeldIsLast
    <3>2. HoldsTheEnd(next, st, st1, f)
      BY ONLY <1>1, <2>6, <2>7, st \in Stores, f \in Filters, Cleaned(next, st, f, D), HeldIsLast
    <3>3. QED
      BY <2>1, <3>1, <3>2 DEF HoldsTheEnd
  <2>9. Empties(next, st1, f) /\ D \cap Below(next, f) = {}
    BY <1>1, <2>7, <2>8, CleanedAbove
  <2>10. \A x \in D \cup {f} \cup Passing : st2[x] = <<>>
    <3>1. \A x \in D \cup Passing : st[x] = <<>> /\ x \in Filters
      BY DEF Cleaned, Passing
    <3>2. \A x \in D \cup Passing : x \notin R
      BY <2>2, <2>9, <3>1
    <3>3. QED
      BY <2>5, <3>1, <3>2
  <2>11. Empties(next, st2, f)
    <3>1. Cleaned(next, st2, f, D)
      BY <2>10 DEF Cleaned
    <3>2. QED
      BY <1>1, <1>2, <3>1, CleanedAbove
  <2>12. Reaches(st1, st2, d, TRUE, I, R)
    <3>1. \A x \in I : st1[x] = <<>> /\ st2[x] = <<>>
      BY <2>2, <2>7, <2>8, <2>10 DEF Cleaned
    <3>2. \A x \in (Filters \cup Queues) \cap R : Moved(st1[x], st2[x], d, TRUE)
      BY <2>3, <2>5, <2>7 DEF Moved
    <3>3. \A x \in (Filters \cup Queues) \ R : st2[x] = st1[x]
      BY <2>3, <2>5, <2>7
    <3>4. QED
      BY <3>1, <3>2, <3>3 DEF Reaches
  <2>13. \A q \in Queues : q \notin Filters
    BY FiltersAssumption
  <2>14. ASSUME NEW q \in Queues, HasParent(next, q) PROVE Output(next, st2, q) = Output(next, st, q)
    <3>1. CASE Holder(next, q) \in Below(next, f)
      <4>1. PICK full : full = TRUE
        OBVIOUS
      <4>2. full \in BOOLEAN /\ Reaches(st1, st2, d, full, I, R)
        BY <2>12, <4>1
      <4>3. Moved(Output(next, st1, q), Output(next, st2, q), d, full)
        BY ONLY <1>1, <1>2, <2>2, <2>3, <2>7, <2>9, <2>11, <2>14, <3>1, <4>2, f \in Filters, OutputMoved
      <4>4. QED
        BY <2>8, <2>14, <3>1, <4>1, <4>3 DEF Moved
    <3>2. CASE Holder(next, q) \notin Below(next, f)
      <4>1. PICK B : B = Below(next, f)
        OBVIOUS
      <4>2. q \notin R /\ q # f
        BY <2>2, <2>13, <3>2
      <4>3. \A x \in Filters \ B : st2[x] = st1[x]
        BY <1>1, <2>2, <2>5, <2>7, <4>1
      <4>4. B \in SUBSET Filters /\ Holder(next, q) \notin B /\ st2[q] = st1[q]
        BY <2>3, <2>5, <2>7, <3>2, <4>1, <4>2
      <4>5. \A x \in B : \A j \in DOMAIN next[x] : next[x][j] \in Filters => next[x][j] \in B
        BY <1>1, <4>1, BelowClosed
      <4>6. Output(next, st2, q) = Output(next, st1, q)
        BY ONLY <1>1, <1>2, <2>7, <2>14, <4>3, <4>4, <4>5, OutputElsewhere
      <4>7. QED
        BY <2>8, <2>14, <3>2, <4>6
    <3>3. QED
      BY <3>1, <3>2
  <2>15. ASSUME NEW q \in Queues PROVE Grows(st[q], st2[q])
    <3>1. st2[q] = IF q \in R THEN st[q] \o d ELSE st[q]
      BY <2>5, <2>13
    <3>2. Grows(st[q], st[q]) /\ Grows(st[q], st[q] \o d)
      BY <1>3, <2>3, GrowsAlong
    <3>3. QED
      BY <3>1, <3>2
  <2>16. \A q \in Queues : ~HasParent(next, q) => st2[q] = st[q]
    BY <2>2, <2>5, <2>13
  <2>17. \A x \in Filters \ Below(next, f) : st2[x] = st[x]
    <3>1. f \in Below(next, f)
      BY <1>1, BelowType
    <3>2. QED
      BY <2>2, <2>5, <3>1
  <2>18. QED
    BY <1>2, <2>10, <2>14, <2>15, <2>16, <2>17
<1>6. QED
  BY <1>4, <1>5

(* The first n of those that are served.                                   *)
LEMMA FirstServed ==
  ASSUME NEW s, NEW n \in Nat, n <= Len(s), NEW V, s \in Seq(V)
  PROVE  ToSet(SubSeq(s, 1, n)) \subseteq ToSet(s)
<1>1. n <= Len(s) /\ Len(s) \in Nat
  OBVIOUS
<1>2. PICK t : t = SubSeq(s, 1, n)
  OBVIOUS
<1>3. DOMAIN t = 1 .. n /\ \A i \in 1 .. n : t[i] = s[i]
  BY <1>1, <1>2
<1>4. \A i \in 1 .. n : i \in DOMAIN s
  BY <1>1
<1>5. QED
  BY <1>2, <1>3, <1>4 DEF ToSet

(* What a filter sends to is filters and queues.                           *)
LEMMA SentToType ==
  ASSUME PipeInv, NEW f \in Filters
  PROVE  SentTo(f) \in Seq(Nodes)
<1>1. PICK P : P = Fringes(next, Passing)[f]
  OBVIOUS
<1>2. Passing \in SUBSET Filters
  BY DEF Passing
<1>3. Acyclic(next) /\ IsPorts(next)
  BY TreeType
<1>4. P \in Seq(Pairs)
  BY <1>1, <1>2, <1>3, FringePorts
<1>5. \A x \in Filters, j \in Nat :
            <<x, j>> \in ToSet(P) => x \in Within(next, Passing, f) /\ j \in DOMAIN next[x]
  BY <1>1, <1>2, <1>3, FringePorts
<1>6. \A i \in DOMAIN P : next[P[i][1]][P[i][2]] \in Nodes
  <2> SUFFICES ASSUME NEW i \in DOMAIN P PROVE next[P[i][1]][P[i][2]] \in Nodes
    OBVIOUS
  <2>1. P[i] \in Pairs /\ P[i] \in ToSet(P)
    BY <1>4, RangeOf DEF ToSet
  <2>2. PICK x \in Filters, j \in Nat : P[i] = <<x, j>>
    BY <2>1 DEF Pairs
  <2>3. j \in DOMAIN next[x]
    BY <1>5, <2>1, <2>2
  <2>4. QED
    BY <1>3, <2>2, <2>3 DEF IsPorts
<1>7. DOMAIN P = 1 .. Len(P) /\ Len(P) \in Nat
  BY <1>4
<1>8. SentTo(f) = [i \in 1 .. Len(P) |-> next[P[i][1]][P[i][2]]]
  BY <1>1, <1>7 DEF SentTo
<1>9. PICK W, k, g : W = Nodes /\ k = Len(P) /\ g = [i \in 1 .. Len(P) |-> next[P[i][1]][P[i][2]]]
  OBVIOUS
<1>10. k \in Nat /\ g \in [1 .. k -> W]
  BY <1>6, <1>7, <1>9
<1>11. g \in Seq(W)
  BY ONLY <1>10
<1>12. QED
  BY <1>8, <1>9, <1>11

(* What f, which holds nothing, has sent to all or to some of the places   *)
(* below it.                                                               *)
SentOn(a, b, f, D, e, full) ==
  /\ b \in Stores /\ Cleaned(next, b, f, D) /\ b[f] = <<>>
  /\ \A x \in Filters : b[x] = a[x] \/ (x \in Below(next, f) /\ x \notin Passing)
  /\ \A q \in Queues : HasParent(next, q) =>
       IF Holder(next, q) \in Below(next, f) THEN Moved(Output(next, a, q), Output(next, b, q), e, full)
       ELSE Output(next, b, q) = Output(next, a, q)
  /\ \A q \in Queues : Grows(a[q], b[q]) /\ (~HasParent(next, q) => b[q] = a[q])
(* That is what Received does.                                             *)
LEMMA SendKeeps ==
  ASSUME PipeInv, NEW a \in Stores, NEW f \in Filters, NEW D, Cleaned(next, a, f, D), a[f] = <<>>,
         NEW to, ToSet(to) \subseteq ToSet(SentTo(f)), NEW full \in BOOLEAN, full => to = SentTo(f),
         NEW e \in Seq(Items), NEW b, b = Received(a, to, e)
  PROVE  SentOn(a, b, f, D, e, full)
<1>1. Forest(next) /\ IsPorts(next) /\ Acyclic(next)
  BY TreeType
<1>2. b \in Stores
  BY ReceivedType
<1>3. \A x \in Filters \cup Queues :
        b[x] = (IF x \in ToSet(to) THEN a[x] \o e ELSE a[x]) /\ a[x] \in Seq(Items)
  BY DEF Received, Stores
<1>4. PICK I, R : I = Within(next, Passing, f) /\ R = ToSet(SentTo(f))
  OBVIOUS
<1>5. /\ Passes(next, f, I, R)
      /\ I \subseteq Below(next, f) \cap ({f} \cup Passing)
      /\ R \cap Filters \subseteq Below(next, f) \ ({f} \cup Passing)
      /\ \A q \in Queues : q \in R => HasParent(next, q) /\ Holder(next, q) \in Below(next, f)
  BY <1>4, SendPasses
<1>6. ToSet(to) \subseteq R /\ (full => ToSet(to) = R)
  BY <1>4
<1>7. Below(next, f) \subseteq Filters /\ D \cap Below(next, f) = {}
  BY <1>1, BelowType, CleanedAbove
<1>8. \A x \in D \cup {f} \cup Passing : x \in Filters /\ x \notin R /\ a[x] = <<>>
  BY <1>5, <1>7 DEF Cleaned, Passing
<1>9. \A x \in D \cup {f} \cup Passing : b[x] = <<>>
  BY <1>3, <1>6, <1>8
<1>10. Cleaned(next, b, f, D)
  BY <1>9 DEF Cleaned
<1>11. Empties(next, a, f) /\ Empties(next, b, f)
  BY <1>1, <1>2, <1>10, CleanedAbove
<1>12. Reaches(a, b, e, full, I, R)
  <2>1. \A x \in I : a[x] = <<>> /\ b[x] = <<>>
    BY <1>5, <1>8, <1>9
  <2>2. \A x \in (Filters \cup Queues) \cap R : Moved(a[x], b[x], e, full)
    BY <1>3, <1>6 DEF Moved
  <2>3. \A x \in (Filters \cup Queues) \ R : b[x] = a[x]
    BY <1>3, <1>6
  <2>4. QED
    BY <2>1, <2>2, <2>3 DEF Reaches
<1>13. \A q \in Queues : q \notin Filters
  BY FiltersAssumption
<1>14. ASSUME NEW q \in Queues, HasParent(next, q), Holder(next, q) \in Below(next, f)
       PROVE  Moved(Output(next, a, q), Output(next, b, q), e, full)
  BY ONLY <1>1, <1>2, <1>5, <1>11, <1>12, <1>14, a \in Stores, e \in Seq(Items), full \in BOOLEAN,
          f \in Filters, OutputMoved
<1>15. ASSUME NEW q \in Queues, HasParent(next, q), Holder(next, q) \notin Below(next, f)
       PROVE  Output(next, b, q) = Output(next, a, q)
  <2>1. PICK B : B = Below(next, f)
    OBVIOUS
  <2>2. B \in SUBSET Filters /\ Holder(next, q) \notin B /\ b[q] = a[q]
    BY <1>3, <1>5, <1>6, <1>7, <1>15, <2>1
  <2>3. \A x \in Filters \ B : b[x] = a[x]
    BY <1>3, <1>5, <1>6, <2>1
  <2>4. \A x \in B : \A j \in DOMAIN next[x] : next[x][j] \in Filters => next[x][j] \in B
    BY <1>1, <2>1, BelowClosed
  <2>5. QED
    BY ONLY <1>1, <1>2, <1>15, <2>2, <2>3, <2>4, a \in Stores, OutputElsewhere
<1>16. ASSUME NEW q \in Queues PROVE Grows(a[q], b[q]) /\ (~HasParent(next, q) => b[q] = a[q])
  <2>1. Grows(a[q], a[q]) /\ Grows(a[q], a[q] \o e)
    BY <1>3, GrowsAlong
  <2>2. QED
    BY <1>3, <1>5, <1>6, <2>1
<1>17. \A x \in Filters : b[x] = a[x] \/ (x \in Below(next, f) /\ x \notin Passing)
  BY <1>3, <1>5, <1>6
<1>18. QED
  BY <1>2, <1>9, <1>10, <1>14, <1>15, <1>16, <1>17 DEF SentOn

(* Three pieces of data joined either way are the same.                    *)
LEMMA JoiningAssociates ==
  \A s1, s2, s3 \in Seq(Items) : (s1 \o s2) \o s3 = s1 \o (s2 \o s3)
  BY ConcatAssociative

(* r is b and then a beginning of d.                                       *)
HasBeginning(b, d, r) == \E j \in 0 .. Len(d) : r = b \o SubSeq(d, 1, j)

(* Two pieces of what f held are the beginning of it.                      *)
LEMMA PiecesJoin ==
  ASSUME NEW b \in Seq(Items), NEW d \in Seq(Items), NEW s \in 0 .. Len(d), NEW t \in 0 .. Len(d),
         NEW p, p = SubSeq(d, 1, s), NEW e, e = SubSeq(d, s + 1, t),
         NEW r, Moved(b \o p, r, e, FALSE)
  PROVE  HasBeginning(b, d, r)
<1>1. PICK V : V = Items
  OBVIOUS
<1>2. /\ b \in Seq(V) /\ d \in Seq(V) /\ Len(d) \in Nat
      /\ SubSeq(d, 1, s) \in Seq(V) /\ SubSeq(d, s + 1, t) \in Seq(V)
  BY <1>1, PartsOf
<1>3. CASE r = b \o SubSeq(d, 1, s)
  BY <1>3 DEF HasBeginning
<1>4. CASE r = (b \o SubSeq(d, 1, s)) \o SubSeq(d, s + 1, t)
  <2>1. r = b \o (SubSeq(d, 1, s) \o SubSeq(d, s + 1, t))
    <3>1. b \in Seq(Items) /\ SubSeq(d, 1, s) \in Seq(Items) /\ SubSeq(d, s + 1, t) \in Seq(Items)
      BY <1>1, <1>2
    <3>2. QED
      BY ONLY <1>4, <3>1, JoiningAssociates
  <2>2. CASE s <= t
    <3>1. 1 \in 1 .. Len(d) + 1 /\ s \in 1 - 1 .. Len(d) /\ t \in s .. Len(d)
      BY <1>2, <2>2
    <3>2. SubSeq(d, 1, s) \o SubSeq(d, s + 1, t) = SubSeq(d, 1, t)
      BY ONLY <1>2, <3>1, ConcatAdjacentSubSeq
    <3>3. QED
      BY <2>1, <3>2 DEF HasBeginning
  <2>3. CASE ~(s <= t)
    <3>1. SubSeq(d, s + 1, t) = <<>>
      BY ONLY <1>2, <2>3, s \in 0 .. Len(d), t \in 0 .. Len(d), SubSeqEmpty
    <3>2. SubSeq(d, 1, s) \o <<>> = SubSeq(d, 1, s)
      BY ONLY <1>2, ConcatEmptySeq
    <3>3. QED
      BY <2>1, <3>1, <3>2 DEF HasBeginning
  <2>4. QED
    BY <2>2, <2>3
<1>5. QED
  BY <1>3, <1>4, p = SubSeq(d, 1, s), e = SubSeq(d, s + 1, t) DEF Moved, HasBeginning

(* Behind c, which a queue contains, comes some of what is owed to it; of  *)
(* the rest d a beginning and an end.                                      *)
KeepsParts(c, a, b) ==
  \E u, d \in Seq(Items) : \E j, k \in 0 .. Len(d) :
    a = (c \o u) \o d /\ b = (c \o u) \o (SubSeq(d, 1, j) \o SubSeq(d, k + 1, Len(d)))
(* That is what is left of the data in f when its end_msg throws.          *)
LEMMA PartsKeep ==
  ASSUME PipeInv, NEW st \in Stores, NEW f \in Filters, NEW D, Cleaned(next, st, f, D),
         NEW st2 \in PartlyFlushed(st, f)
  PROVE  /\ st2 \in Stores
         /\ \A x \in Filters : st2[x] = <<>> \/ st[x] # <<>> \/ (x \in Below(next, f) /\ x \notin Passing)
         /\ \A q \in Queues : HasParent(next, q) =>
              Grows(st[q], st2[q]) /\ KeepsParts(st[q], Output(next, st, q), Output(next, st2, q))
         /\ \A q \in Queues : ~HasParent(next, q) => st2[q] = st[q]
<1>1. Forest(next) /\ IsPorts(next) /\ Acyclic(next)
  BY TreeType
<1>2. PICK d, to, V : d = st[f] /\ to = SentTo(f) /\ V = Items
  OBVIOUS
<1>3. d \in Seq(Items) /\ Len(d) \in Nat
  BY <1>2 DEF Stores
<1>4. PICK m \in 0 .. Len(to), s \in 0 .. Len(d), t \in 0 .. Len(d), g \in 0 .. Len(d) :
        st2 = [Sent(st, to, m, d, s, t) EXCEPT ![f] = SubSeq(d, g + 1, Len(d))]
  <2>1. st2 \in {[Sent(st, to, mm, d, ss, tt) EXCEPT ![f] = SubSeq(d, gg + 1, Len(d))] :
                    mm \in 0 .. Len(to), ss \in 0 .. Len(d), tt \in 0 .. Len(d), gg \in 0 .. Len(d)}
    BY ONLY <1>2, st2 \in PartlyFlushed(st, f) DEF PartlyFlushed
  <2>2. QED
    BY ONLY <2>1
<1>5. PICK e1, e2, e3 : e1 = SubSeq(d, 1, s) /\ e2 = SubSeq(d, s + 1, t) /\ e3 = SubSeq(d, g + 1, Len(d))
  OBVIOUS
<1>6. e1 \in Seq(Items) /\ e2 \in Seq(Items) /\ e3 \in Seq(Items)
  <2>1. Len(d) \in 0 .. Len(d)
    BY <1>3
  <2>2. QED
    BY <1>3, <1>5, <2>1, PartsOf
<1>7. PICK st1, r1, r2, to2 :
        /\ st1 = [st EXCEPT ![f] = <<>>] /\ to2 = SubSeq(to, 1, m)
        /\ r1 = Received(st1, to, e1) /\ r2 = Received(r1, to2, e2)
  OBVIOUS
<1>8. /\ st1 \in Stores /\ st1[f] = <<>>
      /\ \A x \in (Filters \cup Queues) \ {f} : st1[x] = st[x]
  <2>1. <<>> \in Seq(Items)
    OBVIOUS
  <2>2. QED
    BY <1>7, <2>1 DEF Stores
<1>9. Cleaned(next, st1, f, D) /\ HoldsTheEnd(next, st, st1, f)
  BY ONLY <1>1, <1>7, <1>8, st \in Stores, f \in Filters, Cleaned(next, st, f, D), HeldIsLast
<1>10. ToSet(to) \subseteq ToSet(SentTo(f)) /\ ToSet(to2) \subseteq ToSet(SentTo(f))
  <2>1. to \in Seq(Nodes)
    BY <1>2, SentToType
  <2>2. ToSet(to2) \subseteq ToSet(to)
    <3>1. m \in Nat /\ m <= Len(to)
      BY <2>1
    <3>2. QED
      BY <1>7, <2>1, <3>1, FirstServed
  <2>3. QED
    BY <1>2, <2>2
<1>11. /\ r1 \in Stores /\ Cleaned(next, r1, f, D) /\ r1[f] = <<>>
       /\ \A x \in Filters : r1[x] = st1[x] \/ (x \in Below(next, f) /\ x \notin Passing)
       /\ \A q \in Queues : HasParent(next, q) =>
            IF Holder(next, q) \in Below(next, f) THEN Moved(Output(next, st1, q), Output(next, r1, q), e1, TRUE)
            ELSE Output(next, r1, q) = Output(next, st1, q)
       /\ \A q \in Queues : Grows(st1[q], r1[q]) /\ (~HasParent(next, q) => r1[q] = st1[q])
  <2>1. PICK full : full = TRUE
    OBVIOUS
  <2>2. full \in BOOLEAN /\ (full => to = SentTo(f))
    BY <1>2, <2>1
  <2>3. st1 \in Stores /\ Cleaned(next, st1, f, D) /\ st1[f] = <<>>
    BY <1>8, <1>9
  <2>4. e1 \in Seq(Items) /\ ToSet(to) \subseteq ToSet(SentTo(f)) /\ r1 = Received(st1, to, e1)
    BY <1>6, <1>7, <1>10
  <2>5. SentOn(st1, r1, f, D, e1, full)
    BY ONLY PipeInv, f \in Filters, <2>2, <2>3, <2>4, SendKeeps
  <2>6. QED
    BY ONLY <2>1, <2>5 DEF SentOn
<1>12. /\ r2 \in Stores /\ Cleaned(next, r2, f, D) /\ r2[f] = <<>>
       /\ \A x \in Filters : r2[x] = r1[x] \/ (x \in Below(next, f) /\ x \notin Passing)
       /\ \A q \in Queues : HasParent(next, q) =>
            IF Holder(next, q) \in Below(next, f) THEN Moved(Output(next, r1, q), Output(next, r2, q), e2, FALSE)
            ELSE Output(next, r2, q) = Output(next, r1, q)
       /\ \A q \in Queues : Grows(r1[q], r2[q]) /\ (~HasParent(next, q) => r2[q] = r1[q])
  <2>1. PICK full : full = FALSE
    OBVIOUS
  <2>2. full \in BOOLEAN /\ (full => to2 = SentTo(f))
    BY <2>1
  <2>3. r1 \in Stores /\ Cleaned(next, r1, f, D) /\ r1[f] = <<>>
    BY <1>8, <1>9, <1>11
  <2>4. e2 \in Seq(Items) /\ ToSet(to2) \subseteq ToSet(SentTo(f)) /\ r2 = Received(r1, to2, e2)
    BY <1>6, <1>7, <1>10
  <2>5. SentOn(r1, r2, f, D, e2, full)
    BY ONLY PipeInv, f \in Filters, <2>2, <2>3, <2>4, SendKeeps
  <2>6. QED
    BY ONLY <2>1, <2>5 DEF SentOn
<1>13. /\ st2 \in Stores /\ st2[f] = e3
       /\ \A x \in (Filters \cup Queues) \ {f} : st2[x] = r2[x]
       /\ r2 = [st2 EXCEPT ![f] = <<>>]
  <2>1. PICK w : w = Sent(st, to, m, d, s, t)
    OBVIOUS
  <2>2. w \in Stores
    BY <1>3, <2>1, SentType
  <2>3. st2 = [w EXCEPT ![f] = e3]
    BY <1>4, <1>5, <2>1
  <2>4. st2 \in Stores /\ st2[f] = e3 /\ \A x \in (Filters \cup Queues) \ {f} : st2[x] = w[x]
    BY <1>6, <2>2, <2>3 DEF Stores
  <2>5. w = Received(Received(st, to, e1), to2, e2)
    BY <1>5, <1>7, <2>1 DEF Sent
  <2>6. DOMAIN st = Filters \cup Queues /\ DOMAIN st1 = Filters \cup Queues
    BY <1>8 DEF Stores
  <2>7. \A x \in (Filters \cup Queues) \ {f} : Received(st, to, e1)[x] = r1[x]
    BY <1>7, <1>8, <2>6 DEF Received
  <2>8. DOMAIN Received(st, to, e1) = Filters \cup Queues /\ DOMAIN r1 = Filters \cup Queues
    BY <1>7, <2>6 DEF Received
  <2>9. \A x \in (Filters \cup Queues) \ {f} : w[x] = r2[x]
    BY <1>7, <2>5, <2>7, <2>8 DEF Received
  <2>10. r2 = [st2 EXCEPT ![f] = <<>>]
    BY <1>12, <2>4, <2>9 DEF Stores
  <2>11. QED
    BY <2>4, <2>9, <2>10
<1>14. Cleaned(next, st2, f, D)
  <2>1. \A x \in D \cup Passing : r2[x] = <<>> /\ x \in Filters
    BY <1>12 DEF Cleaned, Passing
  <2>2. f \in Passing => e3 = <<>>
    <3>1. ASSUME f \in Passing PROVE d = <<>>
      BY <1>2, <3>1 DEF Cleaned
    <3>2. d = <<>> => Len(d) = 0 /\ g = 0
      OBVIOUS
    <3>3. g \in Nat /\ g + 1 \in Int /\ Len(d) \in Int
      BY <1>3
    <3>4. Len(d) = 0 /\ g = 0 => SubSeq(d, g + 1, Len(d)) = <<>>
      BY ONLY <3>3, SubSeqEmpty
    <3>5. QED
      BY <1>5, <3>1, <3>2, <3>4
  <2>3. ASSUME NEW x \in D \cup Passing PROVE st2[x] = <<>>
    <3>1. CASE x = f
      BY <1>12, <1>13, <2>2, <3>1 DEF Cleaned
    <3>2. CASE x # f
      BY <1>13, <2>1, <3>2
    <3>3. QED
      BY <3>1, <3>2
  <2>4. QED
    BY <1>12, <2>3 DEF Cleaned
<1>15. HoldsTheEnd(next, st2, r2, f)
  BY ONLY <1>1, <1>12, <1>13, <1>14, f \in Filters, HeldIsLast
<1>16. \A q \in Queues : q # f
  BY FiltersAssumption
<1>17. ASSUME NEW q \in Queues PROVE Grows(st[q], st2[q]) /\ (~HasParent(next, q) => st2[q] = st[q])
  <2>1. st1[q] = st[q] /\ st2[q] = r2[q] /\ st[q] \in Seq(Items)
    BY <1>8, <1>13, <1>16 DEF Stores
  <2>2. Grows(st[q], r1[q]) /\ Grows(r1[q], r2[q])
    BY <1>11, <1>12, <2>1
  <2>3. Grows(st[q], r2[q])
    BY <2>1, <2>2, GrowsAlong
  <2>4. QED
    BY <1>11, <1>12, <2>1, <2>3
<1>18. ASSUME NEW q \in Queues, HasParent(next, q)
       PROVE  KeepsParts(st[q], Output(next, st, q), Output(next, st2, q))
  <2>1. PICK u, c : u = Held(next, st1)[Holder(next, q)] /\ c = st[q]
    OBVIOUS
  <2>2. u \in Seq(V) /\ c \in Seq(V)
    <3>1. Holder(next, q) \in Filters
      BY <1>18, HolderIs
    <3>2. Held(next, st1) \in Contents
      BY <1>1, <1>8, HeldEquation
    <3>3. QED
      BY <1>2, <2>1, <3>1, <3>2 DEF Contents, Stores
  <2>3. c \o u \in Seq(V)
    BY ONLY <2>2, ConcatRange
  <2>4. Output(next, st1, q) = c \o u
    BY <1>8, <1>16, <2>1 DEF Output
  <2>5. PICK b, o, o2 : b = c \o u /\ o = Output(next, st, q) /\ o2 = Output(next, st2, q)
    OBVIOUS
  <2>6. CASE Holder(next, q) \in Below(next, f)
    <3>1. o = b \o d
      BY <1>2, <1>9, <1>18, <2>4, <2>5, <2>6 DEF HoldsTheEnd
    <3>2. Output(next, r1, q) = b \o e1
      BY <1>11, <1>18, <2>4, <2>5, <2>6 DEF Moved
    <3>11. PICK r : r = Output(next, r2, q)
      OBVIOUS
    <3>3. Moved(b \o e1, r, e2, FALSE)
      BY <1>5, <1>12, <1>18, <2>6, <3>2, <3>11
    <3>4. b \in Seq(Items)
      BY <1>2, <2>3, <2>5
    <3>5. PICK j \in 0 .. Len(d) : Output(next, r2, q) = b \o SubSeq(d, 1, j)
      <4>1. d \in Seq(Items) /\ e1 = SubSeq(d, 1, s) /\ e2 = SubSeq(d, s + 1, t)
        BY <1>3, <1>5
      <4>2. HasBeginning(b, d, r)
        BY ONLY <3>3, <3>4, <4>1, s \in 0 .. Len(d), t \in 0 .. Len(d), PiecesJoin
      <4>3. QED
        BY ONLY <3>11, <4>2 DEF HasBeginning
    <3>6. o2 = (b \o SubSeq(d, 1, j)) \o e3
      BY <1>13, <1>15, <1>18, <2>5, <2>6, <3>5 DEF HoldsTheEnd
    <3>7. SubSeq(d, 1, j) \in Seq(Items)
      BY <1>3, PartsOf
    <3>12. e3 \in Seq(Items)
      BY <1>6
    <3>8. o2 = b \o (SubSeq(d, 1, j) \o e3)
      BY ONLY <3>4, <3>6, <3>7, <3>12, JoiningAssociates
    <3>9. u \in Seq(Items)
      BY <1>2, <2>2
    <3>10. QED
      BY <1>3, <1>5, <2>1, <2>5, <3>1, <3>8, <3>9 DEF KeepsParts
  <2>7. CASE Holder(next, q) \notin Below(next, f)
    <3>1. o = b
      BY <1>9, <1>18, <2>4, <2>5, <2>7 DEF HoldsTheEnd
    <3>2. o2 = b
      <4>1. Output(next, st2, q) = Output(next, r2, q)
        BY <1>15, <1>18, <2>7 DEF HoldsTheEnd
      <4>2. QED
        BY <1>11, <1>12, <1>18, <2>4, <2>5, <2>7, <4>1
    <3>3. PICK z : z = <<>>
      OBVIOUS
    <3>4. z \in Seq(Items) /\ Len(z) = 0 /\ 0 \in 0 .. Len(z)
      BY <3>3
    <3>5. SubSeq(z, 1, 0) = <<>> /\ SubSeq(z, 0 + 1, Len(z)) = <<>> /\ <<>> \o <<>> = <<>>
      BY ONLY <3>4, SubSeqEmpty
    <3>6. b \o z = b
      BY ONLY <2>3, <2>5, <3>3, ConcatEmptySeq
    <3>7. b \o (SubSeq(z, 1, 0) \o SubSeq(z, 0 + 1, Len(z))) = b
      BY <3>3, <3>5, <3>6
    <3>8. u \in Seq(Items)
      BY <1>2, <2>2
    <3>9. \E j, k \in 0 .. Len(z) : o = b \o z /\ o2 = b \o (SubSeq(z, 1, j) \o SubSeq(z, k + 1, Len(z)))
      BY <3>1, <3>2, <3>4, <3>6, <3>7
    <3>10. QED
      BY ONLY <2>1, <2>5, <3>4, <3>8, <3>9 DEF KeepsParts
  <2>8. QED
    BY <2>6, <2>7
<1>19. ASSUME NEW x \in Filters
       PROVE  st2[x] = <<>> \/ st[x] # <<>> \/ (x \in Below(next, f) /\ x \notin Passing)
  <2>1. CASE x = f
    <3>1. f \in Below(next, f)
      BY <1>1, BelowType
    <3>2. f \in Passing => st2[f] = <<>>
      BY <1>14 DEF Cleaned
    <3>3. QED
      BY <2>1, <3>1, <3>2
  <2>2. CASE x # f
    BY <1>8, <1>11, <1>12, <1>13, <2>2
  <2>3. QED
    BY <2>1, <2>2
<1>20. QED
  BY <1>13, <1>17, <1>18, <1>19

(* Each filter of a sequence comes after one that leads to it, or f does.  *)
Led(nx, f, s) ==
  \A i \in DOMAIN s : \E y \in {f} \cup {s[h] : h \in 1 .. i - 1} : \E j \in DOMAIN nx[y] : nx[y][j] = s[i]
(* That is so for two such sequences put together.                         *)
LEMMA LedJoins ==
  ASSUME NEW nx, NEW f \in Filters, NEW a \in Seq(Filters), NEW b \in Seq(Filters), Led(nx, f, a), Led(nx, f, b)
  PROVE  Led(nx, f, a \o b)
<1>1. PICK c, V : c = a \o b /\ V = Filters
  OBVIOUS
<1>2. a \in Seq(V) /\ b \in Seq(V)
  BY <1>1
<1>3. /\ Len(c) = Len(a) + Len(b) /\ c \in Seq(V)
      /\ \A i \in 1 .. Len(a) : c[i] = a[i]
      /\ \A i \in 1 .. Len(b) : c[Len(a) + i] = b[i]
      /\ Len(a) \in Nat /\ Len(b) \in Nat
  BY ONLY <1>1, <1>2
<1>4. SUFFICES ASSUME NEW i \in DOMAIN c
               PROVE  \E y \in {f} \cup {c[h] : h \in 1 .. i - 1} : \E j \in DOMAIN nx[y] : nx[y][j] = c[i]
  BY <1>1 DEF Led
<1>5. i \in 1 .. Len(a) + Len(b)
  BY <1>3
<1>6. CASE i \in 1 .. Len(a)
  <2>1. PICK y \in {f} \cup {a[h] : h \in 1 .. i - 1} : \E j \in DOMAIN nx[y] : nx[y][j] = a[i]
    BY <1>6 DEF Led
  <2>2. \A h \in 1 .. i - 1 : h \in 1 .. Len(a)
    BY <1>3, <1>6
  <2>3. y \in {f} \cup {c[h] : h \in 1 .. i - 1}
    BY <1>3, <2>1, <2>2
  <2>4. c[i] = a[i]
    BY <1>3, <1>6
  <2>5. QED
    BY <2>1, <2>3, <2>4
<1>7. CASE i \notin 1 .. Len(a)
  <2>1. PICK k : k = i - Len(a)
    OBVIOUS
  <2>2. k \in 1 .. Len(b) /\ i = Len(a) + k /\ k \in Nat
    BY <1>3, <1>5, <1>7, <2>1
  <2>3. PICK y \in {f} \cup {b[h] : h \in 1 .. k - 1} : \E j \in DOMAIN nx[y] : nx[y][j] = b[k]
    BY <2>2 DEF Led
  <2>4. \A h \in 1 .. k - 1 : h \in 1 .. Len(b) /\ Len(a) + h \in 1 .. i - 1
    BY <1>3, <2>2
  <2>5. \A h \in 1 .. k - 1 : b[h] = c[Len(a) + h]
    BY <1>3, <2>4
  <2>6. y \in {f} \cup {c[h] : h \in 1 .. i - 1}
    BY <2>3, <2>4, <2>5
  <2>7. c[i] = b[k]
    BY <1>3, <2>2
  <2>8. QED
    BY <2>3, <2>6, <2>7
<1>8. QED
  BY <1>6, <1>7

(* Each filter of a sequence but the first comes after one that leads to   *)
(* it.                                                                     *)
Follows(nx, c) ==
  \A i \in DOMAIN c \ {1} :
    \E y \in {c[h] : h \in 1 .. i - 1} : \E j \in DOMAIN nx[y] : nx[y][j] = c[i]
(* So is a walk from g.                                                    *)
LEMMA LedDown ==
  ASSUME NEW nx, NEW g \in Filters, NEW r \in Seq(Filters), Led(nx, g, r), NEW c, c = <<g>> \o r
  PROVE  /\ c \in Seq(Filters) /\ c[1] = g
         /\ Follows(nx, c)
<1>1. PICK V : V = Filters
  OBVIOUS
<1>2. r \in Seq(V) /\ g \in V
  BY <1>1
<1>3. /\ Len(c) = 1 + Len(r) /\ c \in Seq(V) /\ c[1] = g
      /\ \A i \in 1 .. Len(r) : c[1 + i] = r[i]
      /\ Len(r) \in Nat
  BY ONLY <1>2, c = <<g>> \o r
<1>4. SUFFICES ASSUME NEW i \in DOMAIN c, i # 1
               PROVE  \E y \in {c[h] : h \in 1 .. i - 1} : \E j \in DOMAIN nx[y] : nx[y][j] = c[i]
  BY <1>1, <1>3 DEF Follows
<1>5. PICK k : k = i - 1
  OBVIOUS
<1>6. k \in 1 .. Len(r) /\ i = 1 + k /\ k \in Nat
  BY <1>3, <1>4, <1>5
<1>7. PICK y \in {g} \cup {r[h] : h \in 1 .. k - 1} : \E j \in DOMAIN nx[y] : nx[y][j] = r[k]
  BY <1>6 DEF Led
<1>8. \A h \in 1 .. k - 1 : h \in 1 .. Len(r) /\ 1 + h \in 1 .. i - 1
  BY <1>3, <1>6
<1>9. 1 \in 1 .. i - 1
  BY <1>6
<1>10. \A h \in 1 .. k - 1 : r[h] = c[1 + h]
  BY <1>3, <1>8
<1>11. y \in {c[h] : h \in 1 .. i - 1}
  BY <1>3, <1>7, <1>8, <1>9, <1>10
<1>12. c[i] = r[k]
  BY <1>3, <1>6
<1>13. QED
  BY <1>7, <1>11, <1>12

(* finish_msg comes to a filter after it has been in all that are above.   *)
LEMMA PreorderOrdered ==
  ASSUME NEW nx, Acyclic(nx), IsPorts(nx), NEW f \in Filters
  PROVE  Preorders(nx)[f][1] = f /\ Follows(nx, Preorders(nx)[f])
<1> DEFINE Walk(g) == \E r \in Seq(Filters) : Preorders(nx)[g] = <<g>> \o r /\ Led(nx, g, r)
<1>1. PICK T : T = {g \in Filters : ~Walk(g)}
  OBVIOUS
<1>0. SUFFICES T = {}
  <2>1. PICK r \in Seq(Filters) : Preorders(nx)[f] = <<f>> \o r /\ Led(nx, f, r)
    BY <1>0, <1>1
  <2>2. QED
    BY <2>1, LedDown
<1> SUFFICES ASSUME T # {} PROVE FALSE
  OBVIOUS
<1>2. PICK g \in T : \A j \in DOMAIN nx[g] : nx[g][j] \notin T
  BY <1>1 DEF Acyclic
<1>3. PICK n, w, s : n = Len(nx[g]) /\ w = Preorders(nx) /\ s = Parts(w, nx, g)
  OBVIOUS
<1>4. g \in Filters /\ w \in [Filters -> Seq(Filters)] /\ w[g] = <<g>> \o FlattenSeq(s)
  BY <1>1, <1>3, PreorderEquation
<1>5. /\ n \in Nat /\ DOMAIN nx[g] = 1 .. n /\ s \in [1 .. n -> Seq(Filters)]
      /\ \A j \in 1 .. n : s[j] = IF nx[g][j] \in Filters THEN w[nx[g][j]] ELSE <<>>
  BY <1>3, <1>4, PartsType
<1>6. PICK W : W = {t \in Seq(Filters) : Led(nx, g, t)}
  OBVIOUS
<1>7. W \in SUBSET Seq(Filters) /\ <<>> \in W
  <2>1. <<>> \in Seq(Filters) /\ DOMAIN <<>> = {}
    OBVIOUS
  <2>2. Led(nx, g, <<>>)
    BY <2>1 DEF Led
  <2>3. QED
    BY <1>6, <2>1, <2>2
<1>8. \A a, b \in W : a \o b \in W
  <2> SUFFICES ASSUME NEW a \in W, NEW b \in W PROVE a \o b \in W
    OBVIOUS
  <2>1. a \in Seq(Filters) /\ b \in Seq(Filters) /\ Led(nx, g, a) /\ Led(nx, g, b)
    BY <1>6
  <2>2. a \o b \in Seq(Filters)
    BY ONLY <2>1, ConcatRange
  <2>3. Led(nx, g, a \o b)
    BY <1>4, <2>1, LedJoins
  <2>4. QED
    BY <1>6, <2>2, <2>3
<1>9. ASSUME NEW j \in 1 .. n PROVE s[j] \in W
  <2>1. CASE nx[g][j] \notin Filters
    BY <1>5, <1>7, <2>1
  <2>2. CASE nx[g][j] \in Filters
    <3>1. PICK x : x = nx[g][j]
      OBVIOUS
    <3>2. x \in Filters /\ x \notin T /\ s[j] = w[x] /\ s[j] \in Seq(Filters)
      BY <1>2, <1>5, <2>2, <3>1
    <3>3. PICK r \in Seq(Filters) : w[x] = <<x>> \o r /\ Led(nx, x, r)
      BY <1>1, <1>3, <3>2
    <3>4. \E k \in DOMAIN nx[g] : nx[g][k] = x
      BY <1>5, <3>1
    <3>5. PICK c : c = <<x>> \o r
      OBVIOUS
    <3>6. /\ c[1] = x
          /\ Follows(nx, c)
      <4>1. x \in Filters /\ r \in Seq(Filters) /\ Led(nx, x, r)
        BY <3>2, <3>3
      <4>2. c[1] = x
        BY ONLY <4>1, <3>5, LedDown
      <4>3. Follows(nx, c)
        BY ONLY <4>1, <3>5, LedDown
      <4>4. QED
        BY <4>2, <4>3
    <3>7. Led(nx, g, c)
      BY <3>4, <3>6 DEF Led, Follows
    <3>8. QED
      BY <1>6, <3>2, <3>3, <3>5, <3>7
  <2>3. QED
    BY <2>1, <2>2
<1>10. FlattenSeq(s) \in W
  <2>1. PICK V : V = Filters
    OBVIOUS
  <2>2. s \in [1 .. n -> W]
    BY <1>5, <1>9
  <2>3. W \in SUBSET Seq(V)
    BY <1>7, <2>1
  <2>4. QED
    BY ONLY <1>5, <1>7, <1>8, <2>2, <2>3, FlattenClosed
<1>11. QED
  BY <1>1, <1>2, <1>3, <1>4, <1>6, <1>10

(* The order in which finish_msg comes to the filters of the pipe.         *)
LEMMA WalkOrder ==
  ASSUME PipeInv, pipe # Null, NEW P, P = Preorder(next, pipe)
  PROVE  /\ P \in Seq(Filters) /\ ToSet(P) = Below(next, pipe)
         /\ \A i, k \in 1 .. Len(P) : P[i] = P[k] => i = k
         /\ \A k \in 1 .. Len(P) : HasParent(next, P[k]) => \E h \in 1 .. k - 1 : Holder(next, P[k]) = P[h]
<1>1. pipe \in Filters /\ P = Preorders(next)[pipe] /\ ~HasParent(next, pipe)
  BY DEF PipeInv, TypeOK, Preorder, RootsInv
<1>2. Forest(next) /\ Acyclic(next) /\ OneParent(next) /\ IsPorts(next)
  BY TreeType
<1>3. P \in Seq(Filters) /\ DOMAIN P = 1 .. Len(P)
  BY PreorderType
<1>4. IsInjective(P)
  BY <1>1, <1>2, PreorderInjective
<1>5. \A i, k \in 1 .. Len(P) : P[i] = P[k] => i = k
  BY <1>3, <1>4 DEF IsInjective
<1>6. P[1] = pipe /\ Follows(next, P)
  BY <1>1, <1>2, PreorderOrdered
<1>7. ASSUME NEW k \in 1 .. Len(P), HasParent(next, P[k])
      PROVE  \E h \in 1 .. k - 1 : Holder(next, P[k]) = P[h]
  <2>1. k # 1
    BY <1>1, <1>6, <1>7
  <2>2. PICK y \in {P[h] : h \in 1 .. k - 1} : \E j \in DOMAIN next[y] : next[y][j] = P[k]
    BY <1>3, <1>6, <2>1 DEF Follows
  <2>3. PICK h \in 1 .. k - 1 : y = P[h]
    BY <2>2
  <2>4. h \in 1 .. Len(P)
    BY <1>3
  <2>5. y \in Filters /\ P[k] # Null
    BY <1>3, <2>3, <2>4, FiltersAssumption
  <2>6. Holder(next, P[k]) = y
    BY <1>2, <2>2, <2>5, OnlyHolder
  <2>7. QED
    BY <2>3, <2>6
<1>8. ToSet(P) = Below(next, pipe)
  BY <1>1 DEF Below
<1>9. QED
  BY <1>3, <1>5, <1>7, <1>8

(* What can be read, or will be when the message ends, is what it was.     *)
SameOutput(st) ==
  /\ \A q \in Queues : HasParent(next, q) =>
       Output(next, st, q) = Output(next, store, q) /\ Grows(store[q], st[q])
  /\ \A q \in Queues : ~HasParent(next, q) => st[q] = store[q]
(* The first n filters of the pipe have ended the message.                 *)
Finished(st, P, n) ==
  /\ st \in Stores
  /\ \A x \in {P[i] : i \in 1 .. n} \cup Passing \cup (Filters \ ToSet(P)) : st[x] = <<>>
  /\ SameOutput(st)
(* Then the next filter has all that is above it cleaned.                  *)
LEMMA NextIsCleaned ==
  ASSUME PipeInv, pipe # Null, NEW P, P = Preorder(next, pipe), NEW n \in 1 .. Len(P),
         NEW st, Finished(st, P, n - 1)
  PROVE  P[n] \in Filters /\ Cleaned(next, st, P[n], {P[i] : i \in 1 .. n - 1})
<1>1. /\ P \in Seq(Filters)
      /\ \A i, k \in 1 .. Len(P) : P[i] = P[k] => i = k
      /\ \A k \in 1 .. Len(P) : HasParent(next, P[k]) => \E h \in 1 .. k - 1 : Holder(next, P[k]) = P[h]
  BY WalkOrder
<1>2. \A i \in 1 .. n - 1 : i \in 1 .. Len(P) /\ i # n
  BY <1>1
<1>3. PICK D : D = {P[i] : i \in 1 .. n - 1}
  OBVIOUS
<1>4. D \subseteq Filters /\ P[n] \notin D /\ P[n] \in Filters
  BY <1>1, <1>2, <1>3
<1>5. ASSUME NEW k \in 1 .. n, HasParent(next, P[k]) PROVE Holder(next, P[k]) \in D
  <2>1. k \in 1 .. Len(P)
    BY <1>1
  <2>2. PICK h \in 1 .. k - 1 : Holder(next, P[k]) = P[h]
    BY <1>1, <1>5, <2>1
  <2>3. h \in 1 .. n - 1
    BY <1>1
  <2>4. QED
    BY <1>3, <2>2, <2>3
<1>6. \A x \in D \cup {P[n]} : HasParent(next, x) => Holder(next, x) \in D
  <2>1. n \in 1 .. n /\ \A i \in 1 .. n - 1 : i \in 1 .. n
    BY <1>1
  <2>2. QED
    BY <1>3, <1>5, <2>1
<1>7. \A x \in D \cup Passing : st[x] = <<>>
  BY <1>3 DEF Finished
<1>8. QED
  BY <1>3, <1>4, <1>6, <1>7 DEF Cleaned

(* finish_msg, in any number of filters, moves data only, and leaves it    *)
(* in none of them.                                                        *)
LEMMA FinishKeeps ==
  ASSUME PipeInv, StoreInv, pipe # Null, NEW P, P = Preorder(next, pipe), NEW n \in 0 .. Len(P)
  PROVE  Finished(FinishMsg(P, n), P, n)
<1>1. P \in Seq(Filters) /\ store \in Stores /\ ToSet(P) = Below(next, pipe)
  BY WalkOrder, TreeType
<1>2. PICK h \in [0 .. n -> Stores] :
        h[0] = store /\ h[n] = FinishMsg(P, n) /\ \A i \in 1 .. n : h[i] = Flush(h[i - 1], P[i])
  BY <1>1, FinishSteps
<1>3. PICK T : T = {i \in 0 .. n : Finished(h[i], P, i)}
  OBVIOUS
<1>4. \A q \in Queues : store[q] \in Seq(Items)
  BY <1>1 DEF Stores
<1>5. 0 \in T
  <2>1. SameOutput(store)
    BY <1>4, GrowsAlong DEF SameOutput
  <2>2. \A x \in Passing \cup (Filters \ ToSet(P)) : store[x] = <<>>
    BY DEF StoreInv, Passing
  <2>3. {P[i] : i \in 1 .. 0} = {}
    OBVIOUS
  <2>4. QED
    BY <1>1, <1>2, <1>3, <2>1, <2>2, <2>3 DEF Finished
<1>6. ASSUME NEW i \in 0 .. n, i # n, i \in T PROVE i + 1 \in T
  <2>1. PICK k : k = i + 1
    OBVIOUS
  <2>2. k \in 1 .. n /\ k \in 1 .. Len(P) /\ k - 1 = i /\ k \in 0 .. n
    BY <1>1, <1>6, <2>1
  <2>3. PICK st, st2, D : st = h[i] /\ st2 = h[k] /\ D = {P[j] : j \in 1 .. k - 1}
    OBVIOUS
  <2>4. Finished(st, P, k - 1)
    BY <1>3, <1>6, <2>2, <2>3
  <2>5. P[k] \in Filters /\ Cleaned(next, st, P[k], D)
    BY <2>2, <2>3, <2>4, NextIsCleaned
  <2>6. st2 = Flush(st, P[k]) /\ st \in Stores
    BY <1>2, <2>2, <2>3
  <2>7. /\ st2 \in Stores
        /\ \A x \in D \cup {P[k]} \cup Passing : st2[x] = <<>>
        /\ \A x \in Filters \ Below(next, P[k]) : st2[x] = st[x]
        /\ \A q \in Queues : HasParent(next, q) =>
              Output(next, st2, q) = Output(next, st, q) /\ Grows(st[q], st2[q])
        /\ \A q \in Queues : ~HasParent(next, q) => st2[q] = st[q]
    BY <2>5, <2>6, FlushKeeps
  <2>8. Below(next, P[k]) \subseteq ToSet(P)
    <3>1. P[k] \in ToSet(P)
      BY <1>1, <2>2 DEF ToSet
    <3>2. pipe \in Filters
      BY DEF PipeInv, TypeOK
    <3>3. Acyclic(next) /\ IsPorts(next)
      BY TreeType
    <3>4. PICK B : B = Below(next, pipe)
      OBVIOUS
    <3>5. /\ B \in SUBSET Filters
          /\ \A x \in B : \A j \in DOMAIN next[x] : next[x][j] \in Filters => next[x][j] \in B
      BY <3>2, <3>3, <3>4, BelowType, BelowClosed
    <3>6. Below(next, P[k]) \subseteq B
      BY <1>1, <2>5, <3>1, <3>3, <3>4, <3>5, BelowClosed
    <3>7. QED
      BY <1>1, <3>4, <3>6
  <2>9. \A x \in Filters \ ToSet(P) : st2[x] = <<>>
    BY <2>4, <2>7, <2>8 DEF Finished
  <2>10. {P[j] : j \in 1 .. k} = D \cup {P[k]}
    BY <2>2, <2>3
  <2>11. SameOutput(st2)
    <3>1. SameOutput(st)
      BY <2>4 DEF Finished
    <3>2. ASSUME NEW q \in Queues, HasParent(next, q) PROVE Grows(store[q], st2[q])
      BY <1>4, <2>7, <3>1, <3>2, GrowsAlong DEF SameOutput
    <3>3. QED
      BY <2>7, <3>1, <3>2 DEF SameOutput
  <2>12. Finished(st2, P, k)
    BY <2>7, <2>9, <2>10, <2>11 DEF Finished
  <2>13. QED
    BY <1>3, <2>1, <2>2, <2>3, <2>12
<1>7. 0 .. n \subseteq T
  <2>1. 0 \in Nat /\ n \in Nat
    BY <1>1
  <2>2. QED
    BY ONLY <1>5, <1>6, <2>1, IntervalInduction
<1>8. n \in T
  BY <1>1, <1>7
<1>9. QED
  BY <1>2, <1>3, <1>8

-----------------------------------------------------------------------------
(* The queues in use.                                                      *)

(* find_endpoints comes to each port once.                                 *)
LEMMA EndpointsInjective ==
  ASSUME NEW nx, Forest(nx), IsPorts(nx), NEW f \in Filters
  PROVE  IsInjective(Endpoints(nx, f))
<1> DEFINE T == {g \in Filters : ~IsInjective(Endpoints(nx, g))}
<1>1. SUFFICES ASSUME T # {} PROVE FALSE
  OBVIOUS
<1>2. Acyclic(nx)
  BY DEF Forest
<1>3. PICK g \in T : \A j \in DOMAIN nx[g] : nx[g][j] \notin T
  BY <1>1, <1>2 DEF Acyclic
<1>4. PICK inner : inner = Filters
  OBVIOUS
<1>5. PICK n, w, s : n = Len(nx[g]) /\ w = Fringes(nx, inner) /\ s = Ends(w, nx, inner, g)
  OBVIOUS
<1>6. inner \in SUBSET Filters /\ \A x \in Filters : w[x] = Endpoints(nx, x)
  BY <1>4, <1>5 DEF Endpoints
<1>7. w \in [Filters -> Seq(Pairs)] /\ w[g] = FlattenSeq(s)
  BY <1>2, <1>5, <1>6, FringeEquation
<1>8. /\ n \in Nat /\ DOMAIN nx[g] = 1 .. n /\ s \in [1 .. n -> Seq(Pairs)]
      /\ \A j \in 1 .. n : s[j] = IF nx[g][j] \in inner THEN w[nx[g][j]] ELSE <<<<g, j>>>>
  <2>1. g \in Filters
    OBVIOUS
  <2>2. n \in Nat /\ DOMAIN nx[g] = 1 .. n
    BY <1>5, <2>1, EndsType, <1>6, <1>7
  <2>3. s \in [1 .. n -> Seq(Pairs)]
    BY <1>5, <1>6, <1>7, <2>1, EndsType
  <2>4. \A j \in DOMAIN nx[g] : s[j] = IF nx[g][j] \in inner THEN w[nx[g][j]] ELSE <<<<g, j>>>>
    BY ONLY <1>5 DEF Ends
  <2>5. QED
    BY <2>2, <2>3, <2>4
<1>9. \A p : ToSet(<<p>>) = {p} /\ IsInjective(<<p>>)
  BY DEF ToSet, IsInjective
<1>10. \A i \in 1 .. n : IsInjective(s[i])
  <2> SUFFICES ASSUME NEW i \in 1 .. n PROVE IsInjective(s[i])
    OBVIOUS
  <2>1. CASE nx[g][i] \in Filters
    BY <1>3, <1>4, <1>6, <1>8, <2>1
  <2>2. CASE nx[g][i] \notin Filters
    BY <1>4, <1>8, <1>9, <2>2
  <2>3. QED
    BY <2>1, <2>2
<1>11. \A i \in 1 .. n : \A p \in ToSet(s[i]) :
         p[1] \in IF nx[g][i] \in Filters THEN Below(nx, nx[g][i]) ELSE {g}
  <2> SUFFICES ASSUME NEW i \in 1 .. n, NEW p \in ToSet(s[i])
               PROVE  p[1] \in IF nx[g][i] \in Filters THEN Below(nx, nx[g][i]) ELSE {g}
    OBVIOUS
  <2>1. CASE nx[g][i] \notin Filters
    BY <1>4, <1>8, <1>9, <2>1
  <2>2. CASE nx[g][i] \in Filters
    <3>1. PICK x : x = nx[g][i]
      OBVIOUS
    <3>2. x \in Filters /\ s[i] = Endpoints(nx, x) /\ s[i] \in Seq(Pairs)
      BY <1>4, <1>6, <1>8, <2>2, <3>1
    <3>3. p \in Pairs
      BY <3>2, RangeOf
    <3>4. PICK y \in Filters, j \in Nat : p = <<y, j>>
      BY <3>3 DEF Pairs
    <3>5. y \in Below(nx, x)
      BY <1>2, <3>2, <3>4, EndpointsAre
    <3>6. QED
      BY <2>2, <3>1, <3>4, <3>5
  <2>3. QED
    BY <2>1, <2>2
<1>12. ASSUME NEW i \in 1 .. n, NEW k \in 1 .. n, i # k, NEW p \in ToSet(s[i]), p \in ToSet(s[k])
       PROVE  FALSE
  <2>1. CASE nx[g][i] \in Filters /\ nx[g][k] \in Filters
    <3>1. p[1] \in Below(nx, nx[g][i]) /\ p[1] \in Below(nx, nx[g][k])
      BY <1>11, <1>12, <2>1
    <3>2. Below(nx, nx[g][i]) \cap Below(nx, nx[g][k]) = {}
      BY <1>8, <1>12, <2>1, ChildrenApart
    <3>3. QED
      BY <3>1, <3>2
  <2>2. CASE nx[g][i] \in Filters /\ nx[g][k] \notin Filters
    <3>1. p[1] \in Below(nx, nx[g][i]) /\ p[1] = g
      BY <1>11, <1>12, <2>2
    <3>2. g \notin Below(nx, nx[g][i])
      BY <1>8, <2>2, ChildrenApart
    <3>3. QED
      BY <3>1, <3>2
  <2>3. CASE nx[g][i] \notin Filters /\ nx[g][k] \in Filters
    <3>1. p[1] \in Below(nx, nx[g][k]) /\ p[1] = g
      BY <1>11, <1>12, <2>3
    <3>2. g \notin Below(nx, nx[g][k])
      BY <1>8, <2>3, ChildrenApart
    <3>3. QED
      BY <3>1, <3>2
  <2>4. CASE nx[g][i] \notin Filters /\ nx[g][k] \notin Filters
    <3>1. p \in {<<g, i>>} /\ p \in {<<g, k>>}
      BY <1>4, <1>8, <1>9, <1>12, <2>4
    <3>2. QED
      BY <1>12, <3>1
  <2>5. QED
    BY <2>1, <2>2, <2>3, <2>4
<1>13. \A i, k \in 1 .. n : i # k => ToSet(s[i]) \cap ToSet(s[k]) = {}
  BY <1>12
<1>14. IsInjective(FlattenSeq(s))
  <2>1. PICK V : V = Pairs
    OBVIOUS
  <2>2. n \in Nat /\ s \in [1 .. n -> Seq(V)]
    BY <1>8, <2>1
  <2>3. QED
    BY ONLY <1>10, <1>13, <2>2, FlattenInjective
<1>15. QED
  BY <1>3, <1>6, <1>7, <1>14

(* Every queue that a whole start_msg has made is in use, and no other is. *)
LEMMA QueuesUsed ==
  ASSUME PipeInv, NEW n, Opened(n), n = Len(Endpoints(next, Root))
  PROVE  \A q \in Queues : HasParent(next', q) <=> q \in made .. made + n - 1
<1>1. PICK ports : ports = Endpoints(next, Root)
  OBVIOUS
<1>2. Root \in Filters /\ n \in Nat /\ made \in Nat /\ Queues \subseteq Nat
  BY EndpointCount, QueueNumbers
<1>3. ports \in Seq(Pairs) /\ IsInjective(ports) /\ n = Len(ports) /\ DOMAIN ports = 1 .. n
  <2>1. ports \in Seq(Pairs)
    BY <1>1, <1>2, TreeType, EndpointsAre
  <2>2. IsInjective(ports)
    BY <1>1, <1>2, TreeType, EndpointsInjective
  <2>3. QED
    BY <1>1, <2>1, <2>2
<1>4. ASSUME NEW q \in Queues, q \in made .. made + n - 1 PROVE HasParent(next', q)
  <2>1. PICK i : i = q - made + 1
    OBVIOUS
  <2>2. i \in 1 .. n /\ q = made + i - 1
    BY <1>2, <1>4, <2>1
  <2>3. ports[i] \in Pairs /\ ports[i] \in ToSet(ports)
    BY <1>3, <2>2, RangeOf
  <2>4. PICK x \in Filters, j \in Nat : ports[i] = <<x, j>>
    BY <2>3 DEF Pairs
  <2>5. j \in DOMAIN next[x]
    BY <1>1, <1>2, <2>3, <2>4, TreeType, EndpointsAre
  <2>6. PICK k : k = CHOOSE m \in 1 .. n : ports[m] = <<x, j>>
    OBVIOUS
  <2>7. k \in 1 .. n /\ ports[k] = <<x, j>>
    BY ONLY <2>2, <2>4, <2>6, Zenon
  <2>8. k = i
    BY <1>3, <2>2, <2>4, <2>7 DEF IsInjective
  <2>9. <<x, j>> \in {ports[m] : m \in 1 .. n}
    BY <2>2, <2>4
  <2>10. next' = [f \in Filters |-> [l \in DOMAIN next[f] |->
                   IF <<f, l>> \in {ports[m] : m \in 1 .. n}
                   THEN made + (CHOOSE m \in 1 .. n : ports[m] = <<f, l>>) - 1
                   ELSE next[f][l]]]
    BY <1>1 DEF Opened, FindEndpoints
  <2>11. j \in DOMAIN next'[x] /\ next'[x][j] = made + (CHOOSE m \in 1 .. n : ports[m] = <<x, j>>) - 1
    BY <2>5, <2>9, <2>10
  <2>12. next'[x][j] = q
    BY <2>2, <2>6, <2>8, <2>11
  <2>13. QED
    BY <2>11, <2>12 DEF HasParent
<1>5. ASSUME NEW q \in Queues, HasParent(next', q) PROVE q \in made .. made + n - 1
  <2>1. PICK x \in Filters : \E j \in DOMAIN next'[x] : next'[x][j] = q
    BY <1>5 DEF HasParent
  <2>2. PICK j \in DOMAIN next'[x] : next'[x][j] = q
    BY <2>1
  <2>3. /\ (pipe = Null => Root = NullFilter /\ next[Root] = NoPorts) /\ (pipe # Null => Root = pipe)
        /\ DOMAIN next'[x] = DOMAIN next[x]
        /\ \E num, found : Numbers(num, found, n)
    BY OpenedPorts
  <2>4. PICK num, found : Numbers(num, found, n)
    BY <2>3
  <2>5. j \in DOMAIN next[x] /\ next'[x][j] = IF <<x, j>> \in found THEN num[<<x, j>>] ELSE next[x][j]
    BY <2>2, <2>3, <2>4 DEF Numbers
  <2>6. j \in Nat
    BY <2>5, TreeType DEF IsPorts
  <2>7. CASE <<x, j>> \in found
    <3>1. num[<<x, j>>] \in made .. made + n - 1
      BY <2>4, <2>6, <2>7 DEF Numbers
    <3>2. QED
      BY <2>2, <2>5, <2>7, <3>1
  <2>8. CASE <<x, j>> \notin found
    <3>1. next[x][j] = q /\ q \notin Filters /\ q # Null
      BY <2>2, <2>5, <2>8, FiltersAssumption
    <3>2. x \in ToSet(Preorder(next, pipe))
      BY <2>5, <3>1 DEF PipeInv, QueueInv
    <3>3. pipe # Null
      BY <3>2 DEF Preorder, ToSet
    <3>4. x \in Below(next, Root)
      BY <2>3, <3>2, <3>3 DEF Preorder, Below
    <3>5. <<x, j>> \in found
      BY <2>4, <2>5, <3>1, <3>4 DEF Numbers
    <3>6. QED
      BY <2>8, <3>5
  <2>9. QED
    BY <2>7, <2>8
<1>6. QED
  BY <1>4, <1>5

(* What is written comes to filters that hold it, and to queues that are   *)
(* kept.                                                                   *)
LEMMA UsedQueueIsKept ==
  ASSUME PipeInv, NEW q \in Queues, HasParent(next, q)
  PROVE  q \in Nat /\ offset <= q /\ q < made
<1>1. PICK f \in Filters : \E j \in DOMAIN next[f] : next[f][j] = q
  BY DEF HasParent
<1>2. q \in ToSet(buffers)
  BY <1>1 DEF PipeInv, QueueInv
<1>3. PICK i \in 1 .. Len(buffers) : q = buffers[i]
  BY <1>2, QueueNumbers, RangeOf
<1>4. QED
  BY <1>2, <1>3, QueueNumbers
(* What is written comes to filters that hold it, and to queues in use.    *)
LEMMA EntryIs ==
  ASSUME PipeInv, inside_msg
  PROVE  /\ \A x \in ToSet(Entry) : x \in Filters => x \notin Passing /\ x \in ToSet(Preorder(next, pipe))
         /\ \A q \in Queues : q \in ToSet(Entry) => HasParent(next, q)
<1>1. pipe \in Filters /\ pipe # Null
  BY DEF PipeInv, RootsInv, TypeOK
<1>2. ToSet(Preorder(next, pipe)) = Below(next, pipe) /\ pipe \in Below(next, pipe)
  BY <1>1, WalkOrder, TreeType, BelowType
<1>3. CASE pipe \in Passing
  <2>1. Entry = SentTo(pipe)
    BY <1>3 DEF Entry
  <2>2. /\ ToSet(SentTo(pipe)) \cap Filters \subseteq Below(next, pipe) \ ({pipe} \cup Passing)
        /\ \A q \in Queues : q \in ToSet(SentTo(pipe)) =>
             HasParent(next, q) /\ Holder(next, q) \in Below(next, pipe)
    BY <1>1, SendPasses
  <2>3. QED
    BY <1>2, <2>1, <2>2
<1>4. CASE pipe \notin Passing
  <2>1. ToSet(Entry) = {pipe}
    BY <1>4 DEF Entry, ToSet
  <2>2. QED
    BY <1>1, <1>2, <1>4, <2>1, FiltersAssumption
<1>5. QED
  BY <1>3, <1>4

-----------------------------------------------------------------------------
(* Where data may be.                                                      *)

(* Between messages no filter holds anything, so that the tree may be      *)
(* changed.                                                                *)
LEMMA IdleStore ==
  ASSUME StoreInv, ~inside_msg, offset' = offset, store' = store, made' \in Nat, made' <= MaxQueues,
         made \in Nat, made <= made'
  PROVE  StoreInv'
<1>1. \A f \in Filters : store[f] = <<>>
  BY DEF StoreInv
<1>2. \A q \in Queues : q >= made' => q >= made
  BY BoundsAssumption DEF Queues
<1>3. \A q \in Queues : q < offset \/ q >= made' => store[q] = <<>>
  BY <1>2 DEF StoreInv
<1>4. QED
  BY <1>1, <1>3 DEF StoreInv

(* A step that changes none of it.                                         *)
LEMMA SameStore ==
  ASSUME StoreInv, UNCHANGED <<store, next, pipe, offset, made, inside_msg>>
  PROVE  StoreInv'
  BY DEF StoreInv, Passing

(* Data comes only to where it may be.                                     *)
LEMMA ReceivedStore ==
  ASSUME PipeInv, StoreInv, inside_msg, UNCHANGED <<next, pipe, offset, made, inside_msg>>,
         NEW to, ToSet(to) \subseteq ToSet(Entry), NEW d, store' = Received(store, to, d)
  PROVE  StoreInv'
<1>1. \A x \in Filters \cup Queues : store'[x] = IF x \in ToSet(to) THEN store[x] \o d ELSE store[x]
  BY TreeType DEF Received, Stores
<1>2. ASSUME NEW f \in Filters, store'[f] # <<>>
      PROVE  inside_msg /\ f \notin Passing /\ f \in ToSet(Preorder(next, pipe))
  <2>1. CASE f \in ToSet(to)
    BY <2>1, EntryIs
  <2>2. CASE f \notin ToSet(to)
    BY <1>1, <1>2, <2>2 DEF StoreInv
  <2>3. QED
    BY <2>1, <2>2
<1>3. ASSUME NEW q \in Queues, q < offset \/ q >= made PROVE store'[q] = <<>>
  <2>1. q \notin ToSet(to)
    <3>1. made \in Nat /\ offset \in Nat
      BY QueueNumbers
    <3>2. SUFFICES ASSUME q \in ToSet(to) PROVE FALSE
      OBVIOUS
    <3>3. HasParent(next, q)
      BY <3>2, EntryIs
    <3>4. QED
      BY <1>3, <3>1, <3>3, UsedQueueIsKept
  <2>2. QED
    BY <1>1, <1>3, <2>1 DEF StoreInv
<1>4. QED
  BY <1>2, <1>3 DEF StoreInv, Passing

(* write() serves all.                                                     *)
LEMMA WriteStore ==
  ASSUME PipeInv, StoreInv, NEW x \in Items, Write(x)
  PROVE  StoreInv'
<1>1. UNCHANGED <<next, pipe, offset, made, inside_msg>> /\ inside_msg /\ store' = Received(store, Entry, <<x>>)
  BY DEF Write, tree, outputs
<1>2. QED
  BY <1>1, ReceivedStore

(* write() serves filters and queues.                                      *)
LEMMA EntryType ==
  ASSUME PipeInv, inside_msg
  PROVE  Entry \in Seq(Nodes)
<1>1. pipe \in Filters
  BY DEF PipeInv, RootsInv, TypeOK
<1>2. pipe \in Nodes /\ <<pipe>> \in Seq(Nodes)
  BY <1>1 DEF Nodes
<1>3. SentTo(pipe) \in Seq(Nodes)
  BY <1>1, SentToType
<1>4. QED
  BY <1>2, <1>3 DEF Entry

(* write() that throws serves the first n.                                 *)
LEMMA WriteThrowsStore ==
  ASSUME PipeInv, StoreInv, NEW x \in Items, NEW n \in 0 .. MaxQueues, WriteThrows(x, n)
  PROVE  StoreInv'
<1>1. /\ UNCHANGED <<next, pipe, offset, made, inside_msg>> /\ inside_msg /\ n < Len(Entry)
      /\ store' = Received(store, SubSeq(Entry, 1, n), <<x>>)
  BY DEF WriteThrows, tree, outputs
<1>2. n \in Nat
  BY BoundsAssumption
<1>3. ToSet(SubSeq(Entry, 1, n)) \subseteq ToSet(Entry)
  BY <1>1, <1>2, EntryType, FirstServed
<1>4. QED
  BY <1>1, <1>3, ReceivedStore

(* Queues that are not in use stay empty while finish_msg goes on.         *)
LEMMA FinishedElsewhere ==
  ASSUME PipeInv, StoreInv, NEW st, SameOutput(st), NEW q \in Queues, q < offset \/ q >= made
  PROVE  st[q] = <<>>
<1>1. made \in Nat /\ offset \in Nat
  BY QueueNumbers
<1>2. ~HasParent(next, q)
  BY <1>1, UsedQueueIsKept
<1>3. QED
  BY <1>2 DEF SameOutput, StoreInv

(* end_msg leaves data in queues only, and retire() takes away empty ones  *)
(* only.                                                                   *)
LEMMA EndMsgStore ==
  ASSUME PipeInv, StoreInv, EndMsg
  PROVE  StoreInv'
<1>1. PICK P : P = Preorder(next, pipe)
  OBVIOUS
<1>2. /\ pipe # Null /\ store' = FinishMsg(P, Len(P)) /\ made' = made
      /\ buffers' = Retained(buffers, store') /\ offset' = offset + Len(buffers) - Len(buffers')
  BY <1>1, FiltersAssumption DEF EndMsg, PipeInv, RootsInv
<1>3. P \in Seq(Filters)
  BY <1>1, PreorderType
<1>4. Finished(store', P, Len(P))
  <2>1. Len(P) \in 0 .. Len(P)
    BY <1>3
  <2>2. QED
    BY <1>1, <1>2, <2>1, FinishKeeps
<1>5. \A f \in Filters : store'[f] = <<>>
  <2>1. \A f \in ToSet(P) : f \in {P[i] : i \in 1 .. Len(P)}
    BY <1>3, RangeOf
  <2>2. QED
    BY <1>4, <2>1 DEF Finished
<1>6. SameOutput(store')
  BY <1>4 DEF Finished
<1>7. /\ made \in Nat /\ offset \in Nat /\ Len(buffers) \in Nat /\ made = offset + Len(buffers)
      /\ buffers \in Seq(Queues) /\ Queues \subseteq Nat
      /\ \A i \in 1 .. Len(buffers) : buffers[i] = offset + i - 1
  BY QueueNumbers
<1>8. PICK bs : bs = buffers
  OBVIOUS
<1>9. PICK k \in 1 .. Len(bs) + 1 :
        buffers' = SubSeq(bs, k, Len(bs)) /\ \A i \in 1 .. k - 1 : store'[bs[i]] = <<>>
  BY <1>2, <1>7, <1>8, RetainedDrops
<1>10. Len(buffers') = Len(bs) - k + 1
  BY <1>7, <1>8, <1>9
<1>11. offset' = offset + k - 1
  BY <1>2, <1>7, <1>8, <1>9, <1>10
<1>12. ASSUME NEW q \in Queues, q < offset' \/ q >= made PROVE store'[q] = <<>>
  <2>1. CASE q < offset \/ q >= made
    BY <1>6, <2>1, FinishedElsewhere
  <2>2. CASE ~(q < offset \/ q >= made)
    <3>1. q \in Nat
      BY <1>7
    <3>2. PICK i : i = q - offset + 1
      OBVIOUS
    <3>3. i \in 1 .. k - 1 /\ i \in 1 .. Len(bs) /\ q = offset + i - 1
      BY <1>7, <1>8, <1>9, <1>11, <1>12, <2>2, <3>1, <3>2
    <3>4. bs[i] = q
      BY <1>7, <1>8, <3>3
    <3>5. QED
      BY <1>9, <3>3, <3>4
  <2>3. QED
    BY <2>1, <2>2
<1>13. QED
  BY <1>2, <1>5, <1>12 DEF StoreInv

(* end_msg that throws leaves it in the filter that threw, or in the way   *)
(* from there.                                                             *)
LEMMA EndMsgThrowsStore ==
  ASSUME PipeInv, StoreInv, NEW n \in 1 .. Cardinality(Filters), EndMsgThrows(n)
  PROVE  StoreInv'
<1>1. PICK P, st : P = Preorder(next, pipe) /\ st = FinishMsg(P, n - 1)
  OBVIOUS
<1>2. /\ inside_msg /\ pipe # Null /\ UNCHANGED <<next, pipe, offset, made, inside_msg>>
      /\ n <= Len(P) /\ store' \in PartlyFlushed(st, P[n])
  BY <1>1, FiltersAssumption DEF EndMsgThrows, PipeInv, RootsInv, tree, outputs
<1>3. P \in Seq(Filters)
  BY <1>1, PreorderType
<1>4. Cardinality(Filters) \in Nat
  BY FiltersAssumption, FS_CardinalityType
<1>5. n \in 1 .. Len(P) /\ n - 1 \in 0 .. Len(P) /\ P[n] \in Filters
  BY <1>2, <1>3, <1>4
<1>6. Finished(st, P, n - 1)
  BY <1>1, <1>2, <1>5, FinishKeeps
<1>7. st \in Stores /\ SameOutput(st)
  BY <1>6 DEF Finished
<1>8. PICK f, D : f = P[n] /\ D = {P[i] : i \in 1 .. n - 1}
  OBVIOUS
<1>9. f \in Filters /\ Cleaned(next, st, f, D) /\ store' \in PartlyFlushed(st, f)
  BY <1>1, <1>2, <1>5, <1>6, <1>8, NextIsCleaned
<1>10. /\ \A x \in Filters : store'[x] = <<>> \/ st[x] # <<>> \/ (x \in Below(next, f) /\ x \notin Passing)
       /\ \A q \in Queues : ~HasParent(next, q) => store'[q] = st[q]
  BY <1>7, <1>9, PartsKeep
<1>11. Below(next, f) \subseteq ToSet(P)
  <2>1. f \in ToSet(P)
    BY <1>3, <1>5, <1>8 DEF ToSet
  <2>2. pipe \in Filters
    BY <1>2 DEF PipeInv, TypeOK
  <2>3. Acyclic(next) /\ IsPorts(next) /\ ToSet(P) = Below(next, pipe)
    BY <1>1, <1>2, TreeType, WalkOrder
  <2>4. PICK B : B = Below(next, pipe)
    OBVIOUS
  <2>5. /\ B \in SUBSET Filters
        /\ \A x \in B : \A j \in DOMAIN next[x] : next[x][j] \in Filters => next[x][j] \in B
    BY <2>2, <2>3, <2>4, BelowType, BelowClosed
  <2>6. Below(next, f) \subseteq B
    BY <1>9, <2>1, <2>3, <2>4, <2>5, BelowClosed
  <2>7. QED
    BY <2>3, <2>4, <2>6
<1>12. ASSUME NEW x \in Filters, store'[x] # <<>> PROVE x \notin Passing /\ x \in ToSet(P)
  BY <1>6, <1>10, <1>11, <1>12 DEF Finished
<1>13. ASSUME NEW q \in Queues, q < offset \/ q >= made PROVE store'[q] = <<>>
  <2>1. made \in Nat /\ offset \in Nat
    BY QueueNumbers
  <2>2. ~HasParent(next, q)
    BY <1>13, <2>1, UsedQueueIsKept
  <2>3. QED
    BY <1>7, <1>10, <1>13, <2>2, FinishedElsewhere
<1>14. QED
  BY <1>1, <1>2, <1>12, <1>13 DEF StoreInv, Passing

(* read() takes data away only.                                            *)
LEMMA ReadStore ==
  ASSUME PipeInv, StoreInv, NEW m \in Queues, NEW n \in ReadSizes, Read(m, n)
  PROVE  StoreInv'
<1>1. /\ m < MessageCount /\ m >= offset /\ UNCHANGED <<next, pipe, offset, made, inside_msg>>
      /\ store' = [store EXCEPT ![buffers[m - offset + 1]] = SubSeq(@, n + 1, Len(@))]
  BY DEF Read, tree, outputs
<1>2. /\ made \in Nat /\ offset \in Nat /\ Len(buffers) \in Nat /\ made = offset + Len(buffers)
      /\ Queues \subseteq Nat /\ \A i \in 1 .. Len(buffers) : buffers[i] = offset + i - 1
  BY QueueNumbers
<1>3. m \in Nat /\ m - offset + 1 \in 1 .. Len(buffers) /\ buffers[m - offset + 1] = m /\ m < made
  BY <1>1, <1>2 DEF MessageCount
<1>4. \A x \in Filters \cup Queues : x # m => store'[x] = store[x]
  BY <1>1, <1>3, TreeType DEF Stores
<1>5. m \notin Filters
  BY FiltersAssumption
<1>6. ~(m < offset \/ m >= made)
  BY <1>1, <1>2, <1>3
<1>7. \A f \in Filters : store'[f] = store[f]
  BY <1>4, <1>5
<1>8. \A q \in Queues : q < offset \/ q >= made => store'[q] = <<>>
  BY <1>4, <1>6 DEF StoreInv
<1>9. QED
  BY <1>1, <1>7, <1>8 DEF StoreInv, Passing

(* A new pipe holds nothing.                                               *)
LEMMA StoreInit ==
  ASSUME Init
  PROVE  StoreInv
<1>1. \A x \in Filters \cup Queues : store[x] = <<>>
  BY DEF Init
<1>2. made <= MaxQueues
  BY BoundsAssumption DEF Init
<1>3. QED
  BY <1>1, <1>2 DEF StoreInv

(* No step leaves the invariant.                                           *)
LEMMA StoreNext ==
  ASSUME PipeInv, StoreInv, [Next]_vars
  PROVE  StoreInv'
<1>0. made \in Nat /\ offset \in Nat /\ made <= MaxQueues
  BY QueueNumbers DEF StoreInv
<1>1. ASSUME NotInUse, NEW f \in TopLevel, AppendFilter(f) PROVE StoreInv'
  <2>1. ~inside_msg /\ offset' = offset /\ store' = store /\ made' = made
    BY <1>1 DEF AppendFilter, NotInUse, OutOfBounds, Untouched, outputs
  <2>2. QED
    BY <1>0, <2>1, IdleStore
<1>2. ASSUME NotInUse, NEW f \in TopLevel, Prepend(f) PROVE StoreInv'
  <2>1. ~inside_msg /\ offset' = offset /\ store' = store /\ made' = made
    BY <1>2 DEF Prepend, NotInUse, Untouched, outputs
  <2>2. QED
    BY <1>0, <2>1, IdleStore
<1>3. CASE NotInUse /\ Pop
  <2>1. ~inside_msg /\ offset' = offset /\ store' = store /\ made' = made
    BY <1>3 DEF Pop, NotInUse, OutOfBounds, Untouched, outputs
  <2>2. QED
    BY <1>0, <2>1, IdleStore
<1>4. CASE Reset
  <2>1. ~inside_msg /\ offset' = offset /\ store' = store /\ made' = made
    BY <1>4 DEF Reset, outputs
  <2>2. QED
    BY <1>0, <2>1, IdleStore
<1>5. CASE StartMsg
  <2>1. PICK n : n = Len(Endpoints(next, Root))
    OBVIOUS
  <2>2. n \in Nat
    BY <2>1, EndpointCount
  <2>3. ~inside_msg /\ offset' = offset /\ store' = store /\ made' = made + n /\ made + n <= MaxQueues
    BY <1>5, <2>1 DEF StartMsg, FindEndpoints
  <2>4. made' \in Nat /\ made <= made' /\ made' <= MaxQueues
    BY <1>0, <2>2, <2>3
  <2>5. QED
    BY <1>0, <2>3, <2>4, IdleStore
<1>6. CASE EndMsg
  BY <1>6, EndMsgStore
<1>7. ASSUME NEW n \in 0 .. MaxQueues, StartMsgThrows(n) PROVE StoreInv'
  <2>1. PICK k : k = Len(Endpoints(next, Root))
    OBVIOUS
  <2>2. n \in Nat /\ k \in Nat /\ MaxQueues \in Nat
    BY <2>1, EndpointCount, BoundsAssumption
  <2>3. ~inside_msg /\ offset' = offset /\ store' = store /\ made' = made + n /\ made + k <= MaxQueues /\ n <= k
    BY <1>7, <2>1 DEF StartMsgThrows, FindEndpoints
  <2>4. made' \in Nat /\ made <= made' /\ made' <= MaxQueues
    BY <1>0, <2>2, <2>3
  <2>5. QED
    BY <1>0, <2>3, <2>4, IdleStore
<1>8. ASSUME NEW n \in 1 .. Cardinality(Filters), EndMsgThrows(n) PROVE StoreInv'
  BY <1>8, EndMsgThrowsStore
<1>9. ASSUME NEW x \in Items, Write(x) PROVE StoreInv'
  BY <1>9, WriteStore
<1>10. ASSUME NEW x \in Items, NEW n \in 0 .. MaxQueues, WriteThrows(x, n) PROVE StoreInv'
  BY <1>10, WriteThrowsStore
<1>11. ASSUME NEW m \in Queues, SetDefaultMsg(m) PROVE StoreInv'
  <2>1. UNCHANGED <<store, next, pipe, offset, made, inside_msg>>
    BY <1>11 DEF SetDefaultMsg, tree, outputs
  <2>2. QED
    BY <2>1, SameStore
<1>12. ASSUME NEW m \in Queues, NEW n \in ReadSizes, Read(m, n) PROVE StoreInv'
  BY <1>12, ReadStore
<1>13. CASE UNCHANGED vars
  <2>1. UNCHANGED <<store, next, pipe, offset, made, inside_msg>>
    BY <1>13 DEF vars, tree, outputs
  <2>2. QED
    BY <2>1, SameStore
<1>14. QED
  BY <1>1, <1>2, <1>3, <1>4, <1>5, <1>6, <1>7, <1>8, <1>9, <1>10, <1>11, <1>12, <1>13 DEF Next, TreeChanges, Calls

(* Only filters in the way of an open message hold data, and only queues   *)
(* that Output_Buffers keeps: so pop(), reset() and retire() never take    *)
(* data away (pipe.cpp:265-287, out_buf.cpp:66-79).                        *)
THEOREM DataIsInTheWay == Spec => []StoreInv
<1>1. Init => StoreInv
  BY StoreInit
<1>2. PipeInv /\ StoreInv /\ [Next]_vars => StoreInv'
  BY StoreNext
<1>3. QED
  BY <1>1, <1>2, PipeInvariant, PTL DEF Spec

(* Every reachable state of the pipe satisfies the whole of the inductive  *)
(* invariant: the tree, the data in it, and the way back of pop().         *)
THEOREM InductiveInvariant == Spec => []WholePipeInv
<1>1. Spec => [](PlainFamilies => UndoInv)
  <2>1. CASE PlainFamilies
    <3>1. Spec => []UndoInv
      BY <2>1, UndoInvariant
    <3>2. QED
      BY <3>1, PTL
  <2>2. CASE ~PlainFamilies
    <3>1. PlainFamilies => UndoInv
      BY <2>2
    <3>2. QED
      BY <3>1, PTL
  <2>3. QED
    BY <2>1, <2>2
<1>2. QED
  BY <1>1, PipeInvariant, DataIsInTheWay, PTL DEF WholePipeInv

-----------------------------------------------------------------------------
(* The messages, as queues.                                                *)

(* The mapping, queue by queue.                                            *)
Mapping ==
  /\ Delivered = [m \in 1 .. made |-> store[m - 1]]
  /\ Open = IF inside_msg THEN {m \in 1 .. made : HasParent(next, m - 1)} ELSE {}
  /\ Owed = [m \in 1 .. made |-> IF m \in Open THEN Held(next, store)[Holder(next, m - 1)] ELSE <<>>]
  /\ \A m \in 1 .. made : m \in Nat /\ m - 1 \in Queues
(* The k-th queue is the one numbered k - 1.                               *)
LEMMA MappingIs ==
  ASSUME PipeInv, StoreInv
  PROVE  Mapping
<1>1. /\ made \in Nat /\ offset \in Nat /\ Len(buffers) \in Nat /\ made = offset + Len(buffers)
      /\ Queues \subseteq Nat /\ \A i \in 1 .. Len(buffers) : buffers[i] = offset + i - 1
  BY QueueNumbers
<1>2. MessageCount = made /\ made <= MaxQueues /\ MaxQueues \in Nat
  BY <1>1, BoundsAssumption DEF MessageCount, StoreInv
<1>3. \A m \in 1 .. made : m \in Nat /\ m - 1 \in Queues
  BY <1>1, <1>2 DEF Queues
<1>4. \A m \in 1 .. made : m > offset => buffers[m - offset] = m - 1
  <2> SUFFICES ASSUME NEW m \in 1 .. made, m > offset PROVE buffers[m - offset] = m - 1
    OBVIOUS
  <2>1. PICK i : i = m - offset
    OBVIOUS
  <2>2. i \in 1 .. Len(buffers) /\ offset + i - 1 = m - 1
    BY <1>1, <2>1
  <2>3. QED
    BY <1>1, <2>1, <2>2
<1>5. \A m \in 1 .. made : m <= offset => m - 1 < offset
  BY <1>1
<1>6. \A m \in 1 .. made : m <= offset => store[m - 1] = <<>>
  BY <1>3, <1>5 DEF StoreInv
<1>7. \A m \in 1 .. made : HasParent(next, m - 1) => m > offset
  <2> SUFFICES ASSUME NEW m \in 1 .. made, HasParent(next, m - 1) PROVE m > offset
    OBVIOUS
  <2>1. PICK q : q = m - 1
    OBVIOUS
  <2>2. q \in Queues /\ HasParent(next, q)
    BY <1>3, <2>1
  <2>3. offset <= q
    BY <2>2, UsedQueueIsKept
  <2>4. QED
    BY <1>1, <2>1, <2>3
<1>8. \A m \in 1 .. made : m <= offset \/ m > offset
  BY <1>1
<1>9. Delivered = [m \in 1 .. made |-> store[m - 1]]
  <2>1. \A m \in 1 .. made : (IF m <= offset THEN <<>> ELSE store[buffers[m - offset]]) = store[m - 1]
    BY <1>4, <1>6, <1>8
  <2>2. QED
    BY <1>2, <2>1 DEF Delivered
<1>10. Open = IF inside_msg THEN {m \in 1 .. made : HasParent(next, m - 1)} ELSE {}
  <2>1. ASSUME NEW m PROVE m \in offset + 1 .. made <=> m \in 1 .. made /\ m > offset
    BY <1>1
  <2>2. {m \in offset + 1 .. made : HasParent(next, buffers[m - offset])}
        = {m \in 1 .. made : HasParent(next, m - 1)}
    BY <1>4, <1>7, <2>1
  <2>3. QED
    BY <1>2, <2>2 DEF Open
<1>11. \A m \in Open : m \in 1 .. made /\ buffers[m - offset] = m - 1
  BY <1>4, <1>7, <1>10
<1>12. Owed = [m \in 1 .. made |-> IF m \in Open THEN Held(next, store)[Holder(next, m - 1)] ELSE <<>>]
  <2>1. \A m \in Open : HeldBefore(buffers[m - offset]) = Held(next, store)[Holder(next, m - 1)]
    BY <1>11 DEF HeldBefore
  <2>2. QED
    BY <1>2, <2>1 DEF Owed
<1>13. QED
  BY <1>3, <1>9, <1>10, <1>12 DEF Mapping

(* What a message is still to get, together with what it has.              *)
Messages ==
  /\ \A m \in 1 .. made : /\ Delivered[m] = store[m - 1] /\ Delivered[m] \in Seq(Items)
                          /\ Owed[m] \in Seq(Items) /\ (m \notin Open => Owed[m] = <<>>)
  /\ \A m \in Open : /\ m \in 1 .. made /\ HasParent(next, m - 1)
                     /\ Delivered[m] \o Owed[m] = Output(next, store, m - 1)
  /\ DOMAIN Delivered = 1 .. made /\ DOMAIN Owed = 1 .. made
(* Each message, as its user sees it.                                      *)
LEMMA MessagesAre ==
  ASSUME PipeInv, StoreInv
  PROVE  Messages
<1>1. Mapping
  BY MappingIs
<1>2. ASSUME NEW m \in 1 .. made PROVE store[m - 1] \in Seq(Items)
  BY <1>1, TreeType DEF Stores, Mapping
<1>3. \A m \in Open : m \in 1 .. made /\ HasParent(next, m - 1)
  BY <1>1 DEF Mapping
<1>4. ASSUME NEW m \in 1 .. made PROVE Owed[m] \in Seq(Items) /\ (m \notin Open => Owed[m] = <<>>)
  <2>1. Owed[m] = IF m \in Open THEN Held(next, store)[Holder(next, m - 1)] ELSE <<>>
    BY <1>1 DEF Mapping
  <2>2. <<>> \in Seq(Items)
    OBVIOUS
  <2>3. m \in Open => Held(next, store)[Holder(next, m - 1)] \in Seq(Items)
    <3> SUFFICES ASSUME m \in Open PROVE Held(next, store)[Holder(next, m - 1)] \in Seq(Items)
      OBVIOUS
    <3>1. Acyclic(next) /\ IsPorts(next) /\ store \in Stores
      BY TreeType
    <3>2. PICK w : w = Held(next, store)
      OBVIOUS
    <3>3. w \in Contents
      BY <3>1, <3>2, HeldEquation
    <3>4. HasParent(next, m - 1)
      BY <1>3
    <3>5. Holder(next, m - 1) \in Filters
      BY <3>4, HolderIs
    <3>6. QED
      BY <3>2, <3>3, <3>5 DEF Contents
  <2>4. QED
    BY <2>1, <2>2, <2>3
<1>5. ASSUME NEW m \in Open PROVE Delivered[m] \o Owed[m] = Output(next, store, m - 1)
  BY <1>1, <1>3 DEF Mapping, Output
<1>6. QED
  BY <1>1, <1>2, <1>3, <1>4, <1>5 DEF Mapping, Messages

-----------------------------------------------------------------------------
(* The steps.                                                              *)

(* What the promise allows, or nothing seen.                              *)
PromiseStep == [Promise!Next]_Promise!vars

(* What the user sees is what it was.                                      *)
LEMMA SeenSame ==
  ASSUME UNCHANGED <<next, inside_msg, buffers, offset, store, written>>
  PROVE  PromiseStep
<1>1. UNCHANGED <<Delivered, Open, Owed, written>>
  BY DEF Delivered, Open, Owed, MessageCount, HeldBefore
<1>2. QED
  BY <1>1 DEF PromiseStep, Promise!vars

(* The tree may be changed between messages.                               *)
LEMMA SeenIdle ==
  ASSUME ~inside_msg, ~inside_msg', UNCHANGED <<buffers, offset, store, written>>
  PROVE  PromiseStep
<1>1. MessageCount' = MessageCount /\ Delivered' = Delivered
  BY DEF Delivered, MessageCount
<1>2. Open = {} /\ Open' = {}
  BY DEF Open
<1>3. Owed = [m \in 1 .. MessageCount |-> <<>>] /\ Owed' = [m \in 1 .. MessageCount |-> <<>>]
  BY <1>1, <1>2 DEF Owed
<1>4. QED
  BY <1>1, <1>2, <1>3 DEF PromiseStep, Promise!vars

(* Messages are numbered upwards: start_msg adds new ones at the end.      *)
LEMMA PadSequence ==
  ASSUME NEW a \in Nat, NEW n \in Nat, NEW V, NEW e \in V, NEW g \in [1 .. a + n -> V],
         \A i \in 1 .. n : g[a + i] = e
  PROVE  g = [m \in 1 .. a |-> g[m]] \o [i \in 1 .. n |-> e]
<1>1. PICK b, p : b = [m \in 1 .. a |-> g[m]] /\ p = [i \in 1 .. n |-> e]
  OBVIOUS
<1>2. b \in [1 .. a -> V] /\ p \in [1 .. n -> V]
  BY <1>1
<1>3. b \in Seq(V) /\ p \in Seq(V) /\ Len(b) = a /\ Len(p) = n
  BY <1>2
<1>4. PICK c : c = b \o p
  OBVIOUS
<1>5. /\ c \in Seq(V) /\ Len(c) = a + n
      /\ \A m \in 1 .. a : c[m] = b[m]
      /\ \A i \in 1 .. n : c[a + i] = p[i]
  <2>0. b \in Seq(V) /\ p \in Seq(V)
    BY <1>3
  <2>1. /\ c \in Seq(V) /\ Len(c) = Len(b) + Len(p)
        /\ \A m \in 1 .. Len(b) : c[m] = b[m]
        /\ \A i \in 1 .. Len(p) : c[Len(b) + i] = p[i]
    BY ONLY <2>0, <1>4
  <2>2. QED
    BY <1>3, <2>1
<1>6. DOMAIN c = 1 .. a + n
  BY <1>5
<1>7. ASSUME NEW m \in 1 .. a + n PROVE c[m] = g[m]
  <2>1. CASE m <= a
    <3>1. m \in 1 .. a
      BY <2>1
    <3>2. QED
      BY <1>1, <1>5, <3>1
  <2>2. CASE m > a
    <3>1. PICK i : i = m - a
      OBVIOUS
    <3>2. i \in 1 .. n /\ m = a + i
      BY <2>2, <3>1
    <3>3. QED
      BY <1>1, <1>5, <3>2
  <2>3. QED
    BY <2>1, <2>2
<1>8. c = g
  BY <1>5, <1>6, <1>7
<1>9. QED
  BY <1>1, <1>4, <1>8

(* start_msg, whole or broken off, adds as many messages as it has made    *)
(* queues, and all or none of them are open.                               *)
LEMMA BeginStep ==
  ASSUME PipeInv, StoreInv, PipeInv', StoreInv', NEW n, Opened(n),
         UNCHANGED <<offset, store, written>>,
         inside_msg' => n = Len(Endpoints(next, Root))
  PROVE  PromiseStep
<1>1. Mapping
  BY MappingIs
<1>2. Mapping'
  <2>1. (PipeInv /\ StoreInv)' => Mapping'
    BY MappingIs, PTL
  <2>2. QED
    BY <2>1
<1>3. /\ made \in Nat /\ n \in Nat /\ made' = made + n /\ made + n <= MaxQueues /\ MaxQueues \in Nat
      /\ ~inside_msg
  BY QueueNumbers, BoundsAssumption DEF Opened, FindEndpoints
<1>4. \A q \in Queues : q >= made => store[q] = <<>>
  BY DEF StoreInv
<1>5. \A i \in 1 .. n : made + i \in 1 .. made' /\ (made + i) - 1 >= made
  BY <1>3
<1>6. \A i \in 1 .. n : store[(made + i) - 1] = <<>>
  BY <1>2, <1>4, <1>5 DEF Mapping
<1>7. Delivered' = Delivered \o [i \in 1 .. n |-> <<>>]
  <2>1. PICK V : V = Seq(Items)
    OBVIOUS
  <2>2. <<>> \in V
    BY <2>1
  <2>3. PICK g : g = [m \in 1 .. made + n |-> store[m - 1]]
    OBVIOUS
  <2>4. \A m \in 1 .. made + n : store[m - 1] \in V
    BY <1>2, <1>3, <2>1, TreeType DEF Mapping, Stores
  <2>5. g \in [1 .. made + n -> V]
    BY <2>3, <2>4
  <2>6. \A i \in 1 .. n : g[made + i] = <<>>
    BY <1>3, <1>5, <1>6, <2>3
  <2>7. g = [m \in 1 .. made |-> g[m]] \o [i \in 1 .. n |-> <<>>]
    BY ONLY <1>3, <2>2, <2>5, <2>6, PadSequence
  <2>8. [m \in 1 .. made |-> g[m]] = [m \in 1 .. made |-> store[m - 1]]
    <3>1. \A m \in 1 .. made : m \in 1 .. made + n
      BY <1>3
    <3>2. QED
      BY <2>3, <3>1
  <2>9. Delivered' = g
    BY <1>2, <1>3, <2>3 DEF Mapping
  <2>10. QED
    BY <1>1, <2>7, <2>8, <2>9 DEF Mapping
<1>8. Open = {} /\ Open' \in {{}, Len(Delivered) + 1 .. Len(Delivered) + n}
  <2>1. Open = {}
    BY <1>3 DEF Open
  <2>2. Len(Delivered) = made
    <3>1. \A m \in 1 .. made : store[m - 1] \in Seq(Items)
      BY <1>1, TreeType DEF Mapping, Stores
    <3>2. PICK V, a, d : V = Seq(Items) /\ a = made /\ d = Delivered
      OBVIOUS
    <3>3. d \in [1 .. a -> V] /\ a \in Nat
      BY <1>1, <1>3, <3>1, <3>2 DEF Mapping
    <3>4. Len(d) = a
      BY ONLY <3>3
    <3>5. QED
      BY <3>2, <3>4
  <2>3. CASE ~inside_msg'
    BY <2>1, <2>3 DEF Open
  <2>4. CASE inside_msg'
    <3>1. \A q \in Queues : HasParent(next', q) <=> q \in made .. made + n - 1
      BY <2>4, QueuesUsed
    <3>2. Open' = {m \in 1 .. made' : HasParent(next', m - 1)}
      BY <1>2, <2>4 DEF Mapping
    <3>3. \A m \in 1 .. made' : m - 1 \in made .. made + n - 1 <=> m \in made + 1 .. made + n
      BY <1>3
    <3>4. \A m \in made + 1 .. made + n : m \in 1 .. made'
      BY <1>3
    <3>5. \A m \in 1 .. made' : m - 1 \in Queues
      BY <1>2 DEF Mapping
    <3>6. Open' = made + 1 .. made + n
      BY <3>1, <3>2, <3>3, <3>4, <3>5
    <3>7. QED
      BY <2>1, <2>2, <3>6
  <2>5. QED
    BY <2>1, <2>3, <2>4
<1>9. Owed' = Owed \o [i \in 1 .. n |-> <<>>]
  <2>1. ASSUME NEW m \in Open' PROVE Held(next', store')[Holder(next', m - 1)] = <<>>
    <3>1. inside_msg' /\ HasParent(next', m - 1)
      BY <1>2, <2>1 DEF Mapping
    <3>2. PICK D, nx, st : D = Filters /\ nx = next' /\ st = store'
      OBVIOUS
    <3>3. Acyclic(nx) /\ IsPorts(nx) /\ st \in Stores
      BY <3>2 DEF PipeInv, TypeOK, IsPorts, Nodes, Stores, Forest
    <3>4. \A x \in D : st[x] = <<>>
      BY <1>3, <3>2 DEF StoreInv
    <3>5. \A x \in D : HasParent(nx, x) => Holder(nx, x) \in D
      BY <3>2, HolderIs
    <3>6. D \in SUBSET Filters
      BY <3>2
    <3>7. \A x \in D : Held(nx, st)[x] = <<>>
      BY ONLY <3>3, <3>4, <3>5, <3>6, NothingHeld
    <3>8. Holder(nx, m - 1) \in D
      BY <3>1, <3>2, HolderIs
    <3>9. QED
      BY <3>2, <3>7, <3>8
  <2>2. Owed' = [m \in 1 .. made + n |-> <<>>]
    BY <1>2, <1>3, <2>1 DEF Mapping
  <2>3. Owed = [m \in 1 .. made |-> <<>>]
    BY <1>1, <1>8 DEF Mapping
  <2>4. PICK V, g : V = Seq(Items) /\ g = [m \in 1 .. made + n |-> <<>>]
    OBVIOUS
  <2>5. <<>> \in V
    BY <2>4
  <2>6. g \in [1 .. made + n -> V]
    BY <2>4, <2>5
  <2>7. \A i \in 1 .. n : g[made + i] = <<>>
    <3>1. \A i \in 1 .. n : made + i \in 1 .. made + n
      BY <1>3
    <3>2. QED
      BY <2>4, <3>1
  <2>8. g = [m \in 1 .. made |-> g[m]] \o [i \in 1 .. n |-> <<>>]
    BY ONLY <1>3, <2>5, <2>6, <2>7, PadSequence
  <2>9. [m \in 1 .. made |-> g[m]] = [m \in 1 .. made |-> <<>>]
    <3>1. \A m \in 1 .. made : m \in 1 .. made + n
      BY <1>3
    <3>2. QED
      BY <2>4, <3>1
  <2>10. QED
    BY <2>2, <2>3, <2>4, <2>8, <2>9
<1>10. n \in 0 .. MaxQueues
  BY <1>3
<1>11. Promise!Begin(n)
  BY <1>7, <1>8, <1>9 DEF Promise!Begin
<1>12. QED
  BY <1>10, <1>11 DEF PromiseStep, Promise!Next

(* What is written goes through filters that hold nothing, to Entry.       *)
LEMMA EntryPasses ==
  ASSUME PipeInv, inside_msg
  PROVE  \E I \in SUBSET Passing : Passes(next, pipe, I, ToSet(Entry))
<1>1. pipe \in Filters
  BY DEF PipeInv, RootsInv, TypeOK
<1>2. CASE pipe \in Passing
  <2>1. Entry = SentTo(pipe)
    BY <1>2 DEF Entry
  <2>2. Passes(next, pipe, Within(next, Passing, pipe), ToSet(SentTo(pipe)))
    BY <1>1, SendPasses
  <2>3. Within(next, Passing, pipe) \subseteq {pipe} \cup Passing
    BY <1>1, SendPasses
  <2>4. QED
    BY <1>2, <2>1, <2>2, <2>3
<1>3. CASE pipe \notin Passing
  <2>1. ToSet(Entry) = {pipe}
    BY <1>3 DEF Entry, ToSet
  <2>2. \A x \in Below(next, pipe) : \A j \in DOMAIN next[x] : next[x][j] # pipe
    BY <1>1, TreeType, NoReturn
  <2>3. Passes(next, pipe, {}, {pipe})
    BY <1>1, <2>2 DEF Passes
  <2>4. QED
    BY <2>1, <2>3
<1>4. QED
  BY <1>2, <1>3

(* Each queue in use gets what is served once, or perhaps not at all if    *)
(* not all are served.                                                     *)
LEMMA ServedMoves ==
  ASSUME PipeInv, StoreInv, inside_msg, NEW to, ToSet(to) \subseteq ToSet(Entry), NEW full \in BOOLEAN,
         full => to = Entry, NEW d \in Seq(Items), NEW st2, st2 = Received(store, to, d)
  PROVE  /\ \A q \in Queues : HasParent(next, q) =>
              Moved(Output(next, store, q), Output(next, st2, q), d, full) /\ Grows(store[q], st2[q])
         /\ \A q \in Queues : ~HasParent(next, q) => st2[q] = store[q]
<1>1. Forest(next) /\ IsPorts(next) /\ Acyclic(next) /\ store \in Stores /\ pipe \in Filters
  BY TreeType DEF PipeInv, RootsInv, TypeOK
<1>2. st2 \in Stores
  BY <1>1, ReceivedType
<1>3. \A x \in Filters \cup Queues : st2[x] = IF x \in ToSet(to) THEN store[x] \o d ELSE store[x]
  BY <1>1 DEF Received, Stores
<1>4. PICK I \in SUBSET Passing : Passes(next, pipe, I, ToSet(Entry))
  BY EntryPasses
<1>5. PICK R : R = ToSet(Entry)
  OBVIOUS
<1>6. Passes(next, pipe, I, R)
  BY <1>4, <1>5
<1>7. Reaches(store, st2, d, full, I, R)
  <2>1. \A x \in I : store[x] = <<>> /\ x \in Filters /\ x \notin R
    BY <1>6 DEF StoreInv, Passing, Passes
  <2>2. \A x \in I : store[x] = <<>> /\ st2[x] = <<>>
    BY <1>3, <1>5, <2>1
  <2>3. \A x \in (Filters \cup Queues) \cap R : Moved(store[x], st2[x], d, full)
    BY <1>3, <1>5 DEF Moved
  <2>4. \A x \in (Filters \cup Queues) \ R : st2[x] = store[x]
    BY <1>3, <1>5
  <2>5. QED
    BY <2>2, <2>3, <2>4 DEF Reaches
<1>8. Empties(next, store, pipe) /\ Empties(next, st2, pipe)
  BY DEF Empties, PipeInv, RootsInv
<1>9. ASSUME NEW q \in Queues, HasParent(next, q)
      PROVE  Moved(Output(next, store, q), Output(next, st2, q), d, full) /\ Grows(store[q], st2[q])
  <2>1. Holder(next, q) \in Below(next, pipe)
    <3>1. Holder(next, q) \in Filters /\ \E j \in DOMAIN next[Holder(next, q)] : next[Holder(next, q)][j] = q
      BY <1>9, HolderIs
    <3>2. Holder(next, q) \in ToSet(Preorder(next, pipe))
      BY <3>1 DEF PipeInv, QueueInv
    <3>3. pipe # Null
      BY <1>1, FiltersAssumption
    <3>4. QED
      BY <3>2, <3>3, WalkOrder
  <2>2. Moved(Output(next, store, q), Output(next, st2, q), d, full)
    BY ONLY <1>1, <1>2, <1>6, <1>7, <1>8, <1>9, <2>1, d \in Seq(Items), full \in BOOLEAN, OutputMoved
  <2>3. store[q] \in Seq(Items)
    BY <1>1 DEF Stores
  <2>4. Grows(store[q], store[q]) /\ Grows(store[q], store[q] \o d)
    BY <2>3, GrowsAlong
  <2>5. QED
    BY <1>3, <2>2, <2>4
<1>10. ASSUME NEW q \in Queues, ~HasParent(next, q) PROVE st2[q] = store[q]
  <2>1. q \notin ToSet(to)
    BY <1>10, EntryIs
  <2>2. QED
    BY <1>3, <2>1
<1>11. QED
  BY <1>9, <1>10

(* A message that is open has a queue in use: the last port of all leads   *)
(* to one.                                                                 *)
LEMMA SomeOpen ==
  ASSUME PipeInv, StoreInv, inside_msg
  PROVE  Open # {}
<1>1. pipe \in Filters /\ pipe # Null
  BY DEF PipeInv, RootsInv, TypeOK
<1>2. Acyclic(next) /\ IsPorts(next) /\ \A f \in Filters : next[f] # <<>>
  BY TreeType
<1>3. PICK x : x = LastOf(next)[pipe]
  OBVIOUS
<1>4. PICK B : B = Below(next, pipe)
  OBVIOUS
<1>5. x \in B /\ x \in Filters /\ next[x][1] \notin Filters
  BY <1>1, <1>2, <1>3, <1>4, LastIsLast, LastBelow
<1>6. 1 \in DOMAIN next[x] /\ next[x][1] \in Nodes
  BY <1>2, <1>5 DEF IsPorts
<1>7. x \in ToSet(Preorder(next, pipe))
  BY <1>1, <1>4, <1>5, WalkOrder
<1>8. next[x][1] # Null
  BY <1>6, <1>7 DEF PipeInv, QueueInv
<1>9. PICK q : q = next[x][1]
  OBVIOUS
<1>10. q \in Queues /\ HasParent(next, q)
  BY <1>5, <1>6, <1>8, <1>9 DEF Nodes, HasParent
<1>11. q \in Nat /\ q < made /\ made \in Nat
  BY <1>10, UsedQueueIsKept, QueueNumbers
<1>12. q + 1 \in 1 .. made /\ (q + 1) - 1 = q
  BY <1>11
<1>13. q + 1 \in Open
  BY <1>10, <1>12, MappingIs DEF Mapping
<1>14. QED
  BY <1>13

(* A sequence is a prefix of itself with more at the end.                  *)
LEMMA PrefixIs ==
  ASSUME NEW V, NEW a \in Seq(V), NEW b \in Seq(V)
  PROVE  Promise!IsPrefix(a, a \o b)
<1>1. PICK c : c = a \o b
  OBVIOUS
<1>2. a \in Seq(V) /\ b \in Seq(V)
  OBVIOUS
<1>3. /\ c \in Seq(V) /\ Len(c) = Len(a) + Len(b) /\ Len(a) \in Nat /\ Len(b) \in Nat
      /\ \A i \in 1 .. Len(a) : c[i] = a[i]
  BY ONLY <1>1, <1>2
<1>4. PICK n : n = Len(a)
  OBVIOUS
<1>5. n \in Nat /\ n <= Len(c) /\ n <= Len(a)
  BY <1>3, <1>4
<1>6. SubSeq(a, 1, n) = [i \in 1 .. n |-> a[i]] /\ SubSeq(c, 1, n) = [i \in 1 .. n |-> c[i]]
  BY ONLY <1>2, <1>3, <1>5
<1>7. SubSeq(a, 1, n) = SubSeq(c, 1, n)
  BY <1>3, <1>4, <1>6
<1>8. QED
  BY <1>1, <1>4, <1>5, <1>7 DEF Promise!IsPrefix

(* The mapping, before and after a step.                                   *)
LEMMA MappedBoth ==
  ASSUME PipeInv, StoreInv, PipeInv', StoreInv'
  PROVE  Mapping /\ Mapping' /\ Messages /\ Messages'
<1>1. Mapping /\ Messages
  BY MappingIs, MessagesAre
<1>2. (PipeInv /\ StoreInv)' => Mapping'
  BY MappingIs, PTL
<1>3. (PipeInv /\ StoreInv)' => Messages'
  BY MessagesAre, PTL
<1>4. QED
  BY <1>1, <1>2, <1>3

(* Within a message: the same queues are in use.                           *)
LEMMA SameOpen ==
  ASSUME PipeInv, StoreInv, PipeInv', StoreInv', inside_msg, UNCHANGED <<next, inside_msg, made>>,
         \A q \in Queues : ~HasParent(next, q) => store'[q] = store[q]
  PROVE  /\ Open' = Open /\ Promise!SameMessages
         /\ DOMAIN Delivered = 1 .. made
         /\ \A m \in 1 .. made : m \notin Open => Promise!Closed(m)
         /\ \A m \in Open : /\ m \in 1 .. made /\ m - 1 \in Queues /\ HasParent(next, m - 1)
                            /\ Delivered[m] = store[m - 1] /\ Delivered'[m] = store'[m - 1]
                            /\ Delivered[m] \o Owed[m] = Output(next, store, m - 1)
                            /\ Delivered'[m] \o Owed'[m] = Output(next, store', m - 1)
<1>1. Mapping /\ Mapping' /\ Messages /\ Messages'
  BY MappedBoth
<1>2. Open' = Open /\ Open = {m \in 1 .. made : HasParent(next, m - 1)}
  BY <1>1 DEF Mapping
<1>3. /\ DOMAIN Delivered = 1 .. made /\ DOMAIN Owed = 1 .. made
      /\ DOMAIN Delivered' = 1 .. made /\ DOMAIN Owed' = 1 .. made
  BY <1>1 DEF Messages
<1>4. ASSUME NEW m \in 1 .. made, m \notin Open PROVE Promise!Closed(m)
  <2>1. m - 1 \in Queues /\ ~HasParent(next, m - 1)
    BY <1>1, <1>2, <1>4 DEF Mapping
  <2>2. store'[m - 1] = store[m - 1]
    BY <2>1
  <2>3. Delivered'[m] = Delivered[m] /\ Owed'[m] = <<>>
    BY <1>1, <1>2, <1>4, <2>2 DEF Messages
  <2>4. QED
    BY <1>4, <2>3 DEF Promise!Closed
<1>5. ASSUME NEW m \in Open
      PROVE  /\ m \in 1 .. made /\ m - 1 \in Queues /\ HasParent(next, m - 1)
             /\ Delivered[m] = store[m - 1] /\ Delivered'[m] = store'[m - 1]
             /\ Delivered[m] \o Owed[m] = Output(next, store, m - 1)
             /\ Delivered'[m] \o Owed'[m] = Output(next, store', m - 1)
  <2>1. m \in 1 .. made /\ HasParent(next, m - 1) /\ m - 1 \in Queues
    BY <1>1, <1>2 DEF Mapping
  <2>2. Delivered[m] = store[m - 1] /\ Delivered'[m] = store'[m - 1]
    BY <1>1, <2>1 DEF Messages
  <2>3. Delivered[m] \o Owed[m] = Output(next, store, m - 1)
    BY <1>1 DEF Messages
  <2>4. Delivered'[m] \o Owed'[m] = Output(next, store', m - 1)
    BY <1>1, <1>2 DEF Messages
  <2>5. QED
    BY <2>1, <2>2, <2>3, <2>4
<1>6. QED
  BY <1>2, <1>3, <1>4, <1>5 DEF Promise!SameMessages

(* write() gives every open message what is written, once, at its end.     *)
LEMMA WriteStep ==
  ASSUME PipeInv, StoreInv, PipeInv', StoreInv', NEW x \in Items, Write(x)
  PROVE  PromiseStep
<1>1. /\ inside_msg /\ UNCHANGED <<next, inside_msg, made>> /\ store' = Received(store, Entry, <<x>>)
      /\ written' = Append(written, x)
  BY DEF Write, tree
<1>2. PICK full, d, st2, to : full = TRUE /\ d = <<x>> /\ st2 = store' /\ to = Entry
  OBVIOUS
<1>3. /\ full \in BOOLEAN /\ d \in Seq(Items) /\ st2 = Received(store, to, d)
      /\ ToSet(to) \subseteq ToSet(Entry) /\ (full => to = Entry)
  BY <1>1, <1>2
<1>4. /\ \A q \in Queues : HasParent(next, q) => Moved(Output(next, store, q), Output(next, st2, q), d, full)
      /\ \A q \in Queues : ~HasParent(next, q) => st2[q] = store[q]
  BY <1>1, <1>3, ServedMoves
<1>5. \A q \in Queues : ~HasParent(next, q) => store'[q] = store[q]
  BY <1>2, <1>4
<1>6. /\ Open' = Open /\ Promise!SameMessages
      /\ DOMAIN Delivered = 1 .. made
      /\ \A m \in 1 .. made : m \notin Open => Promise!Closed(m)
      /\ \A m \in Open : /\ m \in 1 .. made /\ m - 1 \in Queues /\ HasParent(next, m - 1)
                         /\ Delivered[m] \o Owed[m] = Output(next, store, m - 1)
                         /\ Delivered'[m] \o Owed'[m] = Output(next, store', m - 1)
  BY <1>1, <1>5, SameOpen
<1>7. ASSUME NEW m \in Open PROVE Promise!Receives(m, <<x>>)
  <2>1. PICK q : q = m - 1
    OBVIOUS
  <2>2. q \in Queues /\ HasParent(next, q)
    BY <1>6, <2>1
  <2>3. Output(next, st2, q) = Output(next, store, q) \o <<x>>
    BY <1>2, <1>4, <2>2 DEF Moved
  <2>4. Delivered'[m] \o Owed'[m] = (Delivered[m] \o Owed[m]) \o <<x>>
    BY <1>2, <1>6, <2>1, <2>3
  <2>5. QED
    BY <2>4 DEF Promise!Receives, Promise!Output
<1>8. Promise!Write(x)
  BY <1>1, <1>6, <1>7 DEF Promise!Write
<1>9. QED
  BY <1>8 DEF PromiseStep, Promise!Next

(* What was delivered is the beginning of what is.                         *)
LEMMA GrowsIsPrefix ==
  ASSUME NEW a \in Seq(Items), NEW b, Grows(a, b)
  PROVE  Promise!IsPrefix(a, b)
<1>1. PICK V : V = Items
  OBVIOUS
<1>2. PICK e \in Seq(V) : b = a \o e
  BY <1>1 DEF Grows
<1>3. a \in Seq(V)
  BY <1>1
<1>4. Promise!IsPrefix(a, a \o e)
  BY ONLY <1>3, e \in Seq(V), PrefixIs
<1>5. QED
  BY <1>2, <1>4

(* A call that throws, seen message by message: what can be read stays,    *)
(* and what an open one is still to get is what it is to its queue.        *)
LEMMA ThrowingStep ==
  ASSUME PipeInv, StoreInv, PipeInv', StoreInv', inside_msg, UNCHANGED <<next, inside_msg, made>>,
         \A q \in Queues : ~HasParent(next, q) => store'[q] = store[q],
         \A q \in Queues : HasParent(next, q) => Grows(store[q], store'[q])
  PROVE  /\ Open # {} /\ Open' = Open /\ Promise!SameMessages
         /\ \A m \in DOMAIN Delivered :
              \/ Promise!Closed(m)
              \/ /\ m \in Open /\ Promise!IsPrefix(Delivered[m], Delivered'[m])
                 /\ m - 1 \in Queues /\ HasParent(next, m - 1) /\ Delivered[m] = store[m - 1]
                 /\ Delivered[m] \in Seq(Items) /\ Owed[m] \in Seq(Items)
                 /\ Delivered[m] \o Owed[m] = Output(next, store, m - 1)
                 /\ Delivered'[m] \o Owed'[m] = Output(next, store', m - 1)
<1>1. /\ Open' = Open /\ Promise!SameMessages
      /\ DOMAIN Delivered = 1 .. made
      /\ \A m \in 1 .. made : m \notin Open => Promise!Closed(m)
      /\ \A m \in Open : /\ m \in 1 .. made /\ m - 1 \in Queues /\ HasParent(next, m - 1)
                         /\ Delivered[m] = store[m - 1] /\ Delivered'[m] = store'[m - 1]
                         /\ Delivered[m] \o Owed[m] = Output(next, store, m - 1)
                         /\ Delivered'[m] \o Owed'[m] = Output(next, store', m - 1)
  BY SameOpen
<1>2. Open # {}
  BY SomeOpen
<1>3. \A m \in 1 .. made : Delivered[m] \in Seq(Items) /\ Owed[m] \in Seq(Items)
  BY MappedBoth DEF Messages
<1>4. ASSUME NEW m \in Open PROVE Promise!IsPrefix(Delivered[m], Delivered'[m])
  <2>1. Delivered[m] \in Seq(Items) /\ Grows(Delivered[m], Delivered'[m])
    BY <1>1, <1>3
  <2>2. QED
    BY <2>1, GrowsIsPrefix
<1>5. QED
  BY <1>1, <1>2, <1>3, <1>4

(* write() that throws has given it to some, or to none.                   *)
LEMMA WriteThrowsStep ==
  ASSUME PipeInv, StoreInv, PipeInv', StoreInv', NEW x \in Items, NEW n \in 0 .. MaxQueues, WriteThrows(x, n)
  PROVE  PromiseStep
<1>1. /\ inside_msg /\ UNCHANGED <<next, inside_msg, made, written>> /\ n < Len(Entry)
      /\ store' = Received(store, SubSeq(Entry, 1, n), <<x>>)
  BY DEF WriteThrows, tree
<1>2. n \in Nat
  BY BoundsAssumption
<1>3. ToSet(SubSeq(Entry, 1, n)) \subseteq ToSet(Entry)
  BY <1>1, <1>2, EntryType, FirstServed
<1>4. PICK full, d, st2, to : full = FALSE /\ d = <<x>> /\ st2 = store' /\ to = SubSeq(Entry, 1, n)
  OBVIOUS
<1>5. /\ full \in BOOLEAN /\ d \in Seq(Items) /\ st2 = Received(store, to, d)
      /\ ToSet(to) \subseteq ToSet(Entry) /\ (full => to = Entry)
  <2>1. d \in Seq(Items)
    BY ONLY <1>4, x \in Items
  <2>2. QED
    BY ONLY <1>1, <1>3, <1>4, <2>1
<1>6. /\ \A q \in Queues : HasParent(next, q) =>
           Moved(Output(next, store, q), Output(next, st2, q), d, full) /\ Grows(store[q], st2[q])
      /\ \A q \in Queues : ~HasParent(next, q) => st2[q] = store[q]
  BY <1>1, <1>5, ServedMoves
<1>7. /\ \A q \in Queues : ~HasParent(next, q) => store'[q] = store[q]
      /\ \A q \in Queues : HasParent(next, q) => Grows(store[q], store'[q])
  BY <1>4, <1>6
<1>8. /\ Open # {} /\ Open' = Open /\ Promise!SameMessages
      /\ \A m \in DOMAIN Delivered :
           \/ Promise!Closed(m)
           \/ /\ m \in Open /\ Promise!IsPrefix(Delivered[m], Delivered'[m])
              /\ m - 1 \in Queues /\ HasParent(next, m - 1)
              /\ Delivered[m] \o Owed[m] = Output(next, store, m - 1)
              /\ Delivered'[m] \o Owed'[m] = Output(next, store', m - 1)
  BY <1>1, <1>7, ThrowingStep
<1>9. \A q \in Queues : HasParent(next, q) =>
        Output(next, store', q) \in {Output(next, store, q), Output(next, store, q) \o <<x>>}
  BY <1>4, <1>6 DEF Moved
<1>10. Promise!Fail
  BY <1>1, <1>8, <1>9 DEF Promise!Fail, Promise!Output
<1>11. QED
  BY <1>10 DEF PromiseStep, Promise!Next

(* What a queue will contain is data.                                      *)
LEMMA OutputType ==
  ASSUME PipeInv, NEW st \in Stores, NEW q \in Queues, HasParent(next, q)
  PROVE  Output(next, st, q) \in Seq(Items)
<1>1. Holder(next, q) \in Filters
  BY HolderIs
<1>2. Acyclic(next) /\ IsPorts(next)
  BY TreeType
<1>3. PICK w, V : w = Held(next, st) /\ V = Items
  OBVIOUS
<1>4. w \in Contents
  BY <1>2, <1>3, HeldEquation
<1>5. st[q] \in Seq(V) /\ w[Holder(next, q)] \in Seq(V)
  BY <1>1, <1>3, <1>4 DEF Contents, Stores
<1>6. st[q] \o w[Holder(next, q)] \in Seq(V)
  BY ONLY <1>5, ConcatRange
<1>7. QED
  BY <1>3, <1>6 DEF Output

(* b is c and then a beginning and an end of w.                            *)
HasParts(c, w, b) ==
  \E j, k \in 0 .. Len(w) : b = c \o (SubSeq(w, 1, j) \o SubSeq(w, k + 1, Len(w)))

(* Seen from outside, a beginning and an end of what was owed are left.    *)
LEMMA PartsOwed ==
  ASSUME NEW c \in Seq(Items), NEW h \in Seq(Items), NEW w \in Seq(Items), NEW b,
         KeepsParts(c \o h, c \o w, b)
  PROVE  HasParts(c, w, b)
<1>1. PICK V : V = Items
  OBVIOUS
<1>17. PICK u \in Seq(V), d \in Seq(V) : \E j, k \in 0 .. Len(d) :
         c \o w = ((c \o h) \o u) \o d /\ b = ((c \o h) \o u) \o (SubSeq(d, 1, j) \o SubSeq(d, k + 1, Len(d)))
  BY <1>1 DEF KeepsParts
<1>2. PICK j \in 0 .. Len(d), k \in 0 .. Len(d) :
        c \o w = ((c \o h) \o u) \o d /\ b = ((c \o h) \o u) \o (SubSeq(d, 1, j) \o SubSeq(d, k + 1, Len(d)))
  BY <1>17
<1>18. \A s1, s2, s3 \in Seq(V) : (s1 \o s2) \o s3 = s1 \o (s2 \o s3)
  <2>1. SUFFICES ASSUME NEW s1 \in Seq(V), NEW s2 \in Seq(V), NEW s3 \in Seq(V)
                 PROVE  (s1 \o s2) \o s3 = s1 \o (s2 \o s3)
    OBVIOUS
  <2>2. QED
    BY ONLY s1 \in Seq(V), s2 \in Seq(V), s3 \in Seq(V), ConcatAssociative, SMTT(60)
<1>3. PICK v : v = h \o u
  OBVIOUS
<1>4. c \in Seq(V) /\ h \in Seq(V) /\ w \in Seq(V) /\ u \in Seq(V) /\ d \in Seq(V)
  BY <1>1
<1>5. v \in Seq(V)
  BY ONLY <1>3, <1>4, ConcatRange
<1>6. (c \o h) \o u = c \o v
  <2>1. c \in Seq(V) /\ h \in Seq(V) /\ u \in Seq(V)
    BY <1>4
  <2>2. (c \o h) \o u = c \o (h \o u)
    BY ONLY <1>18, <2>1
  <2>3. QED
    BY ONLY <1>3, <2>2
<1>7. w = v \o d
  <2>5. c \in Seq(V) /\ v \in Seq(V) /\ d \in Seq(V)
    BY <1>4, <1>5
  <2>1. (c \o v) \o d = c \o (v \o d)
    BY ONLY <1>18, <2>5
  <2>2. v \o d \in Seq(V)
    BY ONLY <1>4, <1>5, ConcatRange
  <2>3. c \o w = c \o (v \o d)
    BY ONLY <1>2, <1>6, <2>1
  <2>4. QED
    BY ONLY <1>4, <2>2, <2>3, ConcatSimplifications
<1>8. PICK n, i, l : n = Len(v) /\ i = n + j /\ l = n + k
  OBVIOUS
<1>9. /\ n \in Nat /\ Len(d) \in Nat /\ Len(w) = n + Len(d) /\ i \in 0 .. Len(w) /\ l \in 0 .. Len(w)
      /\ j \in Nat /\ k \in Nat
  BY ONLY <1>4, <1>5, <1>7, <1>8, ConcatProperties, j \in 0 .. Len(d), k \in 0 .. Len(d)
<1>10. /\ \A x \in 1 .. n : w[x] = v[x]
       /\ \A x \in 1 .. Len(d) : w[n + x] = d[x]
  BY ONLY <1>4, <1>5, <1>7, <1>8, <1>9, ConcatProperties
<1>11. PICK p, e : p = SubSeq(d, 1, j) /\ e = SubSeq(d, k + 1, Len(d))
  OBVIOUS
<1>12. /\ p \in Seq(V) /\ Len(p) = j /\ \A x \in 1 .. j : p[x] = d[x]
       /\ e \in Seq(V) /\ Len(e) = Len(d) - k /\ \A x \in 1 .. Len(d) - k : e[x] = d[k + x]
  BY ONLY <1>4, <1>9, <1>11, j \in 0 .. Len(d), k \in 0 .. Len(d)
<1>13. SubSeq(w, 1, i) = v \o p
  <2>1. PICK a, z : a = SubSeq(w, 1, i) /\ z = v \o p
    OBVIOUS
  <2>2. a \in Seq(V) /\ Len(a) = i /\ \A x \in 1 .. i : a[x] = w[x]
    BY ONLY <1>4, <1>9, <2>1
  <2>3. z \in Seq(V) /\ Len(z) = n + j /\ \A x \in 1 .. n + j : z[x] = IF x <= n THEN v[x] ELSE p[x - n]
    BY ONLY <1>5, <1>8, <1>12, <2>1, ConcatProperties
  <2>4. ASSUME NEW x \in 1 .. i PROVE a[x] = z[x]
    <3>1. CASE x <= n
      BY <1>8, <1>9, <1>10, <2>2, <2>3, <3>1
    <3>2. CASE ~(x <= n)
      <4>1. PICK y : y = x - n
        OBVIOUS
      <4>2. y \in 1 .. j /\ y \in 1 .. Len(d) /\ x = n + y /\ x \in 1 .. n + j
        BY <1>8, <1>9, <3>2, <4>1
      <4>3. a[x] = d[y] /\ z[x] = p[y]
        BY <1>10, <2>2, <2>3, <3>2, <4>1, <4>2
      <4>4. QED
        BY <1>12, <4>2, <4>3
    <3>3. QED
      BY <3>1, <3>2
  <2>5. QED
    BY ONLY <1>8, <2>1, <2>2, <2>3, <2>4, SeqEqual
<1>14. SubSeq(w, l + 1, Len(w)) = e
  <2>1. PICK a : a = SubSeq(w, l + 1, Len(w))
    OBVIOUS
  <2>6. w \in Seq(V) /\ Len(w) \in Nat /\ l \in 0 .. Len(w)
    BY <1>4, <1>9
  <2>2. a \in Seq(V) /\ Len(a) = Len(w) - l /\ \A x \in 1 .. Len(w) - l : a[x] = w[l + x]
    BY ONLY <2>1, <2>6
  <2>3. Len(w) - l = Len(d) - k
    BY <1>8, <1>9
  <2>4. ASSUME NEW x \in 1 .. Len(d) - k PROVE a[x] = e[x]
    <3>1. k + x \in 1 .. Len(d) /\ l + x = n + (k + x)
      BY <1>8, <1>9
    <3>2. a[x] = w[l + x]
      BY <2>2, <2>3
    <3>3. w[l + x] = d[k + x]
      BY <1>10, <3>1
    <3>4. QED
      BY <1>12, <3>2, <3>3
  <2>5. QED
    BY ONLY <1>12, <2>1, <2>2, <2>3, <2>4, SeqEqual
<1>15. b = c \o ((v \o p) \o e)
  <2>1. b = (c \o v) \o (p \o e)
    BY <1>2, <1>6, <1>11
  <2>2. p \in Seq(V) /\ e \in Seq(V)
    BY <1>12
  <2>3. PICK r : r = p \o e
    OBVIOUS
  <2>4. r \in Seq(V)
    BY ONLY <2>2, <2>3, ConcatRange
  <2>8. c \in Seq(V) /\ v \in Seq(V)
    BY <1>4, <1>5
  <2>5. (c \o v) \o r = c \o (v \o r)
    BY ONLY <1>18, <2>4, <2>8
  <2>9. v \in Seq(V) /\ p \in Seq(V) /\ e \in Seq(V)
    BY <2>2, <2>8
  <2>6. (v \o p) \o e = v \o (p \o e)
    BY ONLY <1>18, <2>9
  <2>7. QED
    BY ONLY <2>1, <2>3, <2>5, <2>6
<1>16. QED
  BY <1>9, <1>13, <1>14, <1>15 DEF HasParts

(* end_msg that throws: of what was owed a beginning has gone on, and the  *)
(* filter that threw keeps an end, or nothing.                             *)
LEMMA EndMsgThrowsStep ==
  ASSUME PipeInv, StoreInv, PipeInv', StoreInv', NEW n \in 1 .. Cardinality(Filters), EndMsgThrows(n)
  PROVE  PromiseStep
<1>1. PICK P, st : P = Preorder(next, pipe) /\ st = FinishMsg(P, n - 1)
  OBVIOUS
<1>2. /\ inside_msg /\ pipe # Null /\ UNCHANGED <<next, inside_msg, made, written>>
      /\ n <= Len(P) /\ store' \in PartlyFlushed(st, P[n])
  BY <1>1, FiltersAssumption DEF EndMsgThrows, PipeInv, RootsInv, tree
<1>3. P \in Seq(Filters)
  BY <1>1, PreorderType
<1>4. Cardinality(Filters) \in Nat
  BY FiltersAssumption, FS_CardinalityType
<1>5. n \in 1 .. Len(P) /\ n - 1 \in 0 .. Len(P)
  BY <1>2, <1>3, <1>4
<1>6. Finished(st, P, n - 1)
  BY <1>1, <1>2, <1>5, FinishKeeps
<1>7. st \in Stores /\ SameOutput(st)
  BY <1>6 DEF Finished
<1>8. PICK f, D : f = P[n] /\ D = {P[i] : i \in 1 .. n - 1}
  OBVIOUS
<1>9. f \in Filters /\ Cleaned(next, st, f, D) /\ store' \in PartlyFlushed(st, f)
  BY <1>1, <1>2, <1>5, <1>6, <1>8, NextIsCleaned
<1>10. /\ \A q \in Queues : HasParent(next, q) =>
            Grows(st[q], store'[q]) /\ KeepsParts(st[q], Output(next, st, q), Output(next, store', q))
       /\ \A q \in Queues : ~HasParent(next, q) => store'[q] = st[q]
  BY <1>7, <1>9, PartsKeep
<1>11. \A q \in Queues : store[q] \in Seq(Items)
  BY TreeType DEF Stores
<1>12. /\ \A q \in Queues : ~HasParent(next, q) => store'[q] = store[q]
       /\ \A q \in Queues : HasParent(next, q) => Grows(store[q], store'[q])
  BY <1>7, <1>10, <1>11, GrowsAlong DEF SameOutput
<1>13. /\ Open # {} /\ Open' = Open /\ Promise!SameMessages
       /\ \A m \in DOMAIN Delivered :
            \/ Promise!Closed(m)
            \/ /\ m \in Open /\ Promise!IsPrefix(Delivered[m], Delivered'[m])
               /\ m - 1 \in Queues /\ HasParent(next, m - 1) /\ Delivered[m] = store[m - 1]
               /\ Delivered[m] \in Seq(Items) /\ Owed[m] \in Seq(Items)
               /\ Delivered[m] \o Owed[m] = Output(next, store, m - 1)
               /\ Delivered'[m] \o Owed'[m] = Output(next, store', m - 1)
  BY <1>2, <1>12, ThrowingStep
<1>14. ASSUME NEW m \in DOMAIN Delivered, m - 1 \in Queues, HasParent(next, m - 1), Delivered[m] = store[m - 1],
              Delivered[m] \in Seq(Items), Owed[m] \in Seq(Items),
              Delivered[m] \o Owed[m] = Output(next, store, m - 1),
              Delivered'[m] \o Owed'[m] = Output(next, store', m - 1)
       PROVE  \E j, k \in 0 .. Len(Owed[m]) :
                Delivered'[m] \o Owed'[m] =
                  Delivered[m] \o (SubSeq(Owed[m], 1, j) \o SubSeq(Owed[m], k + 1, Len(Owed[m])))
  <2>1. PICK q, c, w, b : q = m - 1 /\ c = Delivered[m] /\ w = Owed[m] /\ b = Delivered'[m] \o Owed'[m]
    OBVIOUS
  <2>2. Output(next, st, q) = c \o w /\ Grows(c, st[q])
    BY <1>7, <1>14, <2>1 DEF SameOutput
  <2>3. PICK h \in Seq(Items) : st[q] = c \o h
    BY <2>2 DEF Grows
  <2>4. KeepsParts(c \o h, c \o w, b)
    BY <1>10, <1>14, <2>1, <2>2, <2>3
  <2>5. c \in Seq(Items) /\ w \in Seq(Items)
    BY <1>14, <2>1
  <2>6. HasParts(c, w, b)
    BY ONLY <2>4, <2>5, h \in Seq(Items), PartsOwed
  <2>7. QED
    BY ONLY <2>1, <2>6 DEF HasParts
<1>15. Promise!EndFails
  BY <1>2, <1>13, <1>14 DEF Promise!EndFails
<1>16. QED
  BY <1>15 DEF PromiseStep, Promise!Next

(* end_msg gives every open message all that is owed.                      *)
LEMMA EndMsgStep ==
  ASSUME PipeInv, StoreInv, PipeInv', StoreInv', EndMsg
  PROVE  PromiseStep
<1>1. PICK P, st : P = Preorder(next, pipe) /\ st = store'
  OBVIOUS
<1>2. /\ inside_msg /\ pipe # Null /\ st = FinishMsg(P, Len(P)) /\ made' = made /\ ~inside_msg'
      /\ written' = written
  BY <1>1, FiltersAssumption DEF EndMsg, PipeInv, RootsInv
<1>3. P \in Seq(Filters)
  BY <1>1, PreorderType
<1>4. Finished(st, P, Len(P))
  <2>1. Len(P) \in 0 .. Len(P)
    BY <1>3
  <2>2. QED
    BY <1>1, <1>2, <2>1, FinishKeeps
<1>5. \A f \in Filters : st[f] = <<>>
  <2>1. \A f \in ToSet(P) : f \in {P[i] : i \in 1 .. Len(P)}
    BY <1>3, RangeOf
  <2>2. QED
    BY <1>4, <2>1 DEF Finished
<1>6. SameOutput(st) /\ st \in Stores
  BY <1>4 DEF Finished
<1>7. Mapping /\ Mapping' /\ Messages /\ Messages'
  BY MappedBoth
<1>8. ASSUME NEW q \in Queues, HasParent(next, q) PROVE Output(next, store, q) = st[q]
  <2>1. PICK D, nx : D = Filters /\ nx = next
    OBVIOUS
  <2>2. Acyclic(nx) /\ IsPorts(nx) /\ D \in SUBSET Filters
    BY <2>1, TreeType
  <2>3. \A x \in D : HasParent(nx, x) => Holder(nx, x) \in D
    BY <2>1, HolderIs
  <2>4. \A x \in D : st[x] = <<>>
    BY <1>5, <2>1
  <2>5. \A x \in D : Held(nx, st)[x] = <<>>
    BY ONLY <1>6, <2>2, <2>3, <2>4, NothingHeld
  <2>6. Holder(next, q) \in D
    BY <1>8, <2>1, HolderIs
  <2>7. st[q] \in Seq(Items)
    BY <1>6 DEF Stores
  <2>8. Output(next, st, q) = st[q] \o <<>>
    BY <2>1, <2>5, <2>6 DEF Output
  <2>9. st[q] \o <<>> = st[q]
    BY <2>7, ConcatEmptySeq
  <2>10. QED
    BY <1>6, <1>8, <2>8, <2>9 DEF SameOutput
<1>9. Open # {} /\ Open' = {}
  BY <1>2, SomeOpen DEF Open
<1>10. Delivered' = [m \in DOMAIN Delivered |-> Promise!Output(m)]
  <2>1. DOMAIN Delivered = 1 .. made /\ Delivered' = [m \in 1 .. made |-> st[m - 1]]
    BY <1>1, <1>2, <1>7 DEF Mapping
  <2>2. ASSUME NEW m \in 1 .. made PROVE Promise!Output(m) = st[m - 1]
    <3>1. m - 1 \in Queues
      BY <1>7 DEF Mapping
    <3>2. CASE m \in Open
      <4>1. HasParent(next, m - 1) /\ Delivered[m] \o Owed[m] = Output(next, store, m - 1)
        BY <1>7, <3>2 DEF Messages
      <4>2. QED
        BY <1>8, <3>1, <4>1 DEF Promise!Output
    <3>3. CASE m \notin Open
      <4>1. ~HasParent(next, m - 1)
        BY <1>2, <1>7, <3>3 DEF Mapping
      <4>2. Delivered[m] = store[m - 1] /\ Owed[m] = <<>> /\ Delivered[m] \in Seq(Items)
        BY <1>7, <3>3 DEF Messages
      <4>3. Delivered[m] \o <<>> = Delivered[m]
        BY <4>2, ConcatEmptySeq
      <4>4. st[m - 1] = store[m - 1]
        BY <1>6, <3>1, <4>1 DEF SameOutput
      <4>5. QED
        BY <4>2, <4>3, <4>4 DEF Promise!Output
    <3>4. QED
      BY <3>2, <3>3
  <2>3. QED
    BY <2>1, <2>2
<1>11. Owed' = [m \in DOMAIN Delivered |-> <<>>]
  BY <1>2, <1>7, <1>9 DEF Mapping
<1>12. Promise!End
  BY <1>2, <1>9, <1>10, <1>11 DEF Promise!End
<1>13. QED
  BY <1>12 DEF PromiseStep, Promise!Next

(* read() takes the beginning of one message.                              *)
LEMMA ReadStep ==
  ASSUME PipeInv, StoreInv, PipeInv', StoreInv', NEW q \in Queues, NEW n \in ReadSizes, Read(q, n)
  PROVE  PromiseStep
<1>1. /\ q < MessageCount /\ q >= offset /\ UNCHANGED <<next, inside_msg, made, written, buffers, offset>>
      /\ store' = [store EXCEPT ![buffers[q - offset + 1]] = SubSeq(@, n + 1, Len(@))]
  BY DEF Read, tree, outputs
<1>2. /\ made \in Nat /\ offset \in Nat /\ Len(buffers) \in Nat /\ made = offset + Len(buffers)
      /\ Queues \subseteq Nat /\ \A i \in 1 .. Len(buffers) : buffers[i] = offset + i - 1
  BY QueueNumbers
<1>3. q \in Nat /\ q - offset + 1 \in 1 .. Len(buffers) /\ buffers[q - offset + 1] = q /\ q < made
  <2>1. q \in Nat /\ q < offset + Len(buffers) /\ q >= offset
    BY <1>1, <1>2 DEF MessageCount
  <2>2. PICK l, o, i : l = Len(buffers) /\ o = offset /\ i = q - o + 1
    OBVIOUS
  <2>3. l \in Nat /\ o \in Nat /\ q < o + l /\ q >= o /\ made = o + l
    BY <1>2, <2>1, <2>2
  <2>4. i \in 1 .. l /\ o + i - 1 = q /\ q < made
    BY ONLY <2>1, <2>2, <2>3
  <2>5. buffers[i] = o + i - 1
    BY <1>2, <2>2, <2>4
  <2>6. QED
    BY <2>1, <2>2, <2>4, <2>5
<1>4. PICK s, V : s = store[q] /\ V = Items
  OBVIOUS
<1>5. s \in Seq(V) /\ n \in Nat \ {0} /\ Len(s) \in Nat
  <2>1. s \in Seq(V)
    BY <1>4, TreeType DEF Stores
  <2>2. QED
    BY <2>1, BoundsAssumption
<1>6. store' = [store EXCEPT ![q] = SubSeq(s, n + 1, Len(s))]
  BY <1>1, <1>3, <1>4
<1>7. PICK m : m = q + 1
  OBVIOUS
<1>8. m \in 1 .. made /\ m - 1 = q /\ \A k \in 1 .. made : k # m => k - 1 # q
  BY <1>2, <1>3, <1>7
<1>9. Mapping /\ Mapping' /\ Messages /\ Messages'
  BY MappedBoth
<1>10. /\ \A x \in (Filters \cup Queues) \ {q} : store'[x] = store[x]
       /\ store'[q] = SubSeq(s, n + 1, Len(s)) /\ store' \in Stores
  BY <1>6, TreeType DEF Stores, PipeInv, TypeOK
<1>11. Delivered[m] = s /\ DOMAIN Delivered = 1 .. made
  BY <1>4, <1>8, <1>9 DEF Messages
<1>12. Delivered' = [Delivered EXCEPT ![m] = SubSeq(@, n + 1, Len(@))]
  <2>1. ASSUME NEW k \in 1 .. made, k # m PROVE Delivered'[k] = Delivered[k]
    <3>1. k - 1 \in Queues /\ k - 1 # q
      BY <1>8, <1>9, <2>1 DEF Mapping
    <3>2. store'[k - 1] = store[k - 1]
      BY <1>10, <3>1
    <3>3. QED
      BY <1>1, <1>9, <3>2 DEF Messages
  <2>2. Delivered'[m] = SubSeq(s, n + 1, Len(s))
    BY <1>1, <1>8, <1>9, <1>10 DEF Messages
  <2>3. Delivered' = [k \in 1 .. made |-> Delivered'[k]] /\ Delivered = [k \in 1 .. made |-> Delivered[k]]
    BY <1>1, <1>9 DEF Mapping
  <2>4. QED
    BY <1>11, <2>1, <2>2, <2>3
<1>13. Open' = Open
  BY <1>1, <1>9 DEF Mapping
<1>14. Owed' = Owed
  <2>1. \A x \in Filters : store'[x] = store[x]
    BY <1>10, FiltersAssumption
  <2>2. PICK D, nx, st, st2 : D = {} /\ nx = next /\ st = store /\ st2 = store'
    OBVIOUS
  <2>3. Forest(nx) /\ IsPorts(nx) /\ st \in Stores /\ st2 \in Stores /\ D \in SUBSET Filters
    BY <1>10, <2>2, TreeType
  <2>4. /\ \A x \in Filters \ D : st2[x] = st[x]
        /\ \A x \in D : \A j \in DOMAIN nx[x] : nx[x][j] \in Filters => nx[x][j] \in D
    BY <2>1, <2>2
  <2>5. \A x \in Filters \ D : Held(nx, st2)[x] = Held(nx, st)[x]
    BY ONLY <2>3, <2>4, HeldElsewhere
  <2>6. ASSUME NEW k \in Open
        PROVE  Held(next, store')[Holder(next, k - 1)] = Held(next, store)[Holder(next, k - 1)]
    <3>1. HasParent(next, k - 1)
      BY <1>9 DEF Messages
    <3>2. Holder(next, k - 1) \in Filters
      BY <3>1, HolderIs
    <3>3. QED
      BY <2>2, <2>5, <3>2
  <2>7. QED
    BY <1>1, <1>9, <1>13, <2>6 DEF Mapping
<1>15. CASE n <= Len(s)
  <2>1. n \in 1 .. Len(Delivered[m]) /\ m \in DOMAIN Delivered
    BY <1>5, <1>8, <1>11, <1>15
  <2>2. Promise!Read(m, n)
    BY <1>1, <1>12, <1>13, <1>14 DEF Promise!Read
  <2>3. QED
    BY <2>1, <2>2 DEF PromiseStep, Promise!Next
<1>16. CASE n > Len(s)
  <2>1. PICK k : k = Len(s)
    OBVIOUS
  <2>2. k \in Nat /\ SubSeq(s, n + 1, k) = <<>> /\ SubSeq(s, k + 1, k) = <<>>
    BY <1>5, <1>16, <2>1
  <2>3. Delivered' = [Delivered EXCEPT ![m] = <<>>]
    BY <1>11, <1>12, <2>1, <2>2
  <2>4. CASE k = 0
    <3>1. s = <<>>
      <4>1. s \in Seq(V) /\ Len(s) = 0
        BY <1>5, <2>1, <2>4
      <4>2. QED
        BY ONLY <4>1
    <3>2. Delivered = [j \in 1 .. made |-> Delivered[j]]
      BY <1>9 DEF Mapping
    <3>3. Delivered' = Delivered
      BY <1>11, <2>3, <3>1, <3>2
    <3>4. QED
      BY <1>1, <1>13, <1>14, <3>3 DEF PromiseStep, Promise!vars
  <2>5. CASE k # 0
    <3>1. k \in 1 .. Len(Delivered[m]) /\ m \in DOMAIN Delivered
      BY <1>8, <1>11, <2>1, <2>2, <2>5
    <3>2. Delivered' = [Delivered EXCEPT ![m] = SubSeq(@, k + 1, Len(@))]
      BY <1>11, <2>1, <2>2, <2>3
    <3>3. Promise!Read(m, k)
      BY <1>1, <1>13, <1>14, <3>2 DEF Promise!Read
    <3>4. QED
      BY <3>1, <3>3 DEF PromiseStep, Promise!Next
  <2>6. QED
    BY <2>4, <2>5
<1>17. QED
  BY <1>5, <1>15, <1>16

(* A new pipe has no messages.                                             *)
LEMMA PromiseInit ==
  ASSUME Init
  PROVE  Promise!Init
<1>1. /\ made = 0 /\ offset = 0 /\ buffers = <<>> /\ inside_msg = FALSE /\ written = <<>>
  BY DEF Init
<1>2. MessageCount = 0 /\ Open = {}
  BY <1>1 DEF MessageCount, Open
<1>3. 1 .. MessageCount = {}
  BY <1>2
<1>4. Delivered = <<>> /\ Owed = <<>>
  BY <1>3 DEF Delivered, Owed
<1>5. QED
  BY <1>1, <1>2, <1>4 DEF Promise!Init

(* Every step of the pipe is a step of the promise, or shows nothing.      *)
LEMMA StepIs ==
  ASSUME PipeInv, StoreInv, PipeInv', StoreInv', [Next]_vars
  PROVE  PromiseStep
<1>1. ASSUME NotInUse, NEW f \in TopLevel, AppendFilter(f) PROVE PromiseStep
  <2>1. ~inside_msg /\ ~inside_msg' /\ UNCHANGED <<buffers, offset, store, written>>
    BY <1>1 DEF AppendFilter, NotInUse, OutOfBounds, Untouched, outputs
  <2>2. QED
    BY <2>1, SeenIdle
<1>2. ASSUME NotInUse, NEW f \in TopLevel, Prepend(f) PROVE PromiseStep
  <2>1. ~inside_msg /\ ~inside_msg' /\ UNCHANGED <<buffers, offset, store, written>>
    BY <1>2 DEF Prepend, NotInUse, Untouched, outputs
  <2>2. QED
    BY <2>1, SeenIdle
<1>3. CASE NotInUse /\ Pop
  <2>1. ~inside_msg /\ ~inside_msg' /\ UNCHANGED <<buffers, offset, store, written>>
    BY <1>3 DEF Pop, NotInUse, OutOfBounds, Untouched, outputs
  <2>2. QED
    BY <2>1, SeenIdle
<1>4. CASE Reset
  <2>1. ~inside_msg /\ ~inside_msg' /\ UNCHANGED <<buffers, offset, store, written>>
    BY <1>4 DEF Reset, outputs
  <2>2. QED
    BY <2>1, SeenIdle
<1>5. CASE StartMsg
  <2>1. PICK n : n = Len(Endpoints(next, Root))
    OBVIOUS
  <2>2. /\ made + n <= MaxQueues /\ ~inside_msg /\ FindEndpoints(n)
        /\ UNCHANGED <<offset, store, written>>
    BY <1>5, <2>1 DEF StartMsg
  <2>3. Opened(n)
    BY <2>1, <2>2, EndpointCount DEF Opened
  <2>4. QED
    BY <2>1, <2>2, <2>3, BeginStep
<1>6. ASSUME NEW n \in 0 .. MaxQueues, StartMsgThrows(n) PROVE PromiseStep
  <2>1. PICK k : k = Len(Endpoints(next, Root))
    OBVIOUS
  <2>2. /\ made + k <= MaxQueues /\ n <= k /\ ~inside_msg /\ FindEndpoints(n)
        /\ UNCHANGED <<inside_msg, offset, store, written>>
    BY <1>6, <2>1 DEF StartMsgThrows
  <2>3. n \in Nat /\ k \in Nat /\ made \in Nat /\ MaxQueues \in Nat
    BY <2>1, EndpointCount, QueueNumbers, BoundsAssumption
  <2>4. Opened(n)
    BY <2>1, <2>2, <2>3 DEF Opened
  <2>5. ~inside_msg'
    BY <2>2
  <2>6. QED
    BY <2>2, <2>4, <2>5, BeginStep
<1>7. CASE EndMsg
  BY <1>7, EndMsgStep
<1>8. ASSUME NEW n \in 1 .. Cardinality(Filters), EndMsgThrows(n) PROVE PromiseStep
  BY <1>8, EndMsgThrowsStep
<1>9. ASSUME NEW x \in Items, Write(x) PROVE PromiseStep
  BY <1>9, WriteStep
<1>10. ASSUME NEW x \in Items, NEW n \in 0 .. MaxQueues, WriteThrows(x, n) PROVE PromiseStep
  BY <1>10, WriteThrowsStep
<1>11. ASSUME NEW m \in Queues, SetDefaultMsg(m) PROVE PromiseStep
  BY <1>11, SeenSame DEF SetDefaultMsg, tree, outputs
<1>12. ASSUME NEW m \in Queues, NEW n \in ReadSizes, Read(m, n) PROVE PromiseStep
  BY <1>12, ReadStep
<1>13. CASE UNCHANGED vars
  BY <1>13, SeenSame DEF vars, tree, outputs
<1>14. QED
  BY <1>1, <1>2, <1>3, <1>4, <1>5, <1>6, <1>7, <1>8, <1>9, <1>10, <1>11, <1>12, <1>13 DEF Next, TreeChanges, Calls

(* The Pipe implements PipePromise: through any tree of filters, whenever  *)
(* the tree is changed between messages and whatever throws but the end of *)
(* a message, each message gets what is written, once and in order, in the *)
(* queue of its own; an end_msg that throws may open a gap in what it owed *)
(* or leave a part to come twice, and takes nothing back                   *)
(* (pipe.cpp:162-189, pipe_rw.cpp:34-38, filter.cpp:28-66, hex.cpp:104).   *)
THEOREM KeepsItsPromise == Spec => KeepsPipePromise
<1>1. Init => Promise!Init
  BY PromiseInit
<1>2. PipeInv /\ StoreInv /\ PipeInv' /\ StoreInv' /\ [Next]_vars => [Promise!Next]_Promise!vars
  BY StepIs DEF PromiseStep
<1>3. QED
  BY <1>1, <1>2, PipeInvariant, DataIsInTheWay, PTL DEF Spec, KeepsPipePromise, Promise!Spec
=============================================================================
