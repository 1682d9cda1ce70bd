-------------------------- MODULE MatchmakingProofs --------------------------
(***************************************************************************)
(* Proofs about Matchmaking, for every number of instances, requests and   *)
(* entries, and whatever players ask for.                                  *)
(*                                                                         *)
(* The pairing algorithm is a recursive function on finite sets.  What it  *)
(* computes is proved by taking a smallest set for which the claim fails.  *)
(***************************************************************************)
EXTENDS Matchmaking, FiniteSetTheorems, SequenceTheorems, WellFoundedInduction, TLAPS

-----------------------------------------------------------------------------
(* Least elements and recursion on finite sets. *)

(* A set of natural numbers has a least element. *)
LEMMA LeastNumber ==
    ASSUME NEW T \in SUBSET Nat, T # {}
    PROVE  \E m \in T : \A n \in T : m <= n
<1> DEFINE R == OpToRel(<, Nat)
<1>1. IsWellFoundedOn(R, Nat)
  BY NatLessThanWellFounded
<1>2. \A m, n \in Nat : n < m => <<n, m>> \in R
  BY DEF OpToRel
<1> HIDE DEF R
<1>3. PICK m \in T : \A n \in T : <<n, m>> \notin R
  BY <1>1, WFMin
<1>4. \A n \in T : ~(n < m)
  BY <1>2, <1>3
<1> QED BY <1>4

(* A function on the subsets of a finite set that looks itself up at a     *)
(* smaller subset only is well defined: the largest k up to which it is    *)
(* defined on the sets of k elements has no end.                           *)
Recursive(X, h, n) ==
    \E f : f = [E \in SUBSET X |-> IF E = {} THEN <<>> ELSE h[E] \o f[n[E]]]

LEMMA RecursionOnSubsets ==
    ASSUME NEW X, IsFiniteSet(X), NEW h, NEW n,
           \A E \in SUBSET X : E # {} => n[E] \subseteq E /\ n[E] # E
    PROVE  Recursive(X, h, n)
<1> DEFINE Small(k) == {E \in SUBSET X : Cardinality(E) <= k}
           Def(k) == \E f : f = [E \in Small(k) |-> IF E = {} THEN <<>> ELSE h[E] \o f[n[E]]]
           Bad == {k \in Nat : ~Def(k)}
<1>1. \A E \in SUBSET X : IsFiniteSet(E) /\ Cardinality(E) \in Nat
  BY FS_Subset, FS_CardinalityType
<1>2. \A E \in SUBSET X : E # {} => n[E] \in SUBSET X /\ Cardinality(n[E]) < Cardinality(E)
  <2> SUFFICES ASSUME NEW E \in SUBSET X, E # {}
               PROVE  n[E] \in SUBSET X /\ Cardinality(n[E]) < Cardinality(E)
    OBVIOUS
  <2>1. n[E] \in SUBSET E /\ n[E] # E /\ n[E] \in SUBSET X
    OBVIOUS
  <2>2. Cardinality(n[E]) <= Cardinality(E) /\ Cardinality(n[E]) # Cardinality(E)
    BY <1>1, <2>1, FS_Subset
  <2> QED BY <1>1, <2>1, <2>2
<1>3. Bad = {}
  <2> SUFFICES ASSUME Bad # {} PROVE FALSE
    OBVIOUS
  <2>1. PICK k \in Bad : \A j \in Bad : k <= j
    <3>1. Bad \in SUBSET Nat
      OBVIOUS
    <3> HIDE DEF Bad
    <3> QED BY <3>1, LeastNumber
  <2>2. CASE k = 0
    <3> DEFINE f == [E \in Small(0) |-> <<>>]
    <3>1. \A E \in Small(0) : E = {}
      BY <1>1, FS_EmptySet
    <3>2. f = [E \in Small(0) |-> IF E = {} THEN <<>> ELSE h[E] \o f[n[E]]]
      BY <3>1
    <3> QED BY <2>2, <3>2
  <2>3. CASE k # 0
    <3>1. k \in Nat /\ k - 1 \in Nat /\ k - 1 < k /\ k - 1 \notin Bad
      <4> HIDE DEF Def
      <4>1. k \in Nat
        BY <2>1
      <4>2. k - 1 \in Nat /\ ~(k <= k - 1)
        BY <2>3, <4>1
      <4> QED BY <2>1, <4>1, <4>2
    <3>2. PICK f : f = [E \in Small(k - 1) |-> IF E = {} THEN <<>> ELSE h[E] \o f[n[E]]]
      BY <3>1
    <3> DEFINE g == [E \in Small(k) |-> IF E = {} THEN <<>> ELSE h[E] \o f[n[E]]]
    <3>3. \A E \in Small(k) : E # {} => n[E] \in Small(k - 1) /\ n[E] \in Small(k)
      BY <1>1, <1>2, <3>1
    <3>4. \A E \in Small(k - 1) : g[E] = f[E]
      <4>1. \A E \in Small(k - 1) : E \in Small(k)
        BY <1>1, <3>1
      <4> HIDE DEF Small
      <4> QED BY <3>2, <4>1
    <3>5. g = [E \in Small(k) |-> IF E = {} THEN <<>> ELSE h[E] \o g[n[E]]]
      <4> HIDE DEF Small
      <4>1. \A E \in Small(k) : (IF E = {} THEN <<>> ELSE h[E] \o g[n[E]]) = (IF E = {} THEN <<>> ELSE h[E] \o f[n[E]])
        <5> HIDE DEF g
        <5> QED BY <3>3, <3>4
      <4> QED BY <4>1
    <3> HIDE DEF g
    <3> QED BY <2>1, <3>5
  <2> QED BY <2>2, <2>3
<1>4. Cardinality(X) \in Nat /\ Small(Cardinality(X)) = SUBSET X
  BY <1>1, FS_Subset, FS_CardinalityType
<1>5. Def(Cardinality(X))
  <2> HIDE DEF Def
  <2> QED BY <1>3, <1>4
<1>6. ASSUME NEW T, T = SUBSET X,
             \E f : f = [E \in T |-> IF E = {} THEN <<>> ELSE h[E] \o f[n[E]]]
      PROVE  Recursive(X, h, n)
  <2> HIDE DEF Small, Def, Bad
  <2> QED BY <1>6 DEF Recursive
<1> HIDE DEF Small
<1> QED BY <1>4, <1>5, <1>6

(* Among the subsets of a finite set, every family has a smallest one. *)
LEMMA SmallestSubset ==
    ASSUME NEW X, IsFiniteSet(X), NEW F \in SUBSET (SUBSET X), F # {}
    PROVE  \E E \in F : \A D \in F : D \subseteq E => D = E
<1>1. IsWellFoundedOn(StrictSubsetOrdering(X), SUBSET X)
  BY FS_StrictSubsetOrderingWellFounded, FS_FiniteSubsetsOfFinite
<1>2. PICK E \in F : \A D \in F : <<D, E>> \notin StrictSubsetOrdering(X)
  BY <1>1, WFMin
<1> QED BY <1>2 DEF StrictSubsetOrdering

(* A finite set with a strict total order has a first element. *)
LEMMA FirstElement ==
    ASSUME NEW X, IsFiniteSet(X), X # {}, NEW R,
           \A a, b, c \in X : <<a, b>> \in R /\ <<b, c>> \in R => <<a, c>> \in R,
           \A a, b \in X : a = b \/ <<a, b>> \in R \/ <<b, a>> \in R
    PROVE  \E a \in X : \A b \in X \ {a} : <<a, b>> \in R
<1> DEFINE HasFirst(E) == \E a \in E : \A b \in E \ {a} : <<a, b>> \in R
           F == {E \in SUBSET X : E # {} /\ ~HasFirst(E)}
<1>1. F = {}
  <2> SUFFICES ASSUME F # {} PROVE FALSE
    OBVIOUS
  <2>1. PICK E \in F : \A D \in F : D \subseteq E => D = E
    <3>1. F \in SUBSET (SUBSET X)
      OBVIOUS
    <3> HIDE DEF F
    <3> QED BY <3>1, SmallestSubset
  <2>2. PICK x : x \in E
    BY <2>1
  <2>3. CASE E = {x}
    BY <2>1, <2>3
  <2>4. CASE E # {x}
    <3>1. E \ {x} \in SUBSET X /\ E \ {x} # {} /\ E \ {x} # E
      BY <2>1, <2>2, <2>4
    <3>2. HasFirst(E \ {x})
      <4> HIDE DEF HasFirst
      <4> QED BY <2>1, <3>1
    <3>3. PICK a \in E \ {x} : \A b \in (E \ {x}) \ {a} : <<a, b>> \in R
      BY <3>2
    <3>4. E \in SUBSET X /\ a \in X /\ x \in X
      BY <2>1, <2>2, <3>3
    <3>5. CASE <<a, x>> \in R
      <4>1. \A b \in E \ {a} : <<a, b>> \in R
        BY <3>3, <3>5
      <4> QED BY <2>1, <3>3, <4>1
    <3>6. CASE <<x, a>> \in R
      <4>1. \A b \in E \ {x} : <<x, b>> \in R
        BY <3>3, <3>4, <3>6
      <4> QED BY <2>1, <2>2, <4>1
    <3> QED BY <3>3, <3>4, <3>5, <3>6
  <2> QED BY <2>3, <2>4
<1>2. HasFirst(X)
  <2> HIDE DEF HasFirst
  <2> QED BY <1>1
<1> QED BY <1>2

-----------------------------------------------------------------------------
(* The order of the edges. *)

(* The edges of a set of entries are finitely many, and between entries    *)
(* that are created.                                                       *)
LEMMA EdgesFinite ==
    ASSUME NEW g \in SUBSET Entries
    PROVE  IsFiniteSet(g) /\ IsFiniteSet(Edges(g)) /\ Edges(g) \subseteq g \X g
<1>1. IsFiniteSet(Entries)
  <2>1. 1 \in Int /\ NumEntries \in Int
    BY MatchmakingAssumption
  <2> QED BY <2>1, FS_Interval DEF Entries
<1>2. IsFiniteSet(g)
  BY <1>1, FS_Subset
<1>3. IsFiniteSet(g \X g)
  BY <1>2, FS_Product
<1>4. Edges(g) \in SUBSET (g \X g)
  BY DEF Edges
<1> QED BY <1>2, <1>3, <1>4, FS_Subset

LEMMA ScoreIsNat == \A i, j : Score(i, j) \in {100, 50, 10}
BY DEF Score

(* The first edge of a set is one of it, and comes before all others. *)
LEMMA FirstEdgeIsFirst ==
    ASSUME NEW g \in SUBSET Entries, NEW E \in SUBSET Edges(g), E # {}
    PROVE  FirstEdge(E) \in E /\ \A d \in E \ {FirstEdge(E)} : Before(FirstEdge(E), d)
<1> DEFINE R == {p \in E \X E : Before(p[1], p[2])}
<1>1. IsFiniteSet(E) /\ E \subseteq Entries \X Entries
  BY EdgesFinite, FS_Subset
<1>2. \A d, e \in E : <<d, e>> \in R <=> Before(d, e)
  OBVIOUS
<1>3. \A e \in E : e[1] \in Nat /\ e[2] \in Nat /\ e = <<e[1], e[2]>>
  BY <1>1 DEF Entries
<1>4. \A a, b, c \in E : Before(a, b) /\ Before(b, c) => Before(a, c)
  BY <1>3, ScoreIsNat DEF Before
<1>5. \A a, b \in E : a = b \/ Before(a, b) \/ Before(b, a)
  BY <1>3, ScoreIsNat DEF Before
<1>6. \E a \in E : \A b \in E \ {a} : <<a, b>> \in R
  <2>1. \A a, b, c \in E : <<a, b>> \in R /\ <<b, c>> \in R => <<a, c>> \in R
    BY <1>2, <1>4
  <2>2. \A a, b \in E : a = b \/ <<a, b>> \in R \/ <<b, a>> \in R
    BY <1>2, <1>5
  <2> HIDE DEF R
  <2> QED BY <1>1, <2>1, <2>2, FirstElement
<1>7. \E a \in E : \A b \in E \ {a} : Before(a, b)
  BY <1>2, <1>6
<1> QED BY <1>7 DEF FirstEdge

(* The first edge goes, so that fewer edges are left. *)
LEMMA WithoutIsSmaller ==
    ASSUME NEW g \in SUBSET Entries, NEW E \in SUBSET Edges(g), E # {}
    PROVE  /\ Without(E, FirstEdge(E)) \in SUBSET E
           /\ FirstEdge(E) \notin Without(E, FirstEdge(E))
           /\ FirstEdge(E) \in E
<1>1. FirstEdge(E) \in E
  BY FirstEdgeIsFirst
<1> QED BY <1>1 DEF Without, Pair

(* The algorithm is well defined: f is its recursive function. *)
GreedyFunction(f, g) ==
    /\ PairsInGroup(g) = f[Edges(g)]
    /\ f[{}] = <<>>
    /\ \A E \in SUBSET Edges(g) : E # {} =>
          f[E] = <<Pair(FirstEdge(E)[1], FirstEdge(E)[2])>> \o f[Without(E, FirstEdge(E))]

LEMMA GreedyRecursion ==
    ASSUME NEW g \in SUBSET Entries
    PROVE  \E f : GreedyFunction(f, g)
<1> DEFINE X == Edges(g)
           Eq(f) == f = [edges \in SUBSET Edges(g) |->
                           IF edges = {} THEN <<>>
                           ELSE LET e == FirstEdge(edges)
                                IN  <<Pair(e[1], e[2])>> \o f[Without(edges, e)]]
           h == [E \in SUBSET X |-> <<Pair(FirstEdge(E)[1], FirstEdge(E)[2])>>]
           n == [E \in SUBSET X |-> Without(E, FirstEdge(E))]
<1>1. PairsInGroup(g) = (CHOOSE f : Eq(f))[Edges(g)]
  BY DEF PairsInGroup
<1>2. \E f : Eq(f)
  <2>1. /\ \A E \in SUBSET X : E # {} => n[E] \subseteq E /\ n[E] # E
        /\ IsFiniteSet(X)
    BY WithoutIsSmaller, EdgesFinite
  <2>2. \A E \in SUBSET X : /\ h[E] = <<Pair(FirstEdge(E)[1], FirstEdge(E)[2])>>
                            /\ n[E] = Without(E, FirstEdge(E))
    OBVIOUS
  <2> HIDE DEF h, n, X
  <2>3. Recursive(X, h, n)
    BY <2>1, RecursionOnSubsets
  <2>4. PICK f : f = [E \in SUBSET X |-> IF E = {} THEN <<>> ELSE h[E] \o f[n[E]]]
    BY <2>3 DEF Recursive
  <2>5. f = [E \in SUBSET X |-> IF E = {} THEN <<>>
                                ELSE <<Pair(FirstEdge(E)[1], FirstEdge(E)[2])>> \o f[Without(E, FirstEdge(E))]]
    BY <2>2, <2>4
  <2> QED BY <2>5 DEF X
<1>3. PICK f : Eq(f) /\ PairsInGroup(g) = f[Edges(g)]
  <2> HIDE DEF Eq
  <2> QED BY <1>1, <1>2
<1>4. f[{}] = <<>>
  BY <1>3
<1>5. \A E \in SUBSET Edges(g) : E # {} =>
          f[E] = <<Pair(FirstEdge(E)[1], FirstEdge(E)[2])>> \o f[Without(E, FirstEdge(E))]
  BY <1>3
<1> HIDE DEF Eq
<1> QED BY <1>3, <1>4, <1>5 DEF GreedyFunction

-----------------------------------------------------------------------------
(* What the algorithm computes. *)

EdgePairs(E) == {Pair(e[1], e[2]) : e \in E}

(* A list of pairs for a set of edges: it has edges of the set only, no    *)
(* player twice, and nothing better for the players of an edge that was    *)
(* left out.                                                               *)
Paired(s, E) ==
    /\ s \in Seq(EdgePairs(E))
    /\ \A a, b \in DOMAIN s : a # b => s[a] \cap s[b] = {}
    /\ \A e \in E : \E k \in DOMAIN s, d \in E :
          /\ s[k] = Pair(d[1], d[2]) /\ s[k] \cap Pair(e[1], e[2]) # {}
          /\ Score(d[1], d[2]) >= Score(e[1], e[2])

(* One step of the algorithm. *)
LEMMA GreedyStep ==
    ASSUME NEW g \in SUBSET Entries, NEW E \in SUBSET Edges(g), E # {},
           NEW s, Paired(s, Without(E, FirstEdge(E)))
    PROVE  Paired(<<Pair(FirstEdge(E)[1], FirstEdge(E)[2])>> \o s, E)
<1> DEFINE e0 == FirstEdge(E)
           D  == Without(E, e0)
           P  == Pair(e0[1], e0[2])
           r  == <<P>> \o s
<1>1. e0 \in E /\ D \in SUBSET E /\ \A d \in E \ {e0} : Before(e0, d)
  BY FirstEdgeIsFirst, WithoutIsSmaller
<1>2. \A d \in D : Pair(d[1], d[2]) \cap P = {}
  BY DEF Without
<1>3. \A d \in E : Score(e0[1], e0[2]) >= Score(d[1], d[2])
  BY <1>1, ScoreIsNat DEF Before
<1>4. \A d \in E \ D : P \cap Pair(d[1], d[2]) # {}
  BY DEF Without
<1>5. Paired(s, D)
  OBVIOUS
<1> HIDE DEF e0, D, P
<1>6. s \in Seq(EdgePairs(E)) /\ <<P>> \in Seq(EdgePairs(E))
  <2>1. P \in EdgePairs(E) /\ EdgePairs(D) \subseteq EdgePairs(E)
    BY <1>1 DEF EdgePairs, P
  <2> QED BY <1>5, <2>1, SeqMonotonic DEF Paired
<1>7. /\ r \in Seq(EdgePairs(E))
      /\ DOMAIN r = 1 .. Len(s) + 1 /\ DOMAIN s = 1 .. Len(s) /\ Len(s) \in Nat
      /\ r[1] = P
      /\ \A k \in 1 .. Len(s) : r[k + 1] = s[k]
  BY <1>6
<1> HIDE DEF r
<1>8. \A k \in DOMAIN s : s[k] \cap P = {}
  <2>1. \A k \in DOMAIN s : s[k] \in EdgePairs(D)
    BY <1>5, <1>7, ElementOfSeq DEF Paired
  <2> QED BY <1>2, <2>1 DEF EdgePairs
<1>9. \A k \in DOMAIN r : k = 1 \/ (k - 1 \in DOMAIN s /\ r[k] = s[k - 1])
  BY <1>7
<1>10. \A a, b \in DOMAIN r : a # b => r[a] \cap r[b] = {}
  <2> SUFFICES ASSUME NEW a \in DOMAIN r, NEW b \in DOMAIN r, a # b
               PROVE  r[a] \cap r[b] = {}
    OBVIOUS
  <2>1. a \in Nat /\ b \in Nat
    BY <1>7
  <2>2. CASE a = 1
    BY <1>7, <1>8, <1>9, <2>2
  <2>3. CASE b = 1
    BY <1>7, <1>8, <1>9, <2>3
  <2>4. CASE a # 1 /\ b # 1
    <3>1. a - 1 \in DOMAIN s /\ b - 1 \in DOMAIN s /\ a - 1 # b - 1
      BY <1>9, <2>1, <2>4
    <3> QED BY <1>5, <1>9, <2>4, <3>1 DEF Paired
  <2> QED BY <2>2, <2>3, <2>4
<1>11. \A e \in E : \E k \in DOMAIN r, d \in E :
          /\ r[k] = Pair(d[1], d[2]) /\ r[k] \cap Pair(e[1], e[2]) # {}
          /\ Score(d[1], d[2]) >= Score(e[1], e[2])
  <2> SUFFICES ASSUME NEW e \in E
               PROVE  \E k \in DOMAIN r, d \in E :
                         /\ r[k] = Pair(d[1], d[2]) /\ r[k] \cap Pair(e[1], e[2]) # {}
                         /\ Score(d[1], d[2]) >= Score(e[1], e[2])
    OBVIOUS
  <2>1. CASE e \in D
    <3>1. PICK k \in DOMAIN s, d \in D :
             /\ s[k] = Pair(d[1], d[2]) /\ s[k] \cap Pair(e[1], e[2]) # {}
             /\ Score(d[1], d[2]) >= Score(e[1], e[2])
      BY <1>5, <2>1 DEF Paired
    <3>2. k + 1 \in DOMAIN r /\ r[k + 1] = s[k] /\ d \in E
      BY <1>1, <1>7
    <3> QED BY <3>1, <3>2
  <2>2. CASE e \notin D
    <3>1. 1 \in DOMAIN r /\ r[1] = Pair(e0[1], e0[2])
      BY <1>7 DEF P
    <3>2. r[1] \cap Pair(e[1], e[2]) # {}
      BY <1>4, <1>7, <2>2
    <3> QED BY <1>1, <1>3, <3>1, <3>2
  <2> QED BY <2>1, <2>2
<1>12. Paired(r, E)
  BY <1>7, <1>10, <1>11 DEF Paired
<1> QED BY <1>12 DEF r, P, e0

(* The pairs of a group. *)
LEMMA GreedyPairs ==
    ASSUME NEW g \in SUBSET Entries
    PROVE  Paired(PairsInGroup(g), Edges(g))
<1>1. PICK f : GreedyFunction(f, g)
  BY GreedyRecursion
<1> DEFINE F == {E \in SUBSET Edges(g) : ~Paired(f[E], E)}
<1>2. F = {}
  <2> SUFFICES ASSUME F # {} PROVE FALSE
    OBVIOUS
  <2>1. PICK E \in F : \A D \in F : D \subseteq E => D = E
    <3>1. F \in SUBSET (SUBSET Edges(g)) /\ IsFiniteSet(Edges(g))
      BY EdgesFinite
    <3> HIDE DEF F
    <3> QED BY <3>1, SmallestSubset
  <2>2. E \in SUBSET Edges(g) /\ ~Paired(f[E], E)
    BY <2>1
  <2>3. CASE E = {}
    <3>1. f[E] = <<>>
      BY <1>1, <2>3 DEF GreedyFunction
    <3>2. Paired(<<>>, {})
      BY DEF Paired
    <3> QED BY <2>2, <2>3, <3>1, <3>2
  <2>4. CASE E # {}
    <3> DEFINE D == Without(E, FirstEdge(E))
    <3>1. D \in SUBSET E /\ D # E
      BY <2>2, <2>4, WithoutIsSmaller
    <3>2. D \in SUBSET Edges(g) /\ D \notin F
      BY <2>1, <2>2, <3>1
    <3>3. Paired(f[D], D)
      BY <3>2
    <3>4. Paired(<<Pair(FirstEdge(E)[1], FirstEdge(E)[2])>> \o f[D], E)
      BY <2>2, <2>4, <3>3, GreedyStep
    <3>5. f[E] = <<Pair(FirstEdge(E)[1], FirstEdge(E)[2])>> \o f[D]
      BY <1>1, <2>2, <2>4 DEF GreedyFunction
    <3> QED BY <2>2, <3>4, <3>5
  <2> QED BY <2>3, <2>4
<1>3. Paired(f[Edges(g)], Edges(g))
  BY <1>2
<1> QED BY <1>1, <1>3 DEF GreedyFunction

(* The pairing of every group a pass can read is stable: whatever players  *)
(* ask for, this is what the recursive function computes.                  *)
LEMMA PairingStable == PairingIsStable
<1> SUFFICES ASSUME NEW g \in Buckets(Scanned) \cup CrossSkill(Scanned, row)
             PROVE  LET taken == PairsInGroup(g)
                        pairs == {taken[k] : k \in DOMAIN taken}
                    IN  /\ \A p, q \in pairs : p = q \/ p \cap q = {}
                        /\ \A e \in Edges(g) : \E i, j \in g :
                              /\ Pair(i, j) \in pairs /\ {i, j} \cap {e[1], e[2]} # {}
                              /\ Score(i, j) >= Score(e[1], e[2])
  BY DEF PairingIsStable
<1> DEFINE taken == PairsInGroup(g)
           pairs == {taken[k] : k \in DOMAIN taken}
<1>1. g \in SUBSET Entries
  BY DEF Buckets, CrossSkill, Scanned, Waiting
<1>2. Paired(taken, Edges(g)) /\ Edges(g) \subseteq g \X g
  BY <1>1, GreedyPairs, EdgesFinite
<1> HIDE DEF taken
<1>3. \A p, q \in pairs : p = q \/ p \cap q = {}
  BY <1>2 DEF Paired
<1>4. ASSUME NEW e \in Edges(g)
      PROVE  \E i, j \in g : /\ Pair(i, j) \in pairs /\ {i, j} \cap {e[1], e[2]} # {}
                             /\ Score(i, j) >= Score(e[1], e[2])
  <2>1. PICK k \in DOMAIN taken, d \in Edges(g) :
           /\ taken[k] = Pair(d[1], d[2]) /\ taken[k] \cap Pair(e[1], e[2]) # {}
           /\ Score(d[1], d[2]) >= Score(e[1], e[2])
    BY <1>2, <1>4 DEF Paired
  <2>2. d[1] \in g /\ d[2] \in g
    BY <1>2
  <2>3. Pair(d[1], d[2]) \in pairs /\ {d[1], d[2]} \cap {e[1], e[2]} # {}
    BY <2>1 DEF Pair
  <2> QED BY <2>1, <2>2, <2>3
<1> QED BY <1>3, <1>4 DEF taken

-----------------------------------------------------------------------------
(* The plan of a pass. *)

(* Groups a pass tells apart: none is empty and no entry is in two. *)
Apart(gs) ==
    /\ gs \in SUBSET (SUBSET Entries)
    /\ \A g \in gs : g # {}
    /\ \A g, h \in gs : g = h \/ g \cap h = {}

LEMMA OldestGroupIsOne ==
    ASSUME NEW gs, Apart(gs), gs # {}
    PROVE  OldestGroup(gs) \in gs
<1> DEFINE R == {p \in gs \X gs : Older(p[1], p[2])}
<1>1. gs \in SUBSET (SUBSET Entries) /\ IsFiniteSet(gs)
  <2>1. IsFiniteSet(SUBSET Entries)
    BY EdgesFinite, FS_SUBSET
  <2> QED BY <2>1, FS_Subset DEF Apart
<1>2. \A g, h \in gs : <<g, h>> \in R <=> Older(g, h)
  OBVIOUS
<1>3. \A g \in gs : g \subseteq Nat /\ g # {} /\ \E i \in g : \A j \in g : i <= j
  <2>1. \A g \in gs : g \in SUBSET Nat /\ g # {}
    BY <1>1 DEF Apart, Entries
  <2> QED BY <2>1, LeastNumber
<1>4. \A f, g, h \in gs : Older(f, g) /\ Older(g, h) => Older(f, h)
  <2> SUFFICES ASSUME NEW f \in gs, NEW g \in gs, NEW h \in gs, Older(f, g), Older(g, h)
               PROVE  Older(f, h)
    OBVIOUS
  <2>1. PICK i \in f : \A j \in g : i < j
    BY DEF Older
  <2>2. PICK k \in g : \A j \in h : k < j
    BY DEF Older
  <2>3. i \in Nat /\ k \in Nat /\ i < k /\ h \subseteq Nat
    BY <1>3, <2>1, <2>2
  <2>4. \A j \in h : i < j
    BY <2>2, <2>3
  <2> QED BY <2>1, <2>4 DEF Older
<1>5. \A g, h \in gs : g = h \/ Older(g, h) \/ Older(h, g)
  <2> SUFFICES ASSUME NEW g \in gs, NEW h \in gs, g # h
               PROVE  Older(g, h) \/ Older(h, g)
    OBVIOUS
  <2>1. PICK i \in g : \A j \in g : i <= j
    BY <1>3
  <2>2. PICK k \in h : \A j \in h : k <= j
    BY <1>3
  <2>3. i # k
    BY DEF Apart
  <2>4. i \in Nat /\ k \in Nat /\ g \subseteq Nat /\ h \subseteq Nat
    BY <1>3, <2>1, <2>2
  <2>5. CASE i < k
    <3>1. \A j \in h : i < j
      BY <2>2, <2>4, <2>5
    <3> QED BY <2>1, <3>1 DEF Older
  <2>6. CASE k < i
    <3>1. \A j \in g : k < j
      BY <2>1, <2>4, <2>6
    <3> QED BY <2>2, <3>1 DEF Older
  <2> QED BY <2>3, <2>4, <2>5, <2>6
<1>6. \E g \in gs : \A h \in gs \ {g} : <<g, h>> \in R
  <2>1. \A a, b, c \in gs : <<a, b>> \in R /\ <<b, c>> \in R => <<a, c>> \in R
    BY <1>2, <1>4
  <2>2. \A a, b \in gs : a = b \/ <<a, b>> \in R \/ <<b, a>> \in R
    BY <1>2, <1>5
  <2> HIDE DEF R
  <2> QED BY <1>1, <2>1, <2>2, FirstElement
<1>7. \E g \in gs : \A h \in gs \ {g} : Older(g, h)
  BY <1>2, <1>6
<1> QED BY <1>7 DEF OldestGroup

PairsOfFunction(f, groups) ==
    /\ PairsOf(groups) = f[groups]
    /\ f[{}] = <<>>
    /\ \A gs \in SUBSET groups : gs # {} =>
          f[gs] = PairsInGroup(OldestGroup(gs)) \o f[gs \ {OldestGroup(gs)}]

LEMMA PairsOfRecursion ==
    ASSUME NEW groups, Apart(groups)
    PROVE  \E f : PairsOfFunction(f, groups)
<1> DEFINE Eq(f) == f = [gs \in SUBSET groups |->
                           IF gs = {} THEN <<>>
                           ELSE LET g == OldestGroup(gs) IN PairsInGroup(g) \o f[gs \ {g}]]
           h == [gs \in SUBSET groups |-> PairsInGroup(OldestGroup(gs))]
           n == [gs \in SUBSET groups |-> gs \ {OldestGroup(gs)}]
<1>1. PairsOf(groups) = (CHOOSE f : Eq(f))[groups]
  BY DEF PairsOf
<1>2. \E f : Eq(f)
  <2>1. IsFiniteSet(groups)
    <3>1. IsFiniteSet(SUBSET Entries)
      BY EdgesFinite, FS_SUBSET
    <3> QED BY <3>1, FS_Subset DEF Apart
  <2>2. \A gs \in SUBSET groups : gs # {} => n[gs] \subseteq gs /\ n[gs] # gs
    <3>1. \A gs \in SUBSET groups : Apart(gs)
      BY DEF Apart
    <3> QED BY <3>1, OldestGroupIsOne
  <2>3. \A gs \in SUBSET groups : /\ h[gs] = PairsInGroup(OldestGroup(gs))
                                  /\ n[gs] = gs \ {OldestGroup(gs)}
    OBVIOUS
  <2> HIDE DEF h, n
  <2>4. Recursive(groups, h, n)
    BY <2>1, <2>2, RecursionOnSubsets
  <2>5. PICK f : f = [gs \in SUBSET groups |-> IF gs = {} THEN <<>> ELSE h[gs] \o f[n[gs]]]
    BY <2>4 DEF Recursive
  <2>6. f = [gs \in SUBSET groups |-> IF gs = {} THEN <<>>
                ELSE PairsInGroup(OldestGroup(gs)) \o f[gs \ {OldestGroup(gs)}]]
    BY <2>3, <2>5
  <2> QED BY <2>6
<1>3. PICK f : Eq(f) /\ PairsOf(groups) = f[groups]
  <2> HIDE DEF Eq
  <2> QED BY <1>1, <1>2
<1>4. f[{}] = <<>>
  BY <1>3
<1>5. \A gs \in SUBSET groups : gs # {} =>
          f[gs] = PairsInGroup(OldestGroup(gs)) \o f[gs \ {OldestGroup(gs)}]
  BY <1>3
<1> HIDE DEF Eq
<1> QED BY <1>3, <1>4, <1>5 DEF PairsOfFunction

(* The pairs of some groups are edges within one of them. *)
PairsWithin(gs) == {p \in SUBSET Entries : \E g \in gs : p \in EdgePairs(Edges(g))}

LEMMA PairsOfGroups ==
    ASSUME NEW groups, Apart(groups)
    PROVE  PairsOf(groups) \in Seq(PairsWithin(groups))
<1>1. PICK f : PairsOfFunction(f, groups)
  BY PairsOfRecursion
<1> DEFINE F == {gs \in SUBSET groups : f[gs] \notin Seq(PairsWithin(gs))}
<1>2. F = {}
  <2> SUFFICES ASSUME F # {} PROVE FALSE
    OBVIOUS
  <2>1. PICK gs \in F : \A hs \in F : hs \subseteq gs => hs = gs
    <3>1. F \in SUBSET (SUBSET groups) /\ IsFiniteSet(groups)
      <4>1. IsFiniteSet(SUBSET Entries)
        BY EdgesFinite, FS_SUBSET
      <4> QED BY <4>1, FS_Subset DEF Apart
    <3> HIDE DEF F
    <3> QED BY <3>1, SmallestSubset
  <2>2. gs \in SUBSET groups /\ f[gs] \notin Seq(PairsWithin(gs))
    BY <2>1
  <2>3. CASE gs = {}
    <3>1. f[gs] = <<>>
      BY <1>1, <2>3 DEF PairsOfFunction
    <3> QED BY <2>2, <3>1, EmptySeq
  <2>4. CASE gs # {}
    <3> DEFINE g  == OldestGroup(gs)
               hs == gs \ {g}
    <3>1. g \in gs /\ g \in SUBSET Entries
      BY <2>2, <2>4, OldestGroupIsOne DEF Apart
    <3>2. f[hs] \in Seq(PairsWithin(hs))
      <4>1. hs \in SUBSET groups /\ hs \subseteq gs /\ hs # gs
        BY <2>2, <3>1
      <4> QED BY <2>1, <4>1
    <3>3. PairsInGroup(g) \in Seq(EdgePairs(Edges(g)))
      BY <3>1, GreedyPairs DEF Paired
    <3> HIDE DEF g
    <3>4. PairsWithin(hs) \subseteq PairsWithin(gs)
      BY DEF PairsWithin
    <3>5. EdgePairs(Edges(g)) \subseteq PairsWithin(gs)
      <4>1. EdgePairs(Edges(g)) \subseteq SUBSET Entries
        BY <3>1, EdgesFinite DEF EdgePairs, Pair
      <4> QED BY <3>1, <4>1 DEF PairsWithin
    <3>6. f[hs] \in Seq(PairsWithin(gs)) /\ PairsInGroup(g) \in Seq(PairsWithin(gs))
      BY <3>2, <3>3, <3>4, <3>5, SeqMonotonic
    <3>7. f[gs] = PairsInGroup(g) \o f[hs]
      BY <1>1, <2>2, <2>4 DEF PairsOfFunction, g
    <3> QED BY <2>2, <3>6, <3>7
  <2> QED BY <2>3, <2>4
<1>3. f[groups] \in Seq(PairsWithin(groups))
  BY <1>2
<1> QED BY <1>1, <1>3 DEF PairsOfFunction

(* The pairs a pass may plan for the entries S it has read. *)
Suitable(S, read) ==
    {p \in SUBSET S : \E i, j \in S :
        /\ p = Pair(i, j) /\ i # j
        /\ Compatible(i, j)
        /\ profile[i].mode = profile[j].mode
        /\ profile[i].skill = profile[j].skill \/ (read[i].long /\ read[j].long)}

LEMMA PlanIsSuitable ==
    ASSUME NEW S \in SUBSET Entries, NEW read
    PROVE  Plan(S, read) \in Seq(Suitable(S, read))
<1>1. ASSUME NEW g \in SUBSET S,
             \A i, j \in g : /\ profile[i].mode = profile[j].mode
                             /\ profile[i].skill = profile[j].skill \/ (read[i].long /\ read[j].long)
      PROVE  EdgePairs(Edges(g)) \subseteq Suitable(S, read)
  <2> SUFFICES ASSUME NEW e \in Edges(g)
               PROVE  Pair(e[1], e[2]) \in Suitable(S, read)
    BY DEF EdgePairs
  <2>1. e[1] \in g /\ e[2] \in g /\ e[1] < e[2] /\ Compatible(e[1], e[2])
    BY DEF Edges
  <2>2. e[1] # e[2] /\ e[1] \in S /\ e[2] \in S
    <3>1. e[1] \in S /\ e[2] \in S
      BY <2>1
    <3>2. Entries \subseteq Nat
      BY DEF Entries
    <3>3. e[1] \in Nat /\ e[2] \in Nat
      BY <3>1, <3>2
    <3> QED BY <2>1, <3>1, <3>3
  <2>3. Pair(e[1], e[2]) \in SUBSET S
    BY <2>2 DEF Pair
  <2> QED BY <1>1, <2>1, <2>2, <2>3 DEF Suitable
<1>2. Apart(Buckets(S)) /\ PairsWithin(Buckets(S)) \subseteq Suitable(S, read)
  <2>1. Apart(Buckets(S))
    BY DEF Apart, Buckets
  <2>2. \A g \in Buckets(S) : /\ g \in SUBSET S
                              /\ \A i, j \in g : /\ profile[i].mode = profile[j].mode
                                                 /\ profile[i].skill = profile[j].skill
    BY DEF Buckets
  <2>3. \A g \in Buckets(S) : EdgePairs(Edges(g)) \subseteq Suitable(S, read)
    BY <1>1, <2>2
  <2> QED BY <2>1, <2>3 DEF PairsWithin
<1>3. Apart(CrossSkill(S, read)) /\ PairsWithin(CrossSkill(S, read)) \subseteq Suitable(S, read)
  <2>1. Apart(CrossSkill(S, read))
    <3> DEFINE G(e) == {f \in S : read[f].long /\ profile[f].mode = profile[e].mode}
    <3>1. \A g \in CrossSkill(S, read) : g # {} /\ \E e \in S : g = G(e)
      BY DEF CrossSkill
    <3>2. \A d, e \in S : G(d) = G(e) \/ G(d) \cap G(e) = {}
      OBVIOUS
    <3>3. \A e \in S : G(e) \in SUBSET Entries
      OBVIOUS
    <3> HIDE DEF G
    <3> QED BY <3>1, <3>2, <3>3 DEF Apart
  <2>2. \A g \in CrossSkill(S, read) :
           /\ g \in SUBSET S
           /\ \A i, j \in g : profile[i].mode = profile[j].mode /\ read[i].long /\ read[j].long
    BY DEF CrossSkill
  <2>3. \A g \in CrossSkill(S, read) : EdgePairs(Edges(g)) \subseteq Suitable(S, read)
    BY <1>1, <2>2
  <2> QED BY <2>1, <2>3 DEF PairsWithin
<1>4. /\ PairsOf(Buckets(S)) \in Seq(Suitable(S, read))
      /\ PairsOf(CrossSkill(S, read)) \in Seq(Suitable(S, read))
  BY <1>2, <1>3, PairsOfGroups, SeqMonotonic
<1> QED BY <1>4, ConcatProperties DEF Plan

-----------------------------------------------------------------------------
(* The inductive invariant. *)

(* What a match must be, of two entries that exist. *)
Fit(m) ==
    \E i, j \in Created :
        /\ m = Pair(i, j) /\ i # j
        /\ Compatible(i, j)
        /\ profile[i].mode = profile[j].mode
        /\ profile[i].skill = profile[j].skill \/ (age[i] >= 1 /\ age[j] >= 1)

MatchesFit == \A m \in matches : Fit(m)

(* What a row or a copy of it says of an entry, however old, is true: the  *)
(* match it names exists, and a wait it calls long was.                    *)
Sound(r, e) ==
    /\ r \in Rows
    /\ r.status = "MATCHED" => \E m \in matches : e \in m
    /\ r.match # {} => r.match \in matches /\ e \in r.match
    /\ r.long => age[e] >= 1

RowOK(e) == Sound(row[e], e) /\ (row[e].status # "none" => e \in Created)

(* A call that joins has a form; a pass has copies of what it will pair,   *)
(* and what it will pair fits, whatever has happened to the rows.          *)
CallOK(c) ==
    /\ at[c] = "insert" => form[c] \in Profiles
    /\ DOMAIN copies[c] \subseteq Created
    /\ \A e \in DOMAIN copies[c] : Sound(copies[c][e], e)
    /\ \A k \in DOMAIN plan[c] : Fit(plan[c][k]) /\ plan[c][k] \subseteq DOMAIN copies[c]
    /\ at[c] = "pair" <=> plan[c] # <<>>

(* Entries are numbered without gaps, and there is room for those of the   *)
(* calls that are about to insert one.                                     *)
NumberedInOrder ==
    \E n \in 0 .. NumEntries : Created = 1 .. n /\ n + Cardinality(Joining) <= NumEntries

(* The variables are functions of the entries or of the calls. *)
Places == {"idle", "insert", "scan", "pair", "save"}
TableTypes ==
    /\ row \in [Entries -> Rows]
    /\ profile \in [Entries -> Profiles \cup {NoProfile}]
    /\ age \in [Entries -> 0 .. 2]
    /\ matches \subseteq SUBSET Created
    /\ faults \in 0 .. MaxFaults
CallTypes ==
    /\ at \in [Calls -> Places]
    /\ form \in [Calls -> Profiles \cup {NoProfile}]
    /\ plan \in [Calls -> Seq(SUBSET Created)]
    /\ copies = [c \in Calls |-> copies[c]]

MatchInv ==
    /\ TableTypes /\ CallTypes
    /\ NumberedInOrder
    /\ MatchesFit
    /\ \A e \in Entries : RowOK(e)
    /\ \A c \in Calls : CallOK(c)

(* What the invariant says of the state carries over to a state in which   *)
(* entries have only been added or aged, and matches only been added.      *)
Grows ==
    /\ Created \subseteq Created'
    /\ \A e \in Created : profile'[e] = profile[e]
    /\ \A e \in Entries : age[e] >= 1 => age'[e] >= 1
    /\ matches \subseteq matches'

LEMMA FitGrows ==
    ASSUME Grows, NEW m, Fit(m)
    PROVE  Fit(m)'
<1> PICK i \in Created, j \in Created :
        /\ m = Pair(i, j) /\ i # j
        /\ Compatible(i, j)
        /\ profile[i].mode = profile[j].mode
        /\ profile[i].skill = profile[j].skill \/ (age[i] >= 1 /\ age[j] >= 1)
  BY DEF Fit
<1>1. /\ i \in Created' /\ j \in Created'
      /\ profile'[i] = profile[i] /\ profile'[j] = profile[j]
      /\ age[i] >= 1 => age'[i] >= 1
      /\ age[j] >= 1 => age'[j] >= 1
  BY DEF Grows, Created
<1>2. Compatible(i, j)'
  BY <1>1 DEF Compatible
<1> QED BY <1>1, <1>2 DEF Fit, Pair

LEMMA SoundGrows ==
    ASSUME Grows, NEW e \in Entries, NEW r, Sound(r, e)
    PROVE  Sound(r, e)'
BY DEF Sound, Grows, Rows

(* The state of a call that does not take the step stays in order. *)
LEMMA CallStaysOK ==
    ASSUME MatchInv, Grows, NEW d \in Calls,
           UNCHANGED <<at[d], form[d], plan[d], copies[d]>>
    PROVE  CallOK(d)'
<1>1. CallOK(d) /\ at'[d] = at[d] /\ form'[d] = form[d] /\ plan'[d] = plan[d] /\ copies'[d] = copies[d]
  BY DEF MatchInv
<1>2. PICK p, q : p = plan[d] /\ q = copies[d]
  OBVIOUS
<1>3. DOMAIN q \subseteq Created' /\ DOMAIN q \subseteq Entries
  BY <1>1, <1>2 DEF CallOK, Grows, Created
<1>4. \A e \in DOMAIN q : Sound(q[e], e)'
  <2> SUFFICES ASSUME NEW e \in DOMAIN q PROVE Sound(q[e], e)'
    OBVIOUS
  <2>1. Sound(q[e], e) /\ e \in Entries
    BY <1>1, <1>2, <1>3 DEF CallOK
  <2> QED BY <2>1, SoundGrows
<1>5. \A k \in DOMAIN p : Fit(p[k])'
  <2> SUFFICES ASSUME NEW k \in DOMAIN p PROVE Fit(p[k])'
    OBVIOUS
  <2>1. Fit(p[k])
    BY <1>1, <1>2 DEF CallOK
  <2> QED BY <2>1, FitGrows
<1>6. plan'[d] = p /\ copies'[d] = q
  BY <1>1, <1>2
<1>7. \A e \in DOMAIN copies'[d] : Sound(copies[d][e], e)'
  BY <1>4, <1>6 DEF Sound
<1>8. \A k \in DOMAIN plan'[d] : Fit(plan[d][k])'
  BY <1>5, <1>6 DEF Fit
<1> QED BY <1>1, <1>2, <1>3, <1>6, <1>7, <1>8 DEF CallOK

(* A row that is not written stays in order. *)
LEMMA RowStaysOK ==
    ASSUME MatchInv, Grows, NEW e \in Entries, row'[e] = row[e]
    PROVE  RowOK(e)'
<1>1. RowOK(e)
  BY DEF MatchInv
<1>2. PICK r : r = row[e]
  OBVIOUS
<1>3. Sound(r, e)'
  BY <1>1, <1>2, SoundGrows DEF RowOK
<1> QED BY <1>1, <1>2, <1>3 DEF RowOK, Sound, Grows

(* A step of one call: its own state and the rows it writes are all there  *)
(* is to look at.                                                          *)
LEMMA OneCallMoves ==
    ASSUME MatchInv, Grows, NEW c \in Calls,
           TableTypes', CallTypes', NumberedInOrder', MatchesFit',
           \A e \in Entries : row'[e] = row[e] \/ RowOK(e)',
           \A d \in Calls \ {c} : /\ at'[d] = at[d] /\ form'[d] = form[d]
                                  /\ plan'[d] = plan[d] /\ copies'[d] = copies[d],
           CallOK(c)'
    PROVE  MatchInv'
<1>1. \A e \in Entries : RowOK(e)'
  BY RowStaysOK
<1>2. \A d \in Calls : CallOK(d)'
  BY CallStaysOK
<1> QED BY <1>1, <1>2 DEF MatchInv

-----------------------------------------------------------------------------
(* Counting the entries and the calls that are about to insert one. *)

LEMMA JoiningIsFinite ==
    /\ IsFiniteSet(Joining) /\ Cardinality(Joining) \in Nat
    /\ IsFiniteSet(Joining') /\ Cardinality(Joining') \in Nat
<1>1. IsFiniteSet(Calls)
  BY MatchmakingAssumption DEF Calls
<1>2. Joining \in SUBSET Calls /\ Joining' \in SUBSET Calls
  BY DEF Joining
<1> QED BY <1>1, <1>2, FS_Subset, FS_CardinalityType

LEMMA CreatedCount ==
    ASSUME NEW n \in Nat, Created = 1 .. n
    PROVE  Cardinality(Created) = n
<1>1. 1 \in Int /\ n \in Int
  OBVIOUS
<1>2. Cardinality(1 .. n) = IF 1 > n THEN 0 ELSE n - 1 + 1
  BY <1>1, FS_Interval
<1> QED BY <1>2

LEMMA StillNumbered ==
    ASSUME MatchInv, Created' = Created, Joining' \subseteq Joining
    PROVE  NumberedInOrder'
<1>1. Cardinality(Joining') <= Cardinality(Joining)
  BY JoiningIsFinite, FS_Subset
<1>2. PICK n \in 0 .. NumEntries : Created = 1 .. n /\ n + Cardinality(Joining) <= NumEntries
  BY DEF MatchInv, NumberedInOrder
<1>3. n + Cardinality(Joining') <= NumEntries
  BY <1>1, <1>2, JoiningIsFinite, MatchmakingAssumption
<1> QED BY <1>2, <1>3 DEF NumberedInOrder

(* A call that finishes is in order. *)
LEMMA FinishEffect ==
    ASSUME MatchInv, NEW c \in Calls, Finish(c), Created \subseteq Created'
    PROVE  /\ CallTypes' /\ CallOK(c)'
           /\ Joining' \subseteq Joining
           /\ \A d \in Calls \ {c} : /\ at'[d] = at[d] /\ form'[d] = form[d]
                                     /\ plan'[d] = plan[d] /\ copies'[d] = copies[d]
<1>1. /\ at' = [at EXCEPT ![c] = "idle"]
      /\ form' = [form EXCEPT ![c] = NoProfile]
      /\ plan' = [plan EXCEPT ![c] = <<>>]
      /\ copies' = [copies EXCEPT ![c] = Nothing]
  BY DEF Finish, Go
<1>2. /\ at \in [Calls -> Places]
      /\ form \in [Calls -> Profiles \cup {NoProfile}]
      /\ plan \in [Calls -> Seq(SUBSET Created)]
      /\ copies = [d \in Calls |-> copies[d]]
  BY DEF MatchInv, CallTypes
<1>3. copies' = [d \in Calls |-> copies'[d]] /\ copies'[c] = Nothing
      /\ \A d \in Calls \ {c} : copies'[d] = copies[d]
  BY <1>1, <1>2
<1>4. plan' \in [Calls -> Seq(SUBSET Created')]
  <2>1. \A d \in Calls : plan[d] \in Seq(SUBSET Created')
    <3>1. SUBSET Created \subseteq SUBSET Created'
      OBVIOUS
    <3> QED BY <1>2, <3>1, SeqMonotonic
  <2>2. <<>> \in Seq(SUBSET Created')
    BY EmptySeq
  <2> QED BY <1>1, <1>2, <2>1, <2>2
<1>5. CallTypes'
  BY <1>1, <1>2, <1>3, <1>4 DEF CallTypes, Places
<1>6. CallOK(c)'
  <2>1. at'[c] = "idle" /\ plan'[c] = <<>> /\ DOMAIN copies'[c] = {} /\ DOMAIN plan'[c] = {}
    BY <1>1, <1>2, <1>3 DEF Nothing
  <2> QED BY <2>1 DEF CallOK
<1>7. Joining' \subseteq Joining
  BY <1>1, <1>2 DEF Joining
<1> QED BY <1>1, <1>2, <1>3, <1>5, <1>6, <1>7

-----------------------------------------------------------------------------
(* Joining. *)

LEMMA JoinCorrect ==
    ASSUME MatchInv, NEW c \in Calls, NEW p \in Profiles, JoinQueue(c, p)
    PROVE  MatchInv'
<1>1. /\ at[c] = "idle" /\ at' = [at EXCEPT ![c] = "insert"]
      /\ form' = [form EXCEPT ![c] = p]
      /\ UNCHANGED <<row, profile, matches, age, plan, copies, faults>>
      /\ Cardinality(Created) + Cardinality(Joining) < NumEntries
  BY DEF JoinQueue, Go, tableVars
<1>2. Grows /\ TableTypes' /\ MatchesFit' /\ Created' = Created
  BY <1>1 DEF Grows, Created, TableTypes, MatchesFit, MatchInv, Fit, Compatible
<1>3. CallTypes'
  BY <1>1, <1>2 DEF MatchInv, CallTypes, Places
<1>4. CallOK(c)'
  <2>1. CallOK(c) /\ form'[c] = p /\ at'[c] = "insert"
    BY <1>1 DEF MatchInv, CallTypes
  <2> QED BY <1>1, <1>2, <2>1 DEF CallOK, Sound, Fit, Compatible
<1>5. NumberedInOrder'
  <2>1. Joining' = Joining \cup {c}
    BY <1>1 DEF MatchInv, CallTypes, Joining
  <2>2. Cardinality(Joining') <= Cardinality(Joining) + 1
    BY <2>1, JoiningIsFinite, FS_AddElement
  <2>3. PICK n \in 0 .. NumEntries : Created = 1 .. n
    BY DEF MatchInv, NumberedInOrder
  <2>4. Cardinality(Created) = n
    BY <2>3, CreatedCount
  <2>5. n + Cardinality(Joining') <= NumEntries
    BY <1>1, <2>2, <2>3, <2>4, JoiningIsFinite, MatchmakingAssumption
  <2> QED BY <1>2, <2>3, <2>5 DEF NumberedInOrder
<1>6. \A d \in Calls \ {c} : at'[d] = at[d] /\ form'[d] = form[d]
  BY <1>1 DEF MatchInv, CallTypes
<1> QED BY <1>1, <1>2, <1>3, <1>4, <1>5, <1>6, OneCallMoves

LEMMA InsertCorrect ==
    ASSUME MatchInv, NEW c \in Calls, InsertEntry(c)
    PROVE  MatchInv'
<1> DEFINE e == Cardinality(Created) + 1
<1>1. /\ at[c] = "insert" /\ at' = [at EXCEPT ![c] = "scan"]
      /\ row' = [row EXCEPT ![e] = [NoRow EXCEPT !.status = "WAITING"]]
      /\ profile' = [profile EXCEPT ![e] = form[c]]
      /\ form' = [form EXCEPT ![c] = NoProfile]
      /\ UNCHANGED <<matches, age, plan, copies, faults>>
  BY DEF InsertEntry, Go
<1>2. PICK n \in 0 .. NumEntries : Created = 1 .. n /\ n + Cardinality(Joining) <= NumEntries
  BY DEF MatchInv, NumberedInOrder
<1>3. Cardinality(Joining') + 1 = Cardinality(Joining) /\ Joining' = Joining \ {c}
  <2>1. c \in Joining /\ Joining' = Joining \ {c}
    BY <1>1 DEF MatchInv, CallTypes, Joining
  <2>2. Joining = Joining' \cup {c} /\ c \notin Joining'
    BY <2>1
  <2> QED BY <2>1, <2>2, JoiningIsFinite, FS_AddElement
<1>4. e = n + 1 /\ e \in Entries /\ n + 1 \in 0 .. NumEntries
      /\ n + 1 + Cardinality(Joining') <= NumEntries
  <2>1. e = n + 1
    BY <1>2, CreatedCount
  <2> QED BY <1>2, <1>3, <2>1, JoiningIsFinite, MatchmakingAssumption DEF Entries
<1> HIDE DEF e
<1>5. form[c] \in Profiles
  BY <1>1 DEF MatchInv, CallOK
<1>6. /\ profile \in [Entries -> Profiles \cup {NoProfile}]
      /\ row \in [Entries -> Rows]
  BY DEF MatchInv, TableTypes
<1>7. Created' = 1 .. n + 1 /\ e \notin Created /\ Created' = Created \cup {e}
  <2>1. Created' = Created \cup {e}
    BY <1>1, <1>4, <1>5, <1>6, MatchmakingAssumption DEF Created
  <2> QED BY <1>2, <1>4, <2>1
<1>8. Grows
  <2>1. \A d \in Created : profile'[d] = profile[d]
    BY <1>1, <1>6, <1>7 DEF Created
  <2> QED BY <1>1, <1>7, <2>1 DEF Grows
<1> DEFINE r == [NoRow EXCEPT !.status = "WAITING"]
<1>9. /\ row' = [row EXCEPT ![e] = r]
      /\ r \in Rows /\ r.status = "WAITING" /\ r.match = {} /\ ~r.long
  BY <1>1 DEF NoRow, Rows
<1> HIDE DEF r
<1>10. TableTypes'
  <2>1. row' \in [Entries -> Rows]
    BY <1>6, <1>9
  <2>2. profile' \in [Entries -> Profiles \cup {NoProfile}]
    BY <1>1, <1>5, <1>6
  <2> QED BY <1>1, <1>7, <2>1, <2>2 DEF TableTypes, MatchInv
<1>11. CallTypes'
  <2>1. plan' \in [Calls -> Seq(SUBSET Created')]
    <3>1. \A d \in Calls : plan[d] \in Seq(SUBSET Created')
      <4>1. SUBSET Created \subseteq SUBSET Created'
        BY <1>7
      <4> QED BY <4>1, SeqMonotonic DEF MatchInv, CallTypes
    <3> QED BY <1>1, <3>1 DEF MatchInv, CallTypes
  <2> QED BY <1>1, <2>1 DEF MatchInv, CallTypes, Places
<1>12. MatchesFit'
  <2>1. \A m \in matches : Fit(m)'
    BY <1>8, FitGrows DEF MatchInv, MatchesFit
  <2> QED BY <1>1, <2>1 DEF MatchesFit
<1>13. NumberedInOrder'
  BY <1>4, <1>7 DEF NumberedInOrder
<1>14. \A d \in Entries : row'[d] = row[d] \/ RowOK(d)'
  <2>1. \A d \in Entries : d # e => row'[d] = row[d]
    BY <1>6, <1>9
  <2>2. row'[e] = r /\ e \in Created'
    BY <1>4, <1>6, <1>7, <1>9
  <2>3. ASSUME NEW d \in Entries, d = e PROVE RowOK(d)'
    BY <1>9, <2>2, <2>3 DEF RowOK, Sound
  <2> QED BY <2>1, <2>3
<1>15. CallOK(c)'
  <2>1. CallOK(c) /\ at'[c] = "scan"
    BY <1>1 DEF MatchInv, CallTypes
  <2>2. PICK p, q : p = plan[c] /\ q = copies[c] /\ p = plan'[c] /\ q = copies'[c]
    BY <1>1
  <2>3. \A k \in DOMAIN p : Fit(p[k])'
    <3>1. \A k \in DOMAIN p : Fit(p[k])
      BY <2>1, <2>2 DEF CallOK
    <3> QED BY <1>8, <3>1, FitGrows
  <2>4. \A d \in DOMAIN q : Sound(q[d], d)'
    <3>1. \A d \in DOMAIN q : Sound(q[d], d) /\ d \in Entries
      BY <2>1, <2>2 DEF CallOK, Created
    <3> QED BY <1>8, <3>1, SoundGrows
  <2>5. \A k \in DOMAIN plan'[c] : Fit(plan[c][k])'
    BY <2>2, <2>3 DEF Fit
  <2>6. \A d \in DOMAIN copies'[c] : Sound(copies[c][d], d)'
    BY <2>2, <2>4 DEF Sound
  <2> QED BY <1>1, <1>7, <2>1, <2>2, <2>5, <2>6 DEF CallOK
<1>16. \A d \in Calls \ {c} : at'[d] = at[d] /\ form'[d] = form[d]
  BY <1>1 DEF MatchInv, CallTypes
<1> QED BY <1>1, <1>8, <1>10, <1>11, <1>12, <1>13, <1>14, <1>15, <1>16, OneCallMoves

-----------------------------------------------------------------------------
(* Calls that leave the tables alone. *)

(* A call that only finishes, or fails. *)
LEMMA OnlyFinishes ==
    ASSUME MatchInv, NEW c \in Calls, Finish(c),
           UNCHANGED <<row, profile, matches, age>>, faults' \in 0 .. MaxFaults
    PROVE  MatchInv'
<1>1. Grows /\ TableTypes' /\ MatchesFit' /\ Created' = Created
  BY DEF Grows, Created, TableTypes, MatchesFit, MatchInv, Fit, Compatible
<1>2. /\ CallTypes' /\ CallOK(c)'
      /\ Joining' \subseteq Joining
      /\ \A d \in Calls \ {c} : /\ at'[d] = at[d] /\ form'[d] = form[d]
                                /\ plan'[d] = plan[d] /\ copies'[d] = copies[d]
  BY <1>1, FinishEffect
<1>3. NumberedInOrder'
  BY <1>1, <1>2, StillNumbered
<1> QED BY <1>1, <1>2, <1>3, OneCallMoves

LEMMA FailsCorrect ==
    ASSUME MatchInv, NEW c \in Calls, Fails(c)
    PROVE  MatchInv'
<1>1. faults' \in 0 .. MaxFaults
  BY MatchmakingAssumption DEF Fails, MatchInv, TableTypes
<1> QED BY <1>1, OnlyFinishes DEF Fails, tableVars

(* A call takes copies of rows, and perhaps a plan of what to do with them. *)
LEMMA CopiesTaken ==
    ASSUME MatchInv, NEW c \in Calls, at[c] # "insert",
           UNCHANGED <<row, profile, matches, age, faults, form>>,
           NEW place \in {"pair", "save"}, at' = [at EXCEPT ![c] = place],
           NEW q, copies' = [copies EXCEPT ![c] = q],
           NEW p, plan' = [plan EXCEPT ![c] = p], p \in Seq(SUBSET Created),
           DOMAIN q \subseteq Created,
           \A e \in DOMAIN q : Sound(q[e], e),
           \A k \in DOMAIN p : Fit(p[k]) /\ p[k] \subseteq DOMAIN q,
           place = "pair" <=> p # <<>>
    PROVE  MatchInv'
<1>1. Grows /\ TableTypes' /\ MatchesFit' /\ Created' = Created
  BY DEF Grows, Created, TableTypes, MatchesFit, MatchInv, Fit, Compatible
<1>2. /\ at \in [Calls -> Places]
      /\ form \in [Calls -> Profiles \cup {NoProfile}]
      /\ plan \in [Calls -> Seq(SUBSET Created)]
      /\ copies = [d \in Calls |-> copies[d]]
  BY DEF MatchInv, CallTypes
<1>3. at'[c] = place /\ plan'[c] = p /\ copies'[c] = q
  BY <1>2
<1>4. CallTypes'
  <2>1. plan' \in [Calls -> Seq(SUBSET Created)]
    BY <1>2
  <2> QED BY <1>1, <1>2, <2>1 DEF CallTypes, Places
<1>5. CallOK(c)'
  <2>1. \A e \in DOMAIN q : Sound(q[e], e)'
    <3>1. \A e \in DOMAIN q : e \in Entries
      BY DEF Created
    <3> QED BY <1>1, <3>1, SoundGrows
  <2>2. \A k \in DOMAIN p : Fit(p[k])'
    BY <1>1, FitGrows
  <2>3. \A e \in DOMAIN copies'[c] : Sound(copies[c][e], e)'
    BY <1>3, <2>1 DEF Sound
  <2>4. \A k \in DOMAIN plan'[c] : Fit(plan[c][k])'
    BY <1>3, <2>2 DEF Fit
  <2> QED BY <1>1, <1>3, <2>3, <2>4 DEF CallOK
<1>6. Joining' \subseteq Joining
  BY <1>2 DEF Joining
<1>7. NumberedInOrder'
  BY <1>1, <1>6, StillNumbered
<1>8. \A d \in Calls \ {c} : /\ at'[d] = at[d] /\ form'[d] = form[d]
                             /\ plan'[d] = plan[d] /\ copies'[d] = copies[d]
  BY <1>2
<1> QED BY <1>1, <1>4, <1>5, <1>7, <1>8, OneCallMoves

(* What a row says of an entry, and the entry exists if the row waits. *)
LEMMA WaitingRows ==
    ASSUME MatchInv
    PROVE  /\ Waiting \subseteq Created
           /\ \A e \in Waiting : Sound(row[e], e) /\ row[e] \in Rows
BY DEF MatchInv, RowOK, Waiting, Sound

LEMMA ScanCorrect ==
    ASSUME MatchInv, NEW c \in Calls, ScanQueue(c)
    PROVE  MatchInv'
<1>1. PICK pairs : pairs = Plan(Scanned, row)
  OBVIOUS
<1>2. /\ at[c] \in {"scan", "idle"}
      /\ UNCHANGED <<row, profile, matches, age, faults>>
      /\ \/ Finish(c)
         \/ /\ pairs # <<>>
            /\ at' = [at EXCEPT ![c] = "pair"]
            /\ plan' = [plan EXCEPT ![c] = pairs]
            /\ copies' = [copies EXCEPT ![c] = [e \in Scanned |-> row[e]]]
            /\ UNCHANGED form
  BY <1>1 DEF ScanQueue, tableVars, Go
<1>3. CASE Finish(c)
  BY <1>2, <1>3, OnlyFinishes DEF MatchInv, TableTypes
<1>4. CASE ~Finish(c)
  <2>1. PICK S, q : S = Scanned /\ q = [e \in S |-> row[e]]
    OBVIOUS
  <2>2. S \subseteq Created /\ S \in SUBSET Entries /\ \A e \in S : Sound(row[e], e)
    BY <2>1, WaitingRows DEF Scanned, Created
  <2>3. pairs \in Seq(Suitable(S, row))
    BY <1>1, <2>1, <2>2, PlanIsSuitable
  <2>4. \A m \in Suitable(S, row) : Fit(m) /\ m \subseteq S
    <3>1. \A i \in S : row[i].long => age[i] >= 1
      BY <2>2 DEF Sound
    <3> QED BY <2>2, <3>1 DEF Suitable, Fit
  <2>5. \A k \in DOMAIN pairs : Fit(pairs[k]) /\ pairs[k] \subseteq DOMAIN q
    <3>1. \A k \in DOMAIN pairs : pairs[k] \in Suitable(S, row)
      BY <2>3
    <3> QED BY <2>1, <2>4, <3>1
  <2>6. pairs \in Seq(SUBSET Created)
    <3>1. Suitable(S, row) \subseteq SUBSET Created
      BY <2>2 DEF Suitable
    <3> QED BY <2>3, <3>1, SeqMonotonic
  <2>7. /\ DOMAIN q \subseteq Created
        /\ \A e \in DOMAIN q : Sound(q[e], e)
    BY <2>1, <2>2
  <2>8. /\ at[c] # "insert" /\ pairs # <<>>
        /\ at' = [at EXCEPT ![c] = "pair"]
        /\ plan' = [plan EXCEPT ![c] = pairs]
        /\ copies' = [copies EXCEPT ![c] = q]
        /\ UNCHANGED <<row, profile, matches, age, faults, form>>
    BY <1>2, <1>4, <2>1
  <2> QED BY <2>5, <2>6, <2>7, <2>8, CopiesTaken
<1> QED BY <1>3, <1>4

(* Leaving and polling: what they change in a copy stays true. *)
LEMMA ReadCorrect ==
    ASSUME MatchInv, NEW c \in Calls, NEW changed, Read(c, changed),
           DOMAIN changed \subseteq Created,
           \A e \in DOMAIN changed : Sound(changed[e], e)
    PROVE  MatchInv'
<1>1. /\ at[c] = "idle" /\ at' = [at EXCEPT ![c] = "save"]
      /\ copies' = [copies EXCEPT ![c] = changed]
      /\ UNCHANGED <<row, profile, matches, age, faults, form, plan>>
  BY DEF Read, Go, tableVars
<1>2. PICK p : p = plan[c]
  OBVIOUS
<1>3. p \in Seq(SUBSET Created)
  BY <1>2 DEF MatchInv, CallTypes
<1>4. p = <<>>
  BY <1>1, <1>2 DEF MatchInv, CallOK
<1>5. plan' = [plan EXCEPT ![c] = p]
  BY <1>1, <1>2 DEF MatchInv, CallTypes
<1>6. DOMAIN p = {} /\ at[c] # "insert"
  BY <1>1, <1>4
<1> QED BY <1>1, <1>3, <1>4, <1>5, <1>6, CopiesTaken

LEMMA LeaveCorrect ==
    ASSUME MatchInv, NEW c \in Calls, NEW e \in Entries, LeaveQueue(c, e)
    PROVE  MatchInv'
<1>1. PICK q : q = [d \in {e} |-> [row[d] EXCEPT !.status = "LEFT"]]
  OBVIOUS
<1>2. e \in Created /\ Sound(row[e], e) /\ row[e] \in Rows
  BY WaitingRows DEF LeaveQueue
<1>3. DOMAIN q = {e} /\ q[e] = [row[e] EXCEPT !.status = "LEFT"]
  BY <1>1
<1>4. Sound(q[e], e)
  BY <1>2, <1>3 DEF Sound, Rows
<1>5. Read(c, q)
  BY <1>1 DEF LeaveQueue
<1> QED BY <1>2, <1>3, <1>4, <1>5, ReadCorrect

LEMMA RefreshedIsSound ==
    ASSUME MatchInv, NEW e \in Waiting
    PROVE  Sound(Refreshed(e), e) /\ e \in Created
<1>1. e \in Created /\ Sound(row[e], e) /\ row[e] \in Rows
  BY WaitingRows
<1>2. (age[e] >= 1) \in BOOLEAN
  OBVIOUS
<1> QED BY <1>1, <1>2 DEF Sound, Rows, Refreshed

LEMMA StatusCorrect ==
    ASSUME MatchInv, NEW c \in Calls, NEW e \in Entries, GetQueueStatus(c, e)
    PROVE  MatchInv'
<1>1. PICK q : q = [d \in {e} |-> Refreshed(d)]
  OBVIOUS
<1>2. Sound(Refreshed(e), e) /\ e \in Created
  BY RefreshedIsSound DEF GetQueueStatus
<1>3. DOMAIN q = {e} /\ q[e] = Refreshed(e)
  BY <1>1
<1>4. Read(c, q)
  BY <1>1 DEF GetQueueStatus
<1>5. \A d \in DOMAIN q : Sound(q[d], d)
  <2> SUFFICES ASSUME NEW d \in DOMAIN q PROVE Sound(q[d], d)
    OBVIOUS
  <2>1. d = e
    BY <1>3
  <2> QED BY <1>2, <1>3, <2>1
<1> QED BY <1>2, <1>3, <1>4, <1>5, ReadCorrect

LEMMA ListCorrect ==
    ASSUME MatchInv, NEW c \in Calls, GetQueueList(c)
    PROVE  MatchInv'
<1>1. PICK q : q = [d \in Waiting |-> Refreshed(d)]
  OBVIOUS
<1>2. DOMAIN q \subseteq Created /\ \A d \in DOMAIN q : Sound(q[d], d)
  <2>1. DOMAIN q = Waiting /\ \A d \in Waiting : q[d] = Refreshed(d)
    BY <1>1
  <2>2. \A d \in Waiting : Sound(Refreshed(d), d) /\ d \in Created
    BY RefreshedIsSound
  <2> QED BY <2>1, <2>2
<1>3. Read(c, q)
  BY <1>1 DEF GetQueueList
<1> QED BY <1>2, <1>3, ReadCorrect

-----------------------------------------------------------------------------
(* Calls that save copies. *)

(* Sound copies of entries that exist make sound rows. *)
LEMMA SavedRows ==
    ASSUME MatchInv, Grows, NEW q,
           DOMAIN q \subseteq Created, \A e \in DOMAIN q : Sound(q[e], e)',
           row' = Saved(q)
    PROVE  /\ row' \in [Entries -> Rows]
           /\ \A e \in Entries : row'[e] = row[e] \/ RowOK(e)'
<1>1. \A e \in Entries : row'[e] = IF e \in DOMAIN q THEN q[e] ELSE row[e]
  BY DEF Saved
<1>2. \A e \in DOMAIN q : q[e] \in Rows
  BY DEF Sound
<1>3. row \in [Entries -> Rows]
  BY DEF MatchInv, TableTypes
<1>4. row' \in [Entries -> Rows]
  BY <1>2, <1>3 DEF Saved
<1>5. ASSUME NEW e \in DOMAIN q PROVE RowOK(e)'
  <2>1. e \in Entries /\ e \in Created'
    BY DEF Created, Grows
  <2>2. row'[e] = q[e]
    BY <1>1, <2>1
  <2> QED BY <2>1, <2>2 DEF RowOK, Sound
<1> QED BY <1>1, <1>4, <1>5

LEMMA SaveCorrect ==
    ASSUME MatchInv, NEW c \in Calls, SaveCopies(c)
    PROVE  MatchInv'
<1>1. PICK q : q = copies[c]
  OBVIOUS
<1>2. row' = Saved(q) /\ Finish(c) /\ UNCHANGED <<profile, matches, age, faults>>
  BY <1>1 DEF SaveCopies
<1>3. Grows /\ MatchesFit' /\ Created' = Created
  BY <1>2 DEF Grows, Created, MatchesFit, MatchInv, Fit, Compatible
<1>4. DOMAIN q \subseteq Created /\ \A e \in DOMAIN q : Sound(q[e], e)'
  <2>1. DOMAIN q \subseteq Created /\ \A e \in DOMAIN q : Sound(q[e], e)
    BY <1>1 DEF MatchInv, CallOK
  <2>2. DOMAIN q \subseteq Entries
    BY <2>1 DEF Created
  <2> QED BY <1>3, <2>1, <2>2, SoundGrows
<1>5. row' \in [Entries -> Rows] /\ \A e \in Entries : row'[e] = row[e] \/ RowOK(e)'
  BY <1>2, <1>3, <1>4, SavedRows
<1>6. TableTypes'
  BY <1>2, <1>3, <1>5 DEF MatchInv, TableTypes
<1>7. /\ CallTypes' /\ CallOK(c)'
      /\ Joining' \subseteq Joining
      /\ \A d \in Calls \ {c} : /\ at'[d] = at[d] /\ form'[d] = form[d]
                                /\ plan'[d] = plan[d] /\ copies'[d] = copies[d]
  BY <1>2, <1>3, FinishEffect
<1>8. NumberedInOrder'
  BY <1>3, <1>7, StillNumbered
<1> QED BY <1>3, <1>5, <1>6, <1>7, <1>8, OneCallMoves

(* Going on to the next pair leaves the call in order. *)
LEMMA NextPairEffect ==
    ASSUME MatchInv, Grows, NEW c \in Calls, at[c] = "pair", Created' = Created,
           NEW q, q = MatchedCopies(c), \A e \in DOMAIN q : Sound(q[e], e)',
           /\ Go(c, "pair")
           /\ plan' = [plan EXCEPT ![c] = Tail(plan[c])]
           /\ copies' = [copies EXCEPT ![c] =
                [e \in DOMAIN copies[c] |-> IF e \in Head(plan[c]) THEN MatchedCopies(c)[e]
                                            ELSE copies[c][e]]]
           /\ UNCHANGED form,
           Len(plan[c]) # 1
    PROVE  /\ CallTypes' /\ CallOK(c)'
           /\ Joining' \subseteq Joining
           /\ \A d \in Calls \ {c} : /\ at'[d] = at[d] /\ form'[d] = form[d]
                                     /\ plan'[d] = plan[d] /\ copies'[d] = copies[d]
<1>1. /\ at \in [Calls -> Places]
      /\ form \in [Calls -> Profiles \cup {NoProfile}]
      /\ plan \in [Calls -> Seq(SUBSET Created)]
      /\ copies = [d \in Calls |-> copies[d]]
      /\ CallOK(c)
  BY DEF MatchInv, CallTypes
<1>2. PICK p, old : p = plan[c] /\ old = copies[c]
  OBVIOUS
<1>3. p \in Seq(SUBSET Created) /\ p # <<>> /\ Len(p) # 1
  BY <1>1, <1>2 DEF CallOK
<1>4. /\ Tail(p) \in Seq(SUBSET Created) /\ Tail(p) # <<>>
      /\ \A k \in DOMAIN Tail(p) : k + 1 \in DOMAIN p /\ Tail(p)[k] = p[k + 1]
  <2>1. /\ Tail(p) \in Seq(SUBSET Created) /\ Len(Tail(p)) = Len(p) - 1
        /\ \A k \in 1 .. Len(Tail(p)) : Tail(p)[k] = p[k + 1]
    BY <1>3, HeadTailProperties
  <2>2. Len(p) \in Nat /\ Len(p) # 0 /\ DOMAIN p = 1 .. Len(p)
    BY <1>3, EmptySeq
  <2>3. DOMAIN Tail(p) = 1 .. Len(p) - 1
    BY <2>1
  <2>4. Tail(p) # <<>>
    <3>1. Len(Tail(p)) # 0
      BY <1>3, <2>1, <2>2
    <3> QED BY <2>1, <3>1, EmptySeq
  <2> QED BY <2>1, <2>2, <2>3, <2>4
<1>5. PICK new : new = [e \in DOMAIN old |-> IF e \in Head(p) THEN q[e] ELSE old[e]]
  OBVIOUS
<1>6. /\ at' = [at EXCEPT ![c] = "pair"]
      /\ plan' = [plan EXCEPT ![c] = Tail(p)]
      /\ copies' = [copies EXCEPT ![c] = new]
      /\ form' = form
  BY <1>2, <1>5 DEF Go
<1>7. at'[c] = "pair" /\ plan'[c] = Tail(p) /\ copies'[c] = new
  BY <1>1, <1>6
<1>8. CallTypes'
  <2>1. plan' \in [Calls -> Seq(SUBSET Created)]
    BY <1>1, <1>4, <1>6
  <2> QED BY <1>1, <1>6, <2>1 DEF CallTypes, Places
<1>9. DOMAIN new = DOMAIN old /\ DOMAIN old \subseteq Created /\ Created \subseteq Entries
  BY <1>1, <1>2, <1>5 DEF CallOK, Created
<1>10. \A e \in DOMAIN new : Sound(new[e], e)'
  <2> SUFFICES ASSUME NEW e \in DOMAIN new PROVE Sound(new[e], e)'
    OBVIOUS
  <2>1. CASE e \in Head(p)
    <3>1. e \in DOMAIN q /\ new[e] = q[e]
      BY <1>2, <1>5, <1>9, <2>1 DEF MatchedCopies
    <3> QED BY <3>1
  <2>2. CASE e \notin Head(p)
    <3>1. new[e] = old[e] /\ Sound(old[e], e) /\ e \in Entries
      BY <1>1, <1>2, <1>5, <1>9, <2>2 DEF CallOK
    <3> QED BY <3>1, SoundGrows
  <2> QED BY <2>1, <2>2
<1>11. \A k \in DOMAIN Tail(p) : Fit(Tail(p)[k])' /\ Tail(p)[k] \subseteq DOMAIN new
  <2> SUFFICES ASSUME NEW k \in DOMAIN Tail(p)
               PROVE  Fit(Tail(p)[k])' /\ Tail(p)[k] \subseteq DOMAIN new
    OBVIOUS
  <2>1. PICK m : m = Tail(p)[k]
    OBVIOUS
  <2>2. Fit(m) /\ m \subseteq DOMAIN old
    BY <1>1, <1>2, <1>4, <2>1 DEF CallOK
  <2>3. Fit(m)'
    BY <2>2, FitGrows
  <2> QED BY <1>9, <2>1, <2>2, <2>3
<1>12. CallOK(c)'
  <2>1. \A e \in DOMAIN copies'[c] : Sound(copies[c][e], e)'
    BY <1>7, <1>10 DEF Sound
  <2>2. \A k \in DOMAIN plan'[c] : Fit(plan[c][k])'
    <3>1. PICK t : t = Tail(p)
      OBVIOUS
    <3>2. plan'[c] = t /\ \A k \in DOMAIN t : Fit(t[k])'
      BY <1>7, <1>11, <3>1
    <3> QED BY <3>2 DEF Fit
  <2>3. \A k \in DOMAIN plan'[c] : plan'[c][k] \subseteq DOMAIN copies'[c]
    BY <1>7, <1>11
  <2>4. DOMAIN copies'[c] \subseteq Created' /\ plan'[c] # <<>>
    BY <1>4, <1>7, <1>9
  <2> QED BY <1>7, <2>1, <2>2, <2>3, <2>4 DEF CallOK
<1>13. Joining' \subseteq Joining
  BY <1>1, <1>6 DEF Joining
<1> QED BY <1>1, <1>6, <1>8, <1>12, <1>13

(* Recording a match: the match and the rows that name it appear together. *)
LEMMA CreateMatchCorrect ==
    ASSUME MatchInv, NEW c \in Calls, CreateMatch(c)
    PROVE  MatchInv'
<1>1. PICK m, q : m = Head(plan[c]) /\ q = MatchedCopies(c)
  OBVIOUS
<1>2. /\ at[c] = "pair" /\ row' = Saved(q) /\ matches' = matches \cup {m}
      /\ NextPair(c) /\ UNCHANGED <<profile, age, faults>>
  BY <1>1 DEF CreateMatch
<1>3. Grows /\ Created' = Created
  BY <1>2 DEF Grows, Created
<1>4. Fit(m) /\ m \subseteq DOMAIN copies[c] /\ m \subseteq Created
  <2>1. CallOK(c) /\ plan[c] \in Seq(SUBSET Created)
    BY DEF MatchInv, CallTypes
  <2>2. PICK p : p = plan[c]
    OBVIOUS
  <2>3. p \in Seq(SUBSET Created) /\ p # <<>>
    BY <1>2, <2>1, <2>2 DEF CallOK
  <2>4. 1 \in DOMAIN p /\ Head(p) = p[1]
    BY <2>3, EmptySeq
  <2> QED BY <1>1, <2>1, <2>2, <2>4 DEF CallOK
<1>5. MatchesFit'
  <2>1. \A n \in matches : Fit(n)'
    BY <1>3, FitGrows DEF MatchInv, MatchesFit
  <2>2. Fit(m)'
    BY <1>3, <1>4, FitGrows
  <2> QED BY <1>2, <2>1, <2>2 DEF MatchesFit
<1>6. DOMAIN q = m /\ m \subseteq Created /\ \A e \in DOMAIN q : Sound(q[e], e)'
  <2>1. DOMAIN q = m /\ \A e \in m : q[e] = [copies[c][e] EXCEPT !.status = "MATCHED", !.match = m]
    BY <1>1 DEF MatchedCopies
  <2>2. ASSUME NEW e \in m PROVE Sound(q[e], e)'
    <3>1. Sound(copies[c][e], e) /\ e \in Entries
      BY <1>4 DEF MatchInv, CallOK, Created
    <3>2. PICK r : r = copies[c][e]
      OBVIOUS
    <3>3. r \in Rows /\ (r.long => age[e] >= 1)
      BY <3>1, <3>2 DEF Sound
    <3>4. q[e] = [r EXCEPT !.status = "MATCHED", !.match = m]
      BY <2>1, <3>2
    <3>5. m \in SUBSET Entries
      BY <1>4 DEF Created
    <3>6. q[e] \in Rows /\ q[e].match = m /\ (q[e].long => age[e] >= 1)
      BY <3>3, <3>4, <3>5 DEF Rows
    <3> QED BY <1>2, <3>6 DEF Sound
  <2> QED BY <1>4, <2>1, <2>2
<1>7. row' \in [Entries -> Rows] /\ \A e \in Entries : row'[e] = row[e] \/ RowOK(e)'
  BY <1>2, <1>3, <1>6, SavedRows
<1>8. TableTypes'
  BY <1>2, <1>3, <1>4, <1>7 DEF MatchInv, TableTypes
<1>9. /\ CallTypes' /\ CallOK(c)'
      /\ Joining' \subseteq Joining
      /\ \A d \in Calls \ {c} : /\ at'[d] = at[d] /\ form'[d] = form[d]
                                /\ plan'[d] = plan[d] /\ copies'[d] = copies[d]
  <2>1. CASE Len(plan[c]) = 1
    BY <1>2, <1>3, <2>1, FinishEffect DEF NextPair
  <2>2. CASE Len(plan[c]) # 1
    <3>1. /\ Go(c, "pair")
          /\ plan' = [plan EXCEPT ![c] = Tail(plan[c])]
          /\ copies' = [copies EXCEPT ![c] =
                [e \in DOMAIN copies[c] |-> IF e \in Head(plan[c]) THEN MatchedCopies(c)[e]
                                            ELSE copies[c][e]]]
          /\ UNCHANGED form
      BY <1>2, <2>2 DEF NextPair
    <3> QED BY <1>1, <1>2, <1>3, <1>6, <2>2, <3>1, NextPairEffect
  <2> QED BY <2>1, <2>2
<1>10. NumberedInOrder'
  BY <1>3, <1>9, StillNumbered
<1> QED BY <1>3, <1>5, <1>7, <1>8, <1>9, <1>10, OneCallMoves

-----------------------------------------------------------------------------
(* Time and the nightly cleanup. *)

(* A step of no call. *)
LEMMA NoCallMoves ==
    ASSUME MatchInv, Grows, TableTypes', MatchesFit', Created' = Created,
           UNCHANGED callVars,
           \A e \in Entries : row'[e] = row[e] \/ RowOK(e)'
    PROVE  MatchInv'
<1>1. \A d \in Calls : CallOK(d)'
  BY CallStaysOK DEF callVars
<1>2. \A e \in Entries : RowOK(e)'
  BY RowStaysOK
<1>3. CallTypes'
  BY DEF MatchInv, CallTypes, callVars
<1>4. NumberedInOrder'
  <2>1. Joining' \subseteq Joining
    BY DEF Joining, callVars
  <2> QED BY <2>1, StillNumbered
<1> QED BY <1>1, <1>2, <1>3, <1>4 DEF MatchInv

LEMMA AgesCorrect ==
    ASSUME MatchInv, NEW e \in Entries, Ages(e)
    PROVE  MatchInv'
<1>1. /\ age[e] < 2 /\ age' = [age EXCEPT ![e] = age[e] + 1]
      /\ UNCHANGED <<row, profile, matches, faults, callVars>>
  BY DEF Ages, tableVars
<1>2. /\ age \in [Entries -> 0 .. 2] /\ Created' = Created
      /\ \A d \in Entries : age'[d] = IF d = e THEN age[d] + 1 ELSE age[d]
  BY <1>1 DEF MatchInv, TableTypes, Created
<1>3. Grows
  BY <1>1, <1>2 DEF Grows
<1>4. TableTypes'
  <2>1. age[e] \in 0 .. 2
    BY <1>2
  <2>2. age[e] + 1 \in 0 .. 2
    BY <1>1, <2>1
  <2>3. age' \in [Entries -> 0 .. 2]
    BY <1>1, <1>2, <2>2
  <2> QED BY <1>1, <1>2, <2>3 DEF MatchInv, TableTypes
<1>5. MatchesFit'
  <2>1. \A m \in matches : Fit(m)'
    BY <1>3, FitGrows DEF MatchInv, MatchesFit
  <2> QED BY <1>1, <2>1 DEF MatchesFit
<1> QED BY <1>1, <1>2, <1>3, <1>4, <1>5, NoCallMoves

LEMMA CleanupCorrect ==
    ASSUME MatchInv, CleanupOldEntries
    PROVE  MatchInv'
<1>1. PICK old : /\ row' = [e \in Entries |-> IF e \in old THEN NoRow ELSE row[e]]
                 /\ UNCHANGED <<profile, matches, age, faults, callVars>>
  BY DEF CleanupOldEntries
<1>2. Grows /\ MatchesFit' /\ Created' = Created
  BY <1>1 DEF Grows, Created, MatchesFit, MatchInv, Fit, Compatible
<1>3. NoRow \in Rows /\ NoRow.status = "none" /\ NoRow.match = {} /\ ~NoRow.long
  BY DEF NoRow, Rows
<1>4. \A e \in Entries : row'[e] = row[e] \/ row'[e] = NoRow
  BY <1>1
<1>5. TableTypes'
  <2>1. row' \in [Entries -> Rows]
    BY <1>1, <1>3 DEF MatchInv, TableTypes
  <2> QED BY <1>1, <1>2, <2>1 DEF MatchInv, TableTypes
<1>6. ASSUME NEW e \in Entries, row'[e] = NoRow PROVE RowOK(e)'
  BY <1>3, <1>6 DEF RowOK, Sound
<1> QED BY <1>1, <1>2, <1>4, <1>5, <1>6, NoCallMoves

-----------------------------------------------------------------------------
(* The theorems. *)

LEMMA InitCorrect ==
    ASSUME Init
    PROVE  MatchInv
<1>1. NoRow \in Rows /\ NoRow.status = "none" /\ NoRow.match = {} /\ ~NoRow.long
  BY DEF NoRow, Rows
<1>2. Created = {} /\ Joining = {}
  BY DEF Init, Created, Joining
<1>3. TableTypes
  BY <1>1, MatchmakingAssumption DEF Init, TableTypes
<1>4. CallTypes
  <2>1. <<>> \in Seq(SUBSET Created)
    BY EmptySeq
  <2> QED BY <2>1 DEF Init, CallTypes, Places
<1>5. NumberedInOrder
  <2>1. Cardinality(Joining) = 0
    BY <1>2, FS_EmptySet
  <2>2. 1 .. 0 = {}
    OBVIOUS
  <2>3. 0 \in 0 .. NumEntries /\ 0 + 0 <= NumEntries
    BY MatchmakingAssumption
  <2> QED BY <1>2, <2>1, <2>2, <2>3 DEF NumberedInOrder
<1>6. MatchesFit
  BY DEF Init, MatchesFit
<1>7. \A e \in Entries : RowOK(e)
  BY <1>1 DEF Init, RowOK, Sound
<1>8. \A c \in Calls : CallOK(c)
  <2> SUFFICES ASSUME NEW c \in Calls PROVE CallOK(c)
    OBVIOUS
  <2>1. at[c] = "idle" /\ plan[c] = <<>> /\ DOMAIN plan[c] = {} /\ DOMAIN copies[c] = {}
    BY DEF Init, Nothing
  <2> QED BY <2>1 DEF CallOK
<1> QED BY <1>3, <1>4, <1>5, <1>6, <1>7, <1>8 DEF MatchInv

LEMMA StepCorrect ==
    ASSUME MatchInv, [Next]_vars
    PROVE  MatchInv'
<1>1. ASSUME NEW c \in Calls, Proceed(c) PROVE MatchInv'
  BY <1>1, InsertCorrect, ScanCorrect, CreateMatchCorrect, SaveCorrect DEF Proceed
<1>2. ASSUME NEW c \in Calls, Fails(c) PROVE MatchInv'
  BY <1>2, FailsCorrect
<1>3. ASSUME NEW c \in Requests, NEW p \in Profiles, JoinQueue(c, p) PROVE MatchInv'
  BY <1>3, JoinCorrect DEF Calls
<1>4. ASSUME NEW c \in Requests, NEW e \in Entries, LeaveQueue(c, e) PROVE MatchInv'
  BY <1>4, LeaveCorrect DEF Calls
<1>5. ASSUME NEW c \in Requests, NEW e \in Entries, GetQueueStatus(c, e) PROVE MatchInv'
  BY <1>5, StatusCorrect DEF Calls
<1>6. ASSUME NEW c \in Requests, GetQueueList(c) PROVE MatchInv'
  BY <1>6, ListCorrect DEF Calls
<1>7. ASSUME NEW e \in Entries, Ages(e) PROVE MatchInv'
  BY <1>7, AgesCorrect
<1>8. ASSUME CleanupOldEntries PROVE MatchInv'
  BY <1>8, CleanupCorrect
<1>9. ASSUME UNCHANGED vars PROVE MatchInv'
  <2>1. /\ UNCHANGED <<row, profile, matches, age, at, form, plan, copies, faults>>
        /\ Created' = Created
    BY <1>9 DEF vars, tableVars, callVars, Created
  <2>2. Grows /\ TableTypes' /\ MatchesFit'
    BY <2>1 DEF Grows, MatchInv, TableTypes, MatchesFit, Fit, Compatible
  <2> QED BY <2>1, <2>2, NoCallMoves DEF callVars
<1> QED BY <1>1, <1>2, <1>3, <1>4, <1>5, <1>6, <1>7, <1>8, <1>9 DEF Next

(* Every call is in order and every row and copy tells the truth, in every *)
(* reachable state, for any number of instances, requests and entries.     *)
THEOREM MatchInvariance == Spec => []MatchInv
<1>1. Init => MatchInv
  BY InitCorrect
<1>2. MatchInv /\ [Next]_vars => MatchInv'
  BY StepCorrect
<1> QED BY <1>1, <1>2, PTL DEF Spec

(* Every column and copy has its type; a row belongs to a created entry.   *)
THEOREM MatchTypeCorrect == Spec => []MatchTypeOK
<1>1. MatchInv => MatchTypeOK
  <2> SUFFICES ASSUME MatchInv PROVE MatchTypeOK
    OBVIOUS
  <2>1. TableTypes /\ CallTypes
        /\ (\A e \in Entries : RowOK(e)) /\ (\A c \in Calls : CallOK(c))
    BY DEF MatchInv
  <2>2. \A e \in Entries : row[e].status # "none" => e \in Created
    BY <2>1 DEF RowOK
  <2>3. \A c \in Calls : \A e \in DOMAIN copies[c] : copies[c][e] \in Rows
    BY <2>1 DEF CallOK, Sound
  <2> QED BY <2>1, <2>2, <2>3 DEF MatchTypeOK, TableTypes, CallTypes, Places
<1> QED BY <1>1, MatchInvariance, PTL

(* createMatch: a match is between two players of one mode who do not      *)
(* avoid each other, and of one skill unless both have waited two minutes, *)
(* however stale the copies were from which it was made.                   *)
THEOREM MatchesCompatible == Spec => []MatchesAreCompatible
<1>1. MatchInv => MatchesAreCompatible
  BY DEF MatchInv, MatchesFit, Fit, MatchesAreCompatible, Created
<1> QED BY <1>1, MatchInvariance, PTL

(* The transaction of createMatch: an entry says matched, or names a match,*)
(* only if that match exists and is the player's.                          *)
THEOREM MatchedNamedCorrect == Spec => []MatchedIsNamed
<1>1. MatchInv => MatchedIsNamed
  BY DEF MatchInv, RowOK, Sound, MatchedIsNamed
<1> QED BY <1>1, MatchInvariance, PTL

(* pairPlayersInGroup: the pairing of every group a pass may read is       *)
(* stable, for any number of players and whatever they ask for.            *)
THEOREM PairingCorrect == Spec => []PairingIsStable
<1>1. PairingIsStable
  BY PairingStable
<1> QED BY <1>1, PTL
=============================================================================
