-------------------------- MODULE AlgorithmProofs --------------------------
(***************************************************************************)
(* Proofs about what runs over data of any size: the local code graph, for *)
(* any files, symbols, edges, depths and limits; the plan compiler, for    *)
(* plans of any length over any steps; and the merging of automations, for *)
(* any bundle and any entries, with the installs that use it.              *)
(*                                                                         *)
(* The traversal: GraphInv relates every entry to its distance from the    *)
(* start.  Within counts distances by a recursive function; what it        *)
(* computes is proved by induction over the naturals, which is done with   *)
(* sets of numbers (NatSet), as a theorem that takes a predicate cannot be *)
(* instantiated here.                                                      *)
(*                                                                         *)
(* The overlay: an incremental build is a build from nothing, so that only *)
(* the tree matters that was built last.                                   *)
(*                                                                         *)
(* The compiler: ids are told apart whatever was given (IdsDiffer), and an *)
(* id that was given out is kept when it is given again (IdsStay).  So a   *)
(* document compiles to itself (CompiledTwice), is accepted with its plan  *)
(* (DocumentIsAccepted), and the phases that are started have in terms of  *)
(* ids (Workable) what WorkflowPlan assumes of nodes.                      *)
(*                                                                         *)
(* Automations: an entry keeps its keys, with their values or generated    *)
(* ones, through any number of merges (MergedKeeps), and what was merged   *)
(* is found again by the next merge (MergedSettles), so that a file that   *)
(* was planned for rests (PlannedRests).  KeptInv carries the first from   *)
(* file to plan to file, SettleInv the second.                             *)
(***************************************************************************)
EXTENDS CodeGraph, PlanCompiler, Automations, FiniteSetTheorems, SequenceTheorems, NaturalsInduction, WellFoundedInduction, TLAPS

-----------------------------------------------------------------------------
(***************************************************************************)
(* Numbers, and functions that are defined along them.                     *)
(***************************************************************************)
\* The naturals are well-founded, said of sets: a set of them has a least element,
\* and is all of them when it has 0 and with each its successor.
LEMMA NatMin == ASSUME NEW T \in SUBSET Nat, T # {}
                PROVE  \E x \in T : \A y \in T : x <= y
<1>1. PICK R : R = {ss \in Nat \X Nat : ss[1] < ss[2]}
  OBVIOUS
<1>2. R = OpToRel(<, Nat)
  BY <1>1 DEF OpToRel
<1>3. IsWellFoundedOn(R, Nat)
  BY <1>2, NatLessThanWellFounded
<1>4. PICK x \in T : \A y \in T : ~(<<y, x>> \in R)
  BY <1>3, WFMin
<1>5. ASSUME NEW y \in T PROVE x <= y
  <2>1. y \in Nat /\ x \in Nat
    OBVIOUS
  <2>2. ~(<<y, x>> \in R)
    BY <1>4
  <2>3. <<y, x>> \in R <=> y < x
    <3>1. <<y, x>> \in Nat \X Nat
      BY <2>1
    <3>2. <<y, x>>[1] = y /\ <<y, x>>[2] = x
      OBVIOUS
    <3> QED
      BY <1>1, <3>1, <3>2
  <2> QED
    BY <2>1, <2>2, <2>3
<1> QED
  BY <1>5

LEMMA NatSet == ASSUME NEW T \in SUBSET Nat, 0 \in T, \A n \in T : n + 1 \in T
                PROVE  T = Nat
<1>1. PICK U : U = Nat \ T
  OBVIOUS
<1>2. CASE U # {}
  <2>1. PICK x \in U : \A y \in U : x <= y
    BY <1>1, <1>2, NatMin
  <2>2. x \in Nat /\ x # 0
    BY <1>1, <2>1
  <2>3. x - 1 \in Nat /\ x - 1 \notin U
    BY <2>1, <2>2
  <2>4. x - 1 \in T
    BY <1>1, <2>3
  <2>5. x - 1 + 1 = x
    BY <2>2
  <2> QED
    BY <1>1, <2>1, <2>4, <2>5
<1>3. CASE U = {}
  BY <1>1, <1>3
<1> QED
  BY <1>2, <1>3

LEMMA InductionOn ==
  ASSUME NEW n \in Nat, NEW T, 0 \in T, \A k \in 0 .. n - 1 : k \in T => k + 1 \in T
  PROVE  0 .. n \subseteq T
<1>1. PICK U : U = {k \in Nat : k \in 0 .. n => k \in T}
  OBVIOUS
<1>2. 0 \in U
  BY <1>1
<1>3. ASSUME NEW k \in U PROVE k + 1 \in U
  <2>1. k \in Nat /\ k + 1 \in Nat
    BY <1>1
  <2>2. k + 1 \in 0 .. n => k \in 0 .. n - 1 /\ k \in 0 .. n
    BY <2>1
  <2> QED
    BY <1>1, <2>1, <2>2
<1>4. U = Nat
  <2>1. U \in SUBSET Nat
    BY <1>1
  <2> QED
    BY <1>2, <1>3, <2>1, NatSet
<1>5. ASSUME NEW k \in 0 .. n PROVE k \in T
  BY <1>1, <1>4
<1> QED
  BY <1>5

LEMMA SameFunction ==
  ASSUME NEW D, NEW R, NEW f \in [D -> R], NEW g \in [D -> R], \A k \in D : f[k] = g[k]
  PROVE  f = g
OBVIOUS


\* A value taken from another by a step, n times over.
Iterates(f, V, s, G, n) ==
  f \in [0 .. n -> V] /\ f[0] = s /\ \A k \in 1 .. n : f[k] = G[k][f[k - 1]]

LEMMA Iterated ==
  ASSUME NEW V, NEW s \in V, NEW G \in [Nat -> [V -> V]], NEW n \in Nat
  PROVE  \E f : Iterates(f, V, s, G, n)
<1> DEFINE Good == {m \in Nat : \E f \in [0 .. m -> V] :
                      f = [k \in 0 .. m |-> IF k = 0 THEN s ELSE G[k][f[k - 1]]]}
<1>1. 0 \in Good
  <2>1. PICK f : f = [k \in 0 .. 0 |-> s]
    OBVIOUS
  <2>2. f \in [0 .. 0 -> V]
    BY <2>1
  <2>3. \A k \in 0 .. 0 : f[k] = IF k = 0 THEN s ELSE G[k][f[k - 1]]
    BY <2>1
  <2>4. f = [k \in 0 .. 0 |-> IF k = 0 THEN s ELSE G[k][f[k - 1]]]
    BY <2>2, <2>3
  <2> QED
    BY <2>2, <2>4
<1>2. ASSUME NEW m \in Good PROVE m + 1 \in Good
  <2>1. m \in Nat
    OBVIOUS
  <2>2. PICK f \in [0 .. m -> V] :
          f = [k \in 0 .. m |-> IF k = 0 THEN s ELSE G[k][f[k - 1]]]
    OBVIOUS
  <2>3. PICK g : g = [k \in 0 .. m + 1 |-> IF k = m + 1 THEN G[k][f[m]] ELSE f[k]]
    OBVIOUS
  <2>4. g \in [0 .. m + 1 -> V]
    <3>1. ASSUME NEW k \in 0 .. m + 1 PROVE (IF k = m + 1 THEN G[k][f[m]] ELSE f[k]) \in V
      <4>1. f[m] \in V /\ k \in Nat
        BY <2>1
      <4>2. G[k][f[m]] \in V
        BY <4>1
      <4>3. k # m + 1 => k \in 0 .. m
        BY <2>1
      <4> QED
        BY <4>2, <4>3
    <3> QED
      BY <2>3, <3>1
  <2>5. ASSUME NEW k \in 0 .. m + 1 PROVE g[k] = IF k = 0 THEN s ELSE G[k][g[k - 1]]
    <3>1. CASE k = m + 1
      <4>1. k # 0 /\ k - 1 = m /\ m # m + 1 /\ m \in 0 .. m + 1
        BY <3>1, <2>1
      <4>2. g[m] = f[m]
        BY <2>3, <4>1
      <4>3. g[k] = G[k][f[m]]
        BY <2>3, <3>1
      <4> QED
        BY <4>1, <4>2, <4>3
    <3>2. CASE k # m + 1
      <4>1. k \in 0 .. m
        BY <3>2, <2>1
      <4>2. g[k] = f[k]
        BY <2>3, <3>2
      <4>3. f[k] = IF k = 0 THEN s ELSE G[k][f[k - 1]]
        BY <2>2, <4>1
      <4>4. CASE k = 0
        BY <4>2, <4>3, <4>4
      <4>5. CASE k # 0
        <5>1. k - 1 \in 0 .. m + 1 /\ k - 1 # m + 1
          BY <4>1, <4>5, <2>1
        <5>2. g[k - 1] = f[k - 1]
          BY <2>3, <5>1
        <5> QED
          BY <4>2, <4>3, <4>5, <5>2
      <4> QED
        BY <4>4, <4>5
    <3> QED
      BY <3>1, <3>2
  <2>6. g = [k \in 0 .. m + 1 |-> IF k = 0 THEN s ELSE G[k][g[k - 1]]]
    BY <2>4, <2>5
  <2>7. \E h \in [0 .. m + 1 -> V] : h = [k \in 0 .. m + 1 |-> IF k = 0 THEN s ELSE G[k][h[k - 1]]]
    BY <2>4, <2>6
  <2>8. m + 1 \in Nat
    BY <2>1
  <2> QED
    BY <2>7, <2>8
<1>3. Good = Nat
  <2> HIDE DEF Good
  <2>1. Good \in SUBSET Nat
    BY DEF Good
  <2> QED
    BY <1>1, <1>2, <2>1, NatSet
<1>4. PICK f \in [0 .. n -> V] : f = [k \in 0 .. n |-> IF k = 0 THEN s ELSE G[k][f[k - 1]]]
  BY <1>3
<1>5. \A k \in 0 .. n : f[k] = IF k = 0 THEN s ELSE G[k][f[k - 1]]
  BY <1>4
<1>6. Iterates(f, V, s, G, n)
  BY <1>5 DEF Iterates
<1> QED
  BY <1>6

-----------------------------------------------------------------------------
(***************************************************************************)
(* The traversal: distances.                                               *)
(***************************************************************************)
\* Levels of a spread, as Within counts them.
AreLevels(w) ==
  /\ w \in [0 .. lookup.depth -> SUBSET GraphNodes]
  /\ w[0] = Started
  /\ \A k \in 1 .. lookup.depth : w[k] = w[k - 1] \cup UNION {Adjacent(lookup, n) : n \in w[k - 1]}

LEMMA AdjacentNodes ==
  ASSUME manifest \subseteq GraphEdges, NEW q, NEW n
  PROVE  Adjacent(q, n) \subseteq GraphNodes
BY DEF Adjacent, GraphEdges

LEMMA WithinAreLevels ==
  ASSUME GraphTypeOK, lookup # NoLookup
  PROVE  AreLevels(Within)
<1>1. lookup.depth \in Nat
  BY GraphShape DEF GraphTypeOK, GraphQuestions
<1>2. Started \in SUBSET GraphNodes
  BY DEF GraphTypeOK, Started
<1> DEFINE Spread(N) == N \cup UNION {Adjacent(lookup, n) : n \in N}
<1>3. ASSUME NEW N \in SUBSET GraphNodes PROVE Spread(N) \in SUBSET GraphNodes
  BY AdjacentNodes DEF GraphTypeOK
<1>4. PICK g : g = [N \in SUBSET GraphNodes |-> Spread(N)]
  OBVIOUS
<1>5. PICK G : G = [k \in Nat |-> g]
  OBVIOUS
<1>6. g \in [SUBSET GraphNodes -> SUBSET GraphNodes]
  BY <1>3, <1>4
<1>7. G \in [Nat -> [SUBSET GraphNodes -> SUBSET GraphNodes]]
  BY <1>5, <1>6
<1> DEFINE Step(f) == [k \in 0 .. lookup.depth |->
                        IF k = 0 THEN Started
                        ELSE f[k - 1] \cup UNION {Adjacent(lookup, n) : n \in f[k - 1]}]
<1>8. PICK f : Iterates(f, SUBSET GraphNodes, Started, G, lookup.depth)
  BY <1>1, <1>2, <1>7, Iterated
<1>81. f \in [0 .. lookup.depth -> SUBSET GraphNodes]
  BY <1>8 DEF Iterates
<1>9. f = Step(f)
  <2>1. ASSUME NEW k \in 0 .. lookup.depth
        PROVE  f[k] = IF k = 0 THEN Started ELSE Spread(f[k - 1])
    <3>1. f[k] = IF k = 0 THEN Started ELSE G[k][f[k - 1]]
      BY <1>1, <1>8 DEF Iterates
    <3>2. ASSUME k # 0 PROVE G[k][f[k - 1]] = Spread(f[k - 1])
      <4>1. k - 1 \in 0 .. lookup.depth /\ k \in Nat
        BY <1>1, <3>2
      <4>2. f[k - 1] \in SUBSET GraphNodes
        BY <4>1, <1>8 DEF Iterates
      <4> QED
        BY <1>4, <1>5, <4>1, <4>2
    <3> QED
      BY <3>1, <3>2
  <2> QED
    BY <1>81, <2>1
<1>10. Within = CHOOSE h : h = Step(h)
  BY DEF Within
<1>11. Within = Step(Within)
  <2> HIDE DEF Step
  <2> QED
    BY <1>9, <1>10
<1>12. \A k \in 0 .. lookup.depth : Within[k] = IF k = 0 THEN Started ELSE Spread(Within[k - 1])
  BY <1>11
<1>13. Within = f
  <2> DEFINE Same == {k \in Nat : k \in 0 .. lookup.depth => Within[k] = f[k]}
  <2>1. 0 \in Same
    BY <1>1, <1>8, <1>12 DEF Iterates
  <2>2. ASSUME NEW k \in Same PROVE k + 1 \in Same
    <3>1. k \in Nat
      OBVIOUS
    <3>2. ASSUME k + 1 \in 0 .. lookup.depth PROVE Within[k + 1] = f[k + 1]
      <4>1. k \in 0 .. lookup.depth /\ k + 1 # 0 /\ (k + 1) - 1 = k
        BY <3>1, <3>2, <1>1
      <4>2. Within[k] = f[k]
        BY <4>1
      <4>3. Within[k + 1] = Spread(Within[(k + 1) - 1])
        BY <3>2, <4>1, <1>12
      <4>4. f[k + 1] = Spread(f[(k + 1) - 1])
        BY <3>2, <4>1, <1>9
      <4> QED
        BY <4>1, <4>2, <4>3, <4>4
    <3> QED
      BY <3>1, <3>2
  <2>3. Same = Nat
    <3> HIDE DEF Same
    <3>1. Same \in SUBSET Nat
      BY DEF Same
    <3> QED
      BY <2>1, <2>2, <3>1, NatSet
  <2>4. \A k \in 0 .. lookup.depth : Within[k] = f[k]
    BY <2>3, <1>1
  <2>5. Within = [k \in 0 .. lookup.depth |-> Within[k]]
    BY <1>11
  <2> QED
    BY <1>81, <2>4, <2>5
<1> QED
  <2>1. Within \in [0 .. lookup.depth -> SUBSET GraphNodes]
    BY <1>81, <1>13
  <2>2. Within[0] = Started
    <3>1. 0 \in 0 .. lookup.depth
      BY <1>1
    <3> QED
      BY <1>12, <3>1
  <2>3. ASSUME NEW k \in 1 .. lookup.depth PROVE Within[k] = Spread(Within[k - 1])
    <3>1. k \in 0 .. lookup.depth /\ k # 0
      BY <1>1
    <3> HIDE DEF Spread
    <3> QED
      BY <1>12, <3>1
  <2> QED
    BY <2>1, <2>2, <2>3 DEF AreLevels

LEMMA LevelsAreWithin ==
  ASSUME GraphTypeOK, lookup # NoLookup, NEW w, AreLevels(w)
  PROVE  w = Within
<1>1. lookup.depth \in Nat
  BY GraphShape DEF GraphTypeOK, GraphQuestions
<1>2. AreLevels(Within)
  BY WithinAreLevels
<1>3. PICK T : T = {k \in Nat : w[k] = Within[k]}
  OBVIOUS
<1>4. 0 \in T
  BY <1>2, <1>3 DEF AreLevels
<1>5. ASSUME NEW k \in 0 .. lookup.depth - 1, k \in T PROVE k + 1 \in T
  <2>1. k \in Nat /\ k + 1 \in 1 .. lookup.depth /\ (k + 1) - 1 = k
    BY <1>1
  <2>2. w[k] = Within[k]
    BY <1>3, <1>5
  <2>3. w[k + 1] = w[(k + 1) - 1] \cup UNION {Adjacent(lookup, n) : n \in w[(k + 1) - 1]}
    BY <2>1 DEF AreLevels
  <2>4. Within[k + 1] = Within[(k + 1) - 1] \cup UNION {Adjacent(lookup, n) : n \in Within[(k + 1) - 1]}
    BY <1>2, <2>1 DEF AreLevels
  <2>5. w[k + 1] = Within[k + 1]
    BY <2>1, <2>2, <2>3, <2>4
  <2> QED
    BY <1>3, <2>1, <2>5
<1>6. 0 .. lookup.depth \subseteq T
  BY <1>1, <1>4, <1>5, InductionOn
<1>7. \A k \in 0 .. lookup.depth : w[k] = Within[k]
  BY <1>3, <1>6
<1>8. w \in [0 .. lookup.depth -> SUBSET GraphNodes] /\ Within \in [0 .. lookup.depth -> SUBSET GraphNodes]
  BY <1>2 DEF AreLevels
<1>9. PICK D : D = 0 .. lookup.depth
  OBVIOUS
<1>10. w \in [D -> SUBSET GraphNodes] /\ Within \in [D -> SUBSET GraphNodes]
  BY <1>8, <1>9
<1>11. \A k \in D : w[k] = Within[k]
  BY <1>7, <1>9
<1> QED
  BY <1>10, <1>11, SameFunction

\* The levels stay what they are while the question and its start do.
LEMMA WithinIsLevels == GraphTypeOK /\ lookup # NoLookup => AreLevels(Within)
BY WithinAreLevels

LEMMA WithinStays ==
  GraphTypeOK /\ GraphTypeOK' /\ lookup # NoLookup /\ lookup' = lookup /\ manifest' = manifest
  /\ Started' = Started
  => Within' = Within
<1> SUFFICES ASSUME GraphTypeOK, GraphTypeOK', lookup # NoLookup, lookup' = lookup,
                    manifest' = manifest, Started' = Started
             PROVE  Within' = Within
  OBVIOUS
<1>1. (GraphTypeOK /\ lookup # NoLookup => AreLevels(Within))'
  BY WithinIsLevels, PTL
<1>2. AreLevels(Within)'
  BY <1>1
<1>3. PICK w : w = Within'
  OBVIOUS
<1>4. AreLevels(w)
  BY <1>2, <1>3 DEF AreLevels, Adjacent
<1> QED
  BY <1>3, <1>4, LevelsAreWithin

\* What the levels hold.
LEMMA WithinHolds ==
  ASSUME GraphTypeOK, lookup # NoLookup
  PROVE  /\ lookup.depth \in Nat \ {0} /\ lookup.maxNodes \in Nat \ {0}
         /\ Within[0] = Started
         /\ \A k \in 0 .. lookup.depth : Within[k] \subseteq GraphNodes
         /\ \A k \in 0 .. lookup.depth - 1 :
              /\ Within[k] \subseteq Within[k + 1]
              /\ \A n \in Within[k] : Adjacent(lookup, n) \subseteq Within[k + 1]
              /\ \A m \in Within[k + 1] : m \in Within[k] \/ \E n \in Within[k] : m \in Adjacent(lookup, n)
<1>1. lookup.depth \in Nat \ {0} /\ lookup.maxNodes \in Nat \ {0}
  BY GraphShape DEF GraphTypeOK, GraphQuestions
<1>2. AreLevels(Within)
  BY WithinAreLevels
<1>3. Within[0] = Started
  BY <1>2 DEF AreLevels
<1>4. \A k \in 0 .. lookup.depth : Within[k] \subseteq GraphNodes
  BY <1>2 DEF AreLevels
<1>5. ASSUME NEW k \in 0 .. lookup.depth - 1
      PROVE  Within[k + 1] = Within[k] \cup UNION {Adjacent(lookup, n) : n \in Within[k]}
  <2>1. k + 1 \in 1 .. lookup.depth /\ (k + 1) - 1 = k
    BY <1>1
  <2>2. \A j \in 1 .. lookup.depth :
          Within[j] = Within[j - 1] \cup UNION {Adjacent(lookup, n) : n \in Within[j - 1]}
    BY <1>2 DEF AreLevels
  <2>3. Within[k + 1] = Within[(k + 1) - 1] \cup UNION {Adjacent(lookup, n) : n \in Within[(k + 1) - 1]}
    BY <2>1, <2>2
  <2> QED
    BY <2>1, <2>3
<1>6. ASSUME NEW k \in 0 .. lookup.depth - 1
      PROVE  /\ Within[k] \subseteq Within[k + 1]
             /\ \A n \in Within[k] : Adjacent(lookup, n) \subseteq Within[k + 1]
             /\ \A m \in Within[k + 1] : m \in Within[k] \/ \E n \in Within[k] : m \in Adjacent(lookup, n)
  BY <1>5
<1> QED
  BY <1>1, <1>3, <1>4, <1>6

LEMMA WithinGrows ==
  ASSUME GraphTypeOK, lookup # NoLookup, NEW k \in 0 .. lookup.depth, NEW d \in 0 .. k
  PROVE  Within[d] \subseteq Within[k]
<1>1. lookup.depth \in Nat
  BY WithinHolds
<1>2. PICK T : T = {j \in Nat : d + j <= lookup.depth => Within[d] \subseteq Within[d + j]}
  OBVIOUS
<1>3. 0 \in T
  BY <1>2
<1>4. ASSUME NEW j \in T PROVE j + 1 \in T
  <2>1. j \in Nat
    BY <1>2
  <2>2. ASSUME d + (j + 1) <= lookup.depth PROVE Within[d] \subseteq Within[d + (j + 1)]
    <3>1. d + j \in 0 .. lookup.depth - 1 /\ (d + j) + 1 = d + (j + 1) /\ d + j <= lookup.depth
      BY <1>1, <2>1, <2>2
    <3>2. Within[d] \subseteq Within[d + j]
      BY <1>2, <3>1
    <3>3. Within[d + j] \subseteq Within[(d + j) + 1]
      BY <3>1, WithinHolds
    <3> QED
      BY <3>1, <3>2, <3>3
  <2> QED
    BY <1>2, <2>1, <2>2
<1>5. T = Nat
  <2>1. T \in SUBSET Nat
    BY <1>2
  <2> QED
    BY <1>3, <1>4, <2>1, NatSet
<1>6. k - d \in Nat /\ d + (k - d) = k /\ k <= lookup.depth
  BY <1>1
<1>7. k - d \in T
  BY <1>5, <1>6
<1>8. Within[d] \subseteq Within[d + (k - d)]
  BY <1>2, <1>6, <1>7
<1> QED
  BY <1>6, <1>8

LEMMA FiniteNodes ==
  ASSUME NEW S, S \subseteq GraphNodes
  PROVE  IsFiniteSet(S) /\ Cardinality(S) \in Nat
<1>1. IsFiniteSet(GraphNodes)
  BY GraphShape, FS_Union DEF GraphNodes
<1> QED
  BY <1>1, FS_Subset, FS_CardinalityType

LEMMA ListedInOrder ==
  ASSUME NEW seeds, seeds \subseteq GraphNodes
  PROVE  /\ Cardinality(seeds) \in Nat
         /\ InOrder(seeds) \in [1 .. Cardinality(seeds) -> seeds]
         /\ \A n \in seeds : \E i \in 1 .. Cardinality(seeds) : InOrder(seeds)[i] = n
<1>1. IsFiniteSet(seeds) /\ Cardinality(seeds) \in Nat
  BY FiniteNodes
<1>2. ExistsBijection(1 .. Cardinality(seeds), seeds)
  BY <1>1, FS_CardinalityType
<1>3. PICK f : f \in Bijection(1 .. Cardinality(seeds), seeds)
  BY <1>2 DEF ExistsBijection
<1>4. f \in [1 .. Cardinality(seeds) -> seeds] /\ \A n \in seeds : \E i \in DOMAIN f : f[i] = n
  BY <1>3 DEF Bijection, Surjection
<1>5. /\ InOrder(seeds) \in [1 .. Cardinality(seeds) -> seeds]
      /\ \A n \in seeds : \E i \in DOMAIN InOrder(seeds) : InOrder(seeds)[i] = n
  BY <1>4 DEF InOrder
<1>6. \A n \in seeds : \E i \in 1 .. Cardinality(seeds) : InOrder(seeds)[i] = n
  BY <1>5
<1> QED
  BY <1>1, <1>5, <1>6

LEMMA LookupsAsk ==
  ASSUME GraphTypeOK, NEW q \in Lookups
  PROVE  q \in GraphQuestions
<1>1. ASSUME NEW s \in GraphSymbols PROVE s \in GraphNodes /\ FileOfSymbol[s] \in GraphNodes
  BY GraphShape DEF GraphNodes
<1>2. ASSUME NEW s \in GraphSymbols, NEW d \in Depths, NEW l \in NodeLimits, q = CallersOf(s, d, l)
      PROVE  q \in GraphQuestions
  BY <1>1, <1>2 DEF CallersOf, Question, GraphQuestions, AllKinds
<1>3. ASSUME NEW n \in GraphNodes, NEW way \in {"in", "out", "both"}, NEW d \in Depths,
             NEW l \in NodeLimits, q = NeighboursOf(n, way, d, l)
      PROVE  q \in GraphQuestions
  BY <1>3 DEF NeighboursOf, Question, GraphQuestions
<1>4. ASSUME NEW F \in SUBSET GraphFiles, NEW d \in Depths, NEW l \in NodeLimits, q = ImpactOf(F, d, l)
      PROVE  q \in GraphQuestions
  BY <1>4 DEF ImpactOf, Question, GraphQuestions, AllKinds, GraphNodes
<1> QED
  BY <1>2, <1>3, <1>4 DEF Lookups

-----------------------------------------------------------------------------
(***************************************************************************)
(* The traversal: the invariant.                                           *)
(***************************************************************************)
\* A node is visited at a depth: where the traversal started, or where it was found.
AtDistance(n, d) ==
  \/ d = 0 /\ n \in Started
  \/ \E i \in DOMAIN reached : reached[i].key = n /\ reached[i].depth = d

\* The path of an entry leads along edges from the start to its node.
Walked(e) ==
  /\ Len(e.path) = e.depth + 1
  /\ e.path[1] \in Started /\ e.path[Len(e.path)] = e.key
  /\ \A k \in 1 .. e.depth : e.path[k + 1] \in Adjacent(lookup, e.path[k])

NotAsked ==
  visited = {} /\ frontier = <<>> /\ expanding = NoLookup /\ reached = <<>> /\ truncated = FALSE

FoundOnce ==
  /\ \A i \in DOMAIN reached : /\ reached[i].key \in visited /\ Walked(reached[i])
                               /\ reached[i].depth \in 1 .. lookup.depth
  /\ \A i, j \in DOMAIN reached : reached[i].key = reached[j].key => i = j

\* What waits was visited, nearest first, and no farther than one step beyond what is
\* looked at.
Queued ==
  /\ \A i \in DOMAIN frontier : /\ Walked(frontier[i]) /\ AtDistance(frontier[i].key, frontier[i].depth)
                                /\ frontier[i].depth <= lookup.depth
  /\ expanding # NoLookup =>
       /\ Walked(expanding) /\ AtDistance(expanding.key, expanding.depth) /\ expanding.depth < lookup.depth
       /\ \A i \in DOMAIN frontier : expanding.depth <= frontier[i].depth
       /\ \A i \in DOMAIN reached : reached[i].depth <= expanding.depth + 1
       /\ \A i \in DOMAIN frontier : frontier[i].depth <= expanding.depth + 1
  /\ \A i, j \in DOMAIN frontier : i <= j => frontier[i].depth <= frontier[j].depth
                                             /\ frontier[j].depth <= frontier[i].depth + 1
  /\ \A i \in DOMAIN reached : \A j \in DOMAIN frontier : reached[i].depth <= frontier[j].depth + 1

\* Around what neither waits nor is looked at, everything was found in one more step.
LeftBehind ==
  ~truncated => \A n \in GraphNodes : \A d \in 0 .. lookup.depth - 1 :
    /\ AtDistance(n, d)
    /\ \A i \in DOMAIN frontier : frontier[i].key # n
    /\ expanding # NoLookup => expanding.key # n
    => \A m \in Adjacent(lookup, n) : \E c \in 0 .. d + 1 : AtDistance(m, c)

\* Nodes are found at their distance from the start.
Levelled ==
  \A n \in GraphNodes : \A d \in 0 .. lookup.depth :
    AtDistance(n, d) => n \in Within[d] /\ (d # 0 => n \notin Within[d - 1])

Truncation ==
  /\ truncated => /\ Cardinality(visited) >= lookup.maxNodes
                  /\ ~(lookup.seeds \cup Within[lookup.depth] \subseteq visited)
  /\ ~truncated => lookup.seeds \subseteq visited

GraphInv ==
  /\ GraphTypeOK
  /\ lookup = NoLookup => NotAsked
  /\ lookup # NoLookup => FoundOnce /\ Queued /\ LeftBehind /\ Levelled /\ Truncation

LEMMA DepthOnce ==
  ASSUME GraphTypeOK, FoundOnce, NEW n, NEW c, NEW d, AtDistance(n, c), AtDistance(n, d)
  PROVE  c = d
BY DEF AtDistance, FoundOnce, Started

\* As far as nothing nearer waits, everything within a distance was found within it.
LEMMA FoundWithin ==
  ASSUME GraphTypeOK, lookup # NoLookup, FoundOnce, Queued, LeftBehind, ~truncated,
         NEW B \in 0 .. lookup.depth,
         \A i \in DOMAIN frontier : B <= frontier[i].depth,
         expanding # NoLookup => B <= expanding.depth
  PROVE  \A k \in 0 .. B : \A m \in Within[k] : \E c \in 0 .. k : AtDistance(m, c)
<1>1. lookup.depth \in Nat
  BY WithinHolds
<1>2. PICK T : T = {k \in Nat : \A m \in Within[k] : \E c \in 0 .. k : AtDistance(m, c)}
  OBVIOUS
<1>3. 0 \in T
  <2>1. \A m \in Within[0] : AtDistance(m, 0)
    BY WithinHolds DEF AtDistance
  <2> QED
    BY <1>2, <2>1
<1>4. ASSUME NEW k \in 0 .. B - 1, k \in T PROVE k + 1 \in T
  <2>1. k \in Nat /\ k < B /\ k \in 0 .. lookup.depth - 1 /\ k \in 0 .. lookup.depth
    BY <1>1
  <2>2. ASSUME NEW m \in Within[k + 1] PROVE \E c \in 0 .. k + 1 : AtDistance(m, c)
    <3>1. CASE m \in Within[k]
      <4>1. PICK c \in 0 .. k : AtDistance(m, c)
        BY <1>2, <1>4, <3>1
      <4>2. c \in 0 .. k + 1
        BY <2>1
      <4> QED
        BY <4>1, <4>2
    <3>2. CASE m \notin Within[k]
      <4>1. PICK n \in Within[k] : m \in Adjacent(lookup, n)
        BY <2>1, <3>2, WithinHolds
      <4>2. PICK c \in 0 .. k : AtDistance(n, c)
        BY <1>2, <1>4
      <4>3. n \in GraphNodes
        BY <2>1, WithinHolds
      <4>4. c \in Nat /\ c < B /\ c \in 0 .. lookup.depth - 1
        BY <1>1, <2>1
      <4>5. ASSUME NEW i \in DOMAIN frontier PROVE frontier[i].key # n
        <5>1. SUFFICES ASSUME frontier[i].key = n PROVE FALSE
          OBVIOUS
        <5>2. AtDistance(n, frontier[i].depth)
          BY <5>1 DEF Queued
        <5>3. frontier[i].depth = c
          BY <4>2, <5>2, DepthOnce
        <5>4. B <= c
          BY <5>3
        <5> QED
          BY <4>4, <5>4
      <4>6. ASSUME expanding # NoLookup PROVE expanding.key # n
        <5>1. SUFFICES ASSUME expanding.key = n PROVE FALSE
          OBVIOUS
        <5>2. AtDistance(n, expanding.depth)
          BY <4>6, <5>1 DEF Queued
        <5>3. expanding.depth = c
          BY <4>2, <5>2, DepthOnce
        <5>4. B <= c
          BY <4>6, <5>3
        <5> QED
          BY <4>4, <5>4
      <4>7. PICK e \in 0 .. c + 1 : AtDistance(m, e)
        BY <4>1, <4>2, <4>3, <4>4, <4>5, <4>6 DEF LeftBehind
      <4>8. e \in 0 .. k + 1
        BY <2>1, <4>4
      <4> QED
        BY <4>7, <4>8
    <3> QED
      BY <3>1, <3>2
  <2> QED
    BY <1>2, <2>1, <2>2
<1>5. 0 .. B \subseteq T
  BY <1>3, <1>4, InductionOn
<1> QED
  BY <1>2, <1>5

LEMMA FoundIsVisited ==
  ASSUME FoundOnce, NEW m, NEW d, AtDistance(m, d)
  PROVE  m \in visited
BY DEF AtDistance, FoundOnce, Started

LEMMA VisitedIsFound ==
  ASSUME GraphTypeOK, lookup # NoLookup, FoundOnce, NEW m \in visited
  PROVE  \E d \in 0 .. lookup.depth : AtDistance(m, d)
<1>1. lookup.depth \in Nat
  BY WithinHolds
<1>2. CASE m \in Started
  BY <1>1, <1>2 DEF AtDistance
<1>3. CASE m \notin Started
  <2>1. PICK i \in DOMAIN reached : reached[i].key = m
    BY <1>3 DEF Started
  <2>2. reached[i].depth \in 0 .. lookup.depth
    BY <1>1 DEF FoundOnce
  <2> QED
    BY <2>1, <2>2 DEF AtDistance
<1> QED
  BY <1>2, <1>3

LEMMA GraphStarts == GraphInit => GraphInv
<1> SUFFICES ASSUME GraphInit PROVE GraphInv
  OBVIOUS
<1>1. PICK edges \in Manifests : manifest = edges \cup Containment
  BY DEF GraphInit
<1>2. Containment \subseteq GraphEdges
  BY GraphShape DEF Containment, GraphEdges, GraphNodes, AllKinds
<1>3. manifest \subseteq GraphEdges
  BY <1>1, <1>2, GraphShape
<1>4. <<>> \in Seq(GraphEntries)
  OBVIOUS
<1>5. GraphTypeOK
  BY <1>3, <1>4 DEF GraphTypeOK, GraphInit
<1>6. NotAsked
  BY DEF GraphInit, NotAsked
<1> QED
  BY <1>5, <1>6 DEF GraphInv, GraphInit

LEMMA EntriesAre ==
  ASSUME NEW n \in GraphNodes
  PROVE  [key |-> n, depth |-> 0, path |-> <<n>>] \in GraphEntries
BY DEF GraphEntries

LEMMA AskKeeps ==
  ASSUME GraphInv, NEW q \in Lookups, AskGraph(q)
  PROVE  GraphInv'
<1>1. GraphTypeOK /\ NotAsked /\ lookup = NoLookup
  BY DEF GraphInv, AskGraph
<1>2. lookup' = q /\ q \in GraphQuestions /\ manifest' = manifest /\ expanding' = NoLookup /\ reached' = <<>>
  BY <1>1, LookupsAsk DEF AskGraph, NotAsked
<1>3. q # NoLookup
  BY <1>2, GraphShape
<1>4. PICK seeds \in SUBSET q.seeds :
        /\ Cardinality(seeds) = IF Cardinality(q.seeds) < q.maxNodes THEN Cardinality(q.seeds)
                                                                      ELSE q.maxNodes
        /\ visited' = seeds
        /\ frontier' = [i \in 1 .. Cardinality(seeds) |->
                          [key |-> InOrder(seeds)[i], depth |-> 0, path |-> <<InOrder(seeds)[i]>>]]
        /\ truncated' = (seeds # q.seeds)
  BY DEF AskGraph
<1>5. q.seeds \subseteq GraphNodes /\ seeds \subseteq GraphNodes
  BY <1>2 DEF GraphQuestions
<1>6. /\ q.depth \in Nat \ {0} /\ q.maxNodes \in Nat \ {0}
      /\ Cardinality(seeds) \in Nat /\ Cardinality(q.seeds) \in Nat
  BY <1>2, <1>5, FiniteNodes, GraphShape DEF GraphQuestions
<1>7. PICK s : s = InOrder(seeds)
  OBVIOUS
<1>8. s \in [1 .. Cardinality(seeds) -> seeds]
  BY <1>5, <1>7, ListedInOrder
<1>9. \A i \in 1 .. Cardinality(seeds) :
        /\ s[i] \in seeds /\ s[i] \in GraphNodes
        /\ frontier'[i] = [key |-> s[i], depth |-> 0, path |-> <<s[i]>>]
  BY <1>4, <1>5, <1>7, <1>8
<1>10. frontier' \in Seq(GraphEntries) /\ DOMAIN frontier' = 1 .. Cardinality(seeds)
  <2>1. frontier' = [i \in 1 .. Cardinality(seeds) |-> frontier'[i]]
    BY <1>4
  <2>2. \A i \in 1 .. Cardinality(seeds) : frontier'[i] \in GraphEntries
    BY <1>9, EntriesAre
  <2>3. frontier' \in [1 .. Cardinality(seeds) -> GraphEntries]
    BY <2>1, <2>2
  <2> QED
    BY <1>6, <2>3
<1>11. GraphTypeOK'
  <2>1. <<>> \in Seq(GraphEntries)
    OBVIOUS
  <2>2. truncated' \in BOOLEAN
    BY <1>4
  <2> QED
    BY <1>1, <1>2, <1>4, <1>5, <1>10, <2>1, <2>2 DEF GraphTypeOK
<1>12. Started' = seeds
  BY <1>2, <1>4 DEF Started
<1>13. ASSUME NEW i \in DOMAIN frontier'
       PROVE  /\ frontier'[i].key \in seeds /\ frontier'[i].depth = 0 /\ frontier'[i].path = <<frontier'[i].key>>
  BY <1>9, <1>10
<1>14. FoundOnce'
  BY <1>2 DEF FoundOnce
<1>15. Queued'
  <2>1. ASSUME NEW i \in DOMAIN frontier'
        PROVE  Walked(frontier[i])' /\ AtDistance(frontier[i].key, frontier[i].depth)'
    <3>1. PICK e : e = frontier'[i]
      OBVIOUS
    <3>2. e.key \in seeds /\ e.depth = 0 /\ e.path = <<e.key>>
      BY <1>13, <3>1
    <3>3. Len(e.path) = 1 /\ e.path[1] = e.key /\ 0 + 1 = 1 /\ 1 .. 0 = {}
      BY <3>2
    <3>4. Walked(frontier[i])'
      BY <1>12, <3>1, <3>2, <3>3 DEF Walked
    <3>5. AtDistance(frontier[i].key, frontier[i].depth)'
      BY <1>12, <3>1, <3>2 DEF AtDistance
    <3> QED
      BY <3>4, <3>5
  <2>2. \A i \in DOMAIN frontier' : frontier'[i].depth <= lookup'.depth
    BY <1>2, <1>6, <1>13
  <2>3. \A i, j \in DOMAIN frontier' : frontier'[i].depth <= frontier'[j].depth
                                       /\ frontier'[j].depth <= frontier'[i].depth + 1
    BY <1>13
  <2> QED
    BY <1>2, <2>1, <2>2, <2>3 DEF Queued
<1>16. \A n, d : AtDistance(n, d)' <=> d = 0 /\ n \in seeds
  BY <1>2, <1>12 DEF AtDistance
<1>17. LeftBehind'
  <2>1. ASSUME ~truncated', NEW n \in seeds PROVE \E i \in DOMAIN frontier' : frontier'[i].key = n
    <3>1. \E i \in 1 .. Cardinality(seeds) : s[i] = n
      BY <1>5, <1>7, ListedInOrder
    <3> QED
      BY <3>1, <1>9, <1>10
  <2> QED
    BY <1>16, <2>1 DEF LeftBehind
<1>18. Levelled'
  <2>1. (GraphTypeOK /\ lookup # NoLookup => AreLevels(Within))'
    BY WithinIsLevels, PTL
  <2>2. Within'[0] = Started'
    BY <1>2, <1>3, <1>11, <2>1 DEF AreLevels
  <2> QED
    BY <1>12, <1>16, <2>2 DEF Levelled
<1>19. Truncation'
  <2>1. ASSUME truncated'
        PROVE  Cardinality(seeds) >= q.maxNodes /\ ~(q.seeds \subseteq seeds)
    <3>1. seeds # q.seeds /\ ~(q.seeds \subseteq seeds)
      BY <1>4, <2>1
    <3>2. Cardinality(seeds) # Cardinality(q.seeds)
      BY <1>5, <3>1, FiniteNodes, FS_Subset
    <3> QED
      BY <1>4, <1>6, <3>1, <3>2
  <2>2. ASSUME ~truncated' PROVE seeds = q.seeds
    BY <1>4, <2>2
  <2> QED
    BY <1>2, <1>4, <2>1, <2>2 DEF Truncation
<1> QED
  BY <1>2, <1>3, <1>11, <1>14, <1>15, <1>17, <1>18, <1>19 DEF GraphInv

LEMMA SameFindings ==
  ASSUME GraphInv, GraphTypeOK', lookup # NoLookup,
         UNCHANGED <<manifest, lookup, visited, reached>>
  PROVE  /\ Started' = Started /\ Within' = Within
         /\ \A n, d : AtDistance(n, d)' <=> AtDistance(n, d)
         /\ FoundOnce' /\ Levelled'
         /\ truncated' = truncated => Truncation'
<1>1. Started' = Started
  BY DEF Started
<1>2. Within' = Within
  BY <1>1, WithinStays DEF GraphInv
<1>3. \A n, d : AtDistance(n, d)' <=> AtDistance(n, d)
  BY <1>1 DEF AtDistance
<1>4. FoundOnce'
  <2>1. FoundOnce
    BY DEF GraphInv
  <2> QED
    BY <1>1, <2>1 DEF FoundOnce, Walked, Adjacent
<1>5. Levelled'
  <2>1. Levelled
    BY DEF GraphInv
  <2> QED
    BY <1>2, <1>3, <2>1 DEF Levelled
<1>6. ASSUME truncated' = truncated PROVE Truncation'
  <2>1. Truncation
    BY DEF GraphInv
  <2> QED
    BY <1>2, <1>6, <2>1 DEF Truncation
<1> QED
  BY <1>1, <1>2, <1>3, <1>4, <1>5, <1>6

LEMMA DequeueKeeps ==
  ASSUME GraphInv, Dequeue
  PROVE  GraphInv'
<1>1. /\ GraphTypeOK /\ expanding = NoLookup /\ frontier # <<>> /\ frontier' = Tail(frontier)
      /\ expanding' = (IF Head(frontier).depth >= lookup.depth THEN NoLookup ELSE Head(frontier))
      /\ UNCHANGED <<manifest, lookup, visited, reached, truncated>>
  BY DEF GraphInv, Dequeue
<1>2. lookup # NoLookup
  BY <1>1 DEF GraphInv, NotAsked
<1>3. FoundOnce /\ Queued /\ LeftBehind
  BY <1>2 DEF GraphInv
<1>4. frontier \in Seq(GraphEntries)
  BY <1>1 DEF GraphTypeOK
<1>5. /\ Head(frontier) \in GraphEntries /\ Head(frontier) = frontier[1]
      /\ Tail(frontier) \in Seq(GraphEntries) /\ Len(Tail(frontier)) = Len(frontier) - 1
      /\ \A i \in 1 .. Len(Tail(frontier)) : Tail(frontier)[i] = frontier[i + 1]
      /\ Len(frontier) \in Nat \ {0}
  BY <1>1, <1>4, HeadTailProperties, EmptySeq
<1>6. PICK e : e = Head(frontier)
  OBVIOUS
<1>7. e \in GraphEntries /\ e = frontier[1] /\ e.depth \in Nat
  BY <1>5, <1>6 DEF GraphEntries
<1>8. DOMAIN frontier = 1 .. Len(frontier) /\ 1 \in DOMAIN frontier
  BY <1>4, <1>5
<1>9. \A i \in DOMAIN frontier' : i + 1 \in DOMAIN frontier /\ 1 <= i + 1 /\ frontier'[i] = frontier[i + 1]
  <2>1. DOMAIN frontier' = 1 .. Len(frontier) - 1
    BY <1>1, <1>5
  <2> QED
    BY <1>1, <1>5, <1>8, <2>1
<1>10. GraphTypeOK'
  BY <1>1, <1>5 DEF GraphTypeOK
<1>11. /\ Started' = Started /\ Within' = Within /\ \A n, d : AtDistance(n, d)' <=> AtDistance(n, d)
       /\ FoundOnce' /\ Levelled' /\ Truncation'
  BY <1>1, <1>2, <1>10, SameFindings
<1>12. lookup.depth \in Nat
  BY <1>1, <1>2, WithinHolds
<1>13. e # NoLookup
  BY <1>7, GraphShape
<1>14. Queued'
  <2>1. ASSUME NEW i \in DOMAIN frontier'
        PROVE  /\ Walked(frontier[i])' /\ AtDistance(frontier[i].key, frontier[i].depth)'
               /\ frontier'[i].depth <= lookup'.depth
    <3>1. PICK f : f = frontier'[i]
      OBVIOUS
    <3>2. Walked(f) /\ AtDistance(f.key, f.depth) /\ f.depth <= lookup.depth
      BY <1>3, <1>9, <3>1 DEF Queued
    <3>3. Walked(frontier[i])'
      BY <1>1, <1>11, <3>1, <3>2 DEF Walked, Adjacent
    <3>4. AtDistance(frontier[i].key, frontier[i].depth)'
      BY <1>1, <1>11, <3>1, <3>2 DEF AtDistance
    <3> QED
      BY <1>1, <3>1, <3>2, <3>3, <3>4
  <2>2. ASSUME expanding' # NoLookup
        PROVE  /\ Walked(expanding)' /\ AtDistance(expanding.key, expanding.depth)' /\ expanding'.depth < lookup'.depth
               /\ \A i \in DOMAIN frontier' : expanding'.depth <= frontier'[i].depth
               /\ \A i \in DOMAIN reached' : reached'[i].depth <= expanding'.depth + 1
               /\ \A i \in DOMAIN frontier' : frontier'[i].depth <= expanding'.depth + 1
    <3>1. expanding' = e /\ ~(e.depth >= lookup.depth)
      BY <1>1, <1>6, <2>2
    <3>2. Walked(e) /\ AtDistance(e.key, e.depth)
      BY <1>3, <1>7, <1>8 DEF Queued
    <3>3. Walked(expanding)'
      BY <1>1, <1>11, <3>1, <3>2 DEF Walked, Adjacent
    <3>4. AtDistance(expanding.key, expanding.depth)'
      BY <1>1, <1>11, <3>1, <3>2 DEF AtDistance
    <3>5. expanding'.depth < lookup'.depth
      BY <1>1, <1>7, <1>12, <3>1
    <3>6. \A i \in DOMAIN frontier' : e.depth <= frontier'[i].depth /\ frontier'[i].depth <= e.depth + 1
      BY <1>3, <1>7, <1>8, <1>9 DEF Queued
    <3>7. \A i \in DOMAIN reached : reached[i].depth <= e.depth + 1
      BY <1>3, <1>7, <1>8 DEF Queued
    <3> QED
      BY <1>1, <3>1, <3>3, <3>4, <3>5, <3>6, <3>7
  <2>3. ASSUME NEW i \in DOMAIN frontier', NEW j \in DOMAIN frontier', i <= j
        PROVE  frontier'[i].depth <= frontier'[j].depth /\ frontier'[j].depth <= frontier'[i].depth + 1
    <3>1. i + 1 \in DOMAIN frontier /\ j + 1 \in DOMAIN frontier /\ i + 1 <= j + 1
      BY <1>1, <1>5, <1>9, <2>3
    <3> QED
      BY <1>3, <1>9, <3>1 DEF Queued
  <2>4. \A i \in DOMAIN reached' : \A j \in DOMAIN frontier' : reached'[i].depth <= frontier'[j].depth + 1
    BY <1>1, <1>3, <1>9 DEF Queued
  <2> QED
    BY <2>1, <2>2, <2>3, <2>4 DEF Queued
<1>15. LeftBehind'
  <2>1. SUFFICES ASSUME ~truncated, NEW n \in GraphNodes, NEW d \in 0 .. lookup.depth - 1, AtDistance(n, d),
                        \A i \in DOMAIN frontier' : frontier'[i].key # n,
                        expanding' # NoLookup => expanding'.key # n
                 PROVE  \A m \in Adjacent(lookup, n) : \E c \in 0 .. d + 1 : AtDistance(m, c)
    <3>1. \A n : Adjacent(lookup, n)' = Adjacent(lookup, n)
      BY <1>1 DEF Adjacent
    <3> QED
      BY <1>1, <1>11, <3>1, <2>1 DEF LeftBehind
  <2>2. e.key # n
    <3>1. CASE e.depth >= lookup.depth
      <4>1. SUFFICES ASSUME e.key = n PROVE FALSE
        OBVIOUS
      <4>2. AtDistance(n, e.depth)
        BY <1>3, <1>7, <1>8, <4>1 DEF Queued
      <4>3. e.depth = d
        BY <1>1, <1>3, <2>1, <4>2, DepthOnce
      <4> QED
        BY <1>7, <1>12, <3>1, <4>3
    <3>2. CASE ~(e.depth >= lookup.depth)
      BY <1>1, <1>6, <1>13, <2>1, <3>2
    <3> QED
      BY <3>1, <3>2
  <2>3. \A i \in DOMAIN frontier : frontier[i].key # n
    <3>1. ASSUME NEW i \in DOMAIN frontier PROVE frontier[i].key # n
      <4>1. CASE i = 1
        BY <1>7, <2>2, <4>1
      <4>2. CASE i # 1
        <5>1. i - 1 \in DOMAIN frontier' /\ (i - 1) + 1 = i
          BY <1>1, <1>5, <1>8, <4>2
        <5> QED
          BY <1>9, <2>1, <5>1
      <4> QED
        BY <4>1, <4>2
    <3> QED
      BY <3>1
  <2> QED
    BY <1>1, <1>3, <2>1, <2>3 DEF LeftBehind
<1> QED
  BY <1>1, <1>2, <1>10, <1>11, <1>14, <1>15 DEF GraphInv

LEMMA StopKeeps ==
  ASSUME GraphInv, StopAtLimit
  PROVE  GraphInv'
<1>1. /\ GraphTypeOK /\ expanding # NoLookup
      /\ Adjacent(lookup, expanding.key) \ visited # {}
      /\ Cardinality(visited) >= lookup.maxNodes
      /\ truncated' = TRUE /\ frontier' = <<>> /\ expanding' = NoLookup
      /\ UNCHANGED <<manifest, lookup, visited, reached>>
  BY DEF GraphInv, StopAtLimit
<1>2. lookup # NoLookup
  BY <1>1 DEF GraphInv, NotAsked
<1>3. Queued /\ Levelled
  BY <1>2 DEF GraphInv
<1>4. GraphTypeOK'
  <2>1. <<>> \in Seq(GraphEntries)
    OBVIOUS
  <2> QED
    BY <1>1, <2>1 DEF GraphTypeOK
<1>5. Within' = Within /\ FoundOnce' /\ Levelled'
  BY <1>1, <1>2, <1>4, SameFindings
<1>6. Queued'
  BY <1>1 DEF Queued
<1>7. LeftBehind'
  BY <1>1 DEF LeftBehind
<1>8. Truncation'
  <2>1. PICK m : m \in Adjacent(lookup, expanding.key) /\ m \notin visited
    BY <1>1
  <2>2. lookup.depth \in Nat /\ expanding.depth \in Nat /\ expanding.key \in GraphNodes
    BY <1>1, <1>2, WithinHolds DEF GraphTypeOK, GraphEntries
  <2>3. AtDistance(expanding.key, expanding.depth) /\ expanding.depth \in 0 .. lookup.depth - 1
    BY <1>1, <1>3, <2>2 DEF Queued
  <2>4. expanding.key \in Within[expanding.depth]
    BY <1>3, <2>2, <2>3 DEF Levelled
  <2>5. m \in Within[expanding.depth + 1]
    BY <1>1, <1>2, <2>1, <2>3, <2>4, WithinHolds
  <2>6. expanding.depth + 1 \in 0 .. lookup.depth /\ lookup.depth \in 0 .. lookup.depth
    BY <2>2, <2>3
  <2>7. Within[expanding.depth + 1] \subseteq Within[lookup.depth]
    BY <1>1, <1>2, <2>6, WithinGrows
  <2> QED
    BY <1>1, <1>5, <2>1, <2>5, <2>7 DEF Truncation
<1> QED
  BY <1>1, <1>2, <1>4, <1>5, <1>6, <1>7, <1>8 DEF GraphInv

LEMMA LeaveKeeps ==
  ASSUME GraphInv, LeaveNode
  PROVE  GraphInv'
<1>1. /\ GraphTypeOK /\ expanding # NoLookup /\ Adjacent(lookup, expanding.key) \subseteq visited
      /\ expanding' = NoLookup
      /\ UNCHANGED <<manifest, lookup, visited, frontier, reached, truncated>>
  BY DEF GraphInv, LeaveNode
<1>2. lookup # NoLookup
  BY <1>1 DEF GraphInv, NotAsked
<1>3. FoundOnce /\ Queued /\ LeftBehind
  BY <1>2 DEF GraphInv
<1>4. GraphTypeOK'
  BY <1>1 DEF GraphTypeOK
<1>5. /\ Started' = Started /\ Within' = Within /\ \A n, d : AtDistance(n, d)' <=> AtDistance(n, d)
      /\ FoundOnce' /\ Levelled' /\ Truncation'
  BY <1>1, <1>2, <1>4, SameFindings
<1>6. Queued'
  <2>1. \A i \in DOMAIN frontier : Walked(frontier[i])' /\ AtDistance(frontier[i].key, frontier[i].depth)'
    BY <1>1, <1>3, <1>5 DEF Queued, Walked, AtDistance, Adjacent
  <2> QED
    BY <1>1, <1>3, <2>1 DEF Queued
<1>7. LeftBehind'
  <2>1. SUFFICES ASSUME ~truncated, NEW n \in GraphNodes, NEW d \in 0 .. lookup.depth - 1, AtDistance(n, d),
                        \A i \in DOMAIN frontier : frontier[i].key # n
                 PROVE  \A m \in Adjacent(lookup, n) : \E c \in 0 .. d + 1 : AtDistance(m, c)
    <3>1. \A n : Adjacent(lookup, n)' = Adjacent(lookup, n)
      BY <1>1 DEF Adjacent
    <3> QED
      BY <1>1, <1>5, <3>1, <2>1 DEF LeftBehind
  <2>2. CASE expanding.key # n
    BY <1>1, <1>3, <2>1, <2>2 DEF LeftBehind
  <2>3. CASE expanding.key = n
    <3>1. expanding.depth = d
      BY <1>1, <1>3, <2>1, <2>3, DepthOnce DEF Queued
    <3>2. ASSUME NEW m \in Adjacent(lookup, n) PROVE \E c \in 0 .. d + 1 : AtDistance(m, c)
      <4>1. m \in visited
        BY <1>1, <2>3
      <4>2. CASE m \in Started
        <5>1. AtDistance(m, 0) /\ 0 \in 0 .. d + 1
          BY <4>2 DEF AtDistance
        <5> QED
          BY <5>1
      <4>3. CASE m \notin Started
        <5>1. PICK i \in DOMAIN reached : reached[i].key = m
          BY <4>1, <4>3 DEF Started
        <5>2. reached[i].depth <= d + 1
          BY <1>1, <1>3, <3>1 DEF Queued
        <5>3. reached[i].depth \in Nat
          BY <1>1, <1>2, <1>3, WithinHolds DEF FoundOnce
        <5>4. reached[i].depth \in 0 .. d + 1 /\ AtDistance(m, reached[i].depth)
          BY <5>1, <5>2, <5>3 DEF AtDistance
        <5> QED
          BY <5>4
      <4> QED
        BY <4>2, <4>3
    <3> QED
      BY <3>2
  <2> QED
    BY <2>2, <2>3
<1> QED
  BY <1>1, <1>2, <1>4, <1>5, <1>6, <1>7 DEF GraphInv

LEMMA VisitKeeps ==
  ASSUME GraphInv, NEW n \in GraphNodes, Visit(n)
  PROVE  GraphInv'
<1>1. PICK found : found = [key |-> n, depth |-> expanding.depth + 1, path |-> Append(expanding.path, n)]
  OBVIOUS
<1>2. /\ GraphTypeOK /\ expanding # NoLookup
      /\ n \in Adjacent(lookup, expanding.key) /\ n \notin visited
      /\ Cardinality(visited) < lookup.maxNodes
      /\ visited' = visited \cup {n}
      /\ reached' = Append(reached, found) /\ frontier' = Append(frontier, found)
      /\ UNCHANGED <<manifest, lookup, expanding, truncated>>
  BY <1>1 DEF GraphInv, Visit
<1>3. lookup # NoLookup
  BY <1>2 DEF GraphInv, NotAsked
<1>4. FoundOnce /\ Queued /\ LeftBehind /\ Levelled /\ Truncation
  BY <1>3 DEF GraphInv
<1>5. PICK e : e = expanding
  OBVIOUS
<1>6. /\ e \in GraphEntries /\ e.depth \in Nat /\ e.key \in GraphNodes /\ e.path \in Seq(GraphNodes)
      /\ lookup.depth \in Nat \ {0} /\ lookup.maxNodes \in Nat \ {0}
  BY <1>2, <1>3, <1>5, WithinHolds DEF GraphTypeOK, GraphEntries
<1>7. /\ Walked(e) /\ AtDistance(e.key, e.depth) /\ e.depth < lookup.depth
      /\ \A i \in DOMAIN frontier : e.depth <= frontier[i].depth /\ frontier[i].depth <= e.depth + 1
      /\ \A i \in DOMAIN reached : reached[i].depth <= e.depth + 1
  BY <1>2, <1>4, <1>5 DEF Queued
<1>8. ~truncated
  <2>1. Cardinality(visited) \in Nat
    BY <1>2, FiniteNodes DEF GraphTypeOK
  <2> QED
    BY <1>2, <1>4, <1>6, <2>1 DEF Truncation
<1>9. /\ found.key = n /\ found.depth = e.depth + 1 /\ found.path = Append(e.path, n)
      /\ found \in GraphEntries
  <2>1. Append(e.path, n) \in Seq(GraphNodes)
    BY <1>6, AppendProperties
  <2> QED
    BY <1>1, <1>5, <1>6, <2>1 DEF GraphEntries
<1>10. /\ Len(e.path) \in Nat /\ Len(found.path) = Len(e.path) + 1
       /\ \A k \in 1 .. Len(e.path) : found.path[k] = e.path[k]
       /\ found.path[Len(e.path) + 1] = n
  BY <1>6, <1>9, AppendProperties, LenProperties
<1>11. /\ reached \in Seq(GraphEntries) /\ frontier \in Seq(GraphEntries)
       /\ reached' \in Seq(GraphEntries) /\ frontier' \in Seq(GraphEntries)
       /\ Len(reached) \in Nat /\ Len(frontier) \in Nat
       /\ DOMAIN reached = 1 .. Len(reached) /\ DOMAIN frontier = 1 .. Len(frontier)
       /\ DOMAIN reached' = 1 .. Len(reached) + 1 /\ DOMAIN frontier' = 1 .. Len(frontier) + 1
  <2>1. reached \in Seq(GraphEntries) /\ frontier \in Seq(GraphEntries)
    BY <1>2 DEF GraphTypeOK
  <2>2. /\ reached' \in Seq(GraphEntries) /\ frontier' \in Seq(GraphEntries)
        /\ Len(reached') = Len(reached) + 1 /\ Len(frontier') = Len(frontier) + 1
    BY <1>2, <1>9, <2>1, AppendProperties
  <2> QED
    BY <2>1, <2>2, LenProperties
<1>12. /\ \A i \in DOMAIN reached : i \in DOMAIN reached' /\ reached'[i] = reached[i]
       /\ \A i \in DOMAIN reached' : \/ i \in DOMAIN reached /\ reached'[i] = reached[i]
                                     \/ i = Len(reached) + 1 /\ reached'[i] = found
       /\ Len(reached) + 1 \in DOMAIN reached' /\ reached'[Len(reached) + 1] = found
  BY <1>2, <1>9, <1>11, AppendProperties
<1>13. /\ \A i \in DOMAIN frontier : i \in DOMAIN frontier' /\ frontier'[i] = frontier[i]
       /\ \A i \in DOMAIN frontier' : \/ i \in DOMAIN frontier /\ frontier'[i] = frontier[i]
                                      \/ i = Len(frontier) + 1 /\ frontier'[i] = found
       /\ Len(frontier) + 1 \in DOMAIN frontier' /\ frontier'[Len(frontier) + 1] = found
  BY <1>2, <1>9, <1>11, AppendProperties
<1>14. GraphTypeOK'
  BY <1>2, <1>11 DEF GraphTypeOK
<1>15. Started' = Started
  <2>1. \A i \in DOMAIN reached : reached[i].key # n
    BY <1>2, <1>4 DEF FoundOnce
  <2>2. {reached'[i].key : i \in DOMAIN reached'} = {reached[i].key : i \in DOMAIN reached} \cup {n}
    BY <1>9, <1>12
  <2>3. n \notin Started
    BY <1>2 DEF Started
  <2>4. Started' = (visited \cup {n}) \ ({reached[i].key : i \in DOMAIN reached} \cup {n})
    BY <1>2, <2>2 DEF Started
  <2> QED
    BY <2>3, <2>4 DEF Started
<1>16. Within' = Within
  BY <1>2, <1>3, <1>14, <1>15, WithinStays
<1>17. \A m, d : AtDistance(m, d)' <=> (AtDistance(m, d) \/ (m = n /\ d = e.depth + 1))
  BY <1>9, <1>12, <1>15 DEF AtDistance
<1>18. \A m : Adjacent(lookup, m)' = Adjacent(lookup, m)
  BY <1>2 DEF Adjacent
<1>19. \A f : Walked(f)' <=> Walked(f)
  BY <1>2, <1>15, <1>18 DEF Walked
<1>20. Walked(found)
  <2>1. Len(e.path) = e.depth + 1 /\ e.path[1] \in Started /\ e.path[e.depth + 1] = e.key
    BY <1>7 DEF Walked
  <2>2. Len(found.path) = found.depth + 1
    BY <1>9, <1>10, <2>1
  <2>3. 1 \in 1 .. Len(e.path)
    BY <1>6, <2>1
  <2>4. found.path[1] \in Started
    BY <1>10, <2>1, <2>3
  <2>5. found.path[Len(found.path)] = found.key
    BY <1>9, <1>10
  <2>6. ASSUME NEW k \in 1 .. found.depth PROVE found.path[k + 1] \in Adjacent(lookup, found.path[k])
    <3>1. CASE k \in 1 .. e.depth
      <4>1. k \in 1 .. Len(e.path) /\ k + 1 \in 1 .. Len(e.path)
        <5>1. e.depth \in Nat /\ Len(e.path) = e.depth + 1
          BY <1>6, <2>1
        <5>2. k \in 1 .. e.depth + 1 /\ k + 1 \in 1 .. e.depth + 1
          BY <3>1, <5>1
        <5> QED
          BY <5>1, <5>2
      <4>2. found.path[k] = e.path[k] /\ found.path[k + 1] = e.path[k + 1]
        BY <1>10, <4>1
      <4>3. e.path[k + 1] \in Adjacent(lookup, e.path[k])
        BY <1>7, <3>1 DEF Walked
      <4> QED
        BY <4>2, <4>3
    <3>2. CASE k = e.depth + 1
      <4>1. k \in 1 .. Len(e.path) /\ k = Len(e.path)
        BY <1>6, <2>1, <3>2
      <4>2. found.path[k] = e.key /\ found.path[k + 1] = n
        BY <1>10, <2>1, <4>1
      <4> QED
        BY <1>2, <1>5, <4>2
    <3>3. k \in 1 .. e.depth \/ k = e.depth + 1
      BY <1>6, <1>9
    <3> QED
      BY <3>1, <3>2, <3>3
  <2> QED
    BY <2>2, <2>4, <2>5, <2>6 DEF Walked
<1>21. FoundOnce'
  <2>1. ASSUME NEW i \in DOMAIN reached'
        PROVE  reached'[i].key \in visited' /\ Walked(reached[i])' /\ reached'[i].depth \in 1 .. lookup'.depth
    <3>1. PICK f : f = reached'[i]
      OBVIOUS
    <3>2. f.key \in visited' /\ Walked(f) /\ f.depth \in 1 .. lookup.depth
      <4>1. CASE i \in DOMAIN reached /\ f = reached[i]
        BY <1>2, <1>4, <4>1 DEF FoundOnce
      <4>2. CASE f = found
        BY <1>2, <1>6, <1>7, <1>9, <1>20, <4>2
      <4> QED
        BY <1>12, <3>1, <4>1, <4>2
    <3>3. Walked(reached[i])'
      BY <1>2, <1>15, <1>18, <3>1, <3>2 DEF Walked
    <3> QED
      BY <1>2, <3>1, <3>2, <3>3
  <2>2. ASSUME NEW i \in DOMAIN reached', NEW j \in DOMAIN reached', reached'[i].key = reached'[j].key
        PROVE  i = j
    <3>1. \A k \in DOMAIN reached : reached[k].key # n
      BY <1>2, <1>4 DEF FoundOnce
    <3>2. CASE i \in DOMAIN reached /\ j \in DOMAIN reached
      BY <1>4, <1>12, <2>2, <3>2 DEF FoundOnce
    <3>3. CASE i \notin DOMAIN reached
      BY <1>9, <1>12, <2>2, <3>1, <3>3
    <3>4. CASE j \notin DOMAIN reached
      BY <1>9, <1>12, <2>2, <3>1, <3>4
    <3> QED
      BY <3>2, <3>3, <3>4
  <2> QED
    BY <2>1, <2>2 DEF FoundOnce
<1>22. Queued'
  <2>1. ASSUME NEW i \in DOMAIN frontier'
        PROVE  /\ Walked(frontier[i])' /\ AtDistance(frontier[i].key, frontier[i].depth)'
               /\ frontier'[i].depth <= lookup'.depth
               /\ e.depth <= frontier'[i].depth /\ frontier'[i].depth <= e.depth + 1
    <3>1. PICK f : f = frontier'[i]
      OBVIOUS
    <3>2. /\ Walked(f) /\ f.depth <= lookup.depth /\ e.depth <= f.depth /\ f.depth <= e.depth + 1
          /\ AtDistance(f.key, f.depth) \/ (f.key = n /\ f.depth = e.depth + 1)
      <4>1. CASE i \in DOMAIN frontier /\ f = frontier[i]
        BY <1>4, <1>7, <4>1 DEF Queued
      <4>2. CASE f = found
        BY <1>6, <1>7, <1>9, <1>20, <4>2
      <4> QED
        BY <1>13, <3>1, <4>1, <4>2
    <3>3. Walked(frontier[i])'
      BY <1>2, <1>15, <1>18, <3>1, <3>2 DEF Walked
    <3>4. AtDistance(f.key, f.depth)'
      BY <1>17, <3>2
    <3>5. AtDistance(frontier[i].key, frontier[i].depth)'
      BY <3>1, <3>4 DEF AtDistance
    <3> QED
      BY <1>2, <3>1, <3>2, <3>3, <3>5
  <2>2. \A i \in DOMAIN reached' : reached'[i].depth <= e.depth + 1
    BY <1>6, <1>7, <1>9, <1>12
  <2>3. Walked(expanding)' /\ AtDistance(expanding.key, expanding.depth)' /\ expanding'.depth < lookup'.depth
    <3>1. Walked(expanding)'
      BY <1>2, <1>5, <1>7, <1>15, <1>18 DEF Walked
    <3>2. AtDistance(e.key, e.depth)'
      BY <1>7, <1>17
    <3>3. AtDistance(expanding.key, expanding.depth)'
      BY <1>2, <1>5, <3>2 DEF AtDistance
    <3> QED
      BY <1>2, <1>5, <1>7, <3>1, <3>3
  <2>4. ASSUME NEW i \in DOMAIN frontier', NEW j \in DOMAIN frontier', i <= j
        PROVE  frontier'[i].depth <= frontier'[j].depth /\ frontier'[j].depth <= frontier'[i].depth + 1
    <3>1. frontier'[i].depth \in Nat /\ frontier'[j].depth \in Nat
      <4>1. frontier'[i] \in GraphEntries /\ frontier'[j] \in GraphEntries
        BY <1>9, <1>11, <1>13
      <4> QED
        BY <4>1 DEF GraphEntries
    <3>2. CASE i \in DOMAIN frontier /\ j \in DOMAIN frontier
      BY <1>4, <1>13, <2>4, <3>2 DEF Queued
    <3>3. CASE j \notin DOMAIN frontier
      <4>1. frontier'[j].depth = e.depth + 1
        BY <1>9, <1>13, <3>3
      <4>2. e.depth <= frontier'[i].depth /\ frontier'[i].depth <= e.depth + 1
        BY <2>1
      <4> QED
        BY <1>6, <3>1, <4>1, <4>2
    <3>4. CASE i \notin DOMAIN frontier /\ j \in DOMAIN frontier
      BY <1>11, <1>13, <2>4, <3>4
    <3> QED
      BY <3>2, <3>3, <3>4
  <2>5. ASSUME NEW i \in DOMAIN reached', NEW j \in DOMAIN frontier'
        PROVE  reached'[i].depth <= frontier'[j].depth + 1
    <3>1. reached'[i] \in GraphEntries /\ frontier'[j] \in GraphEntries
      BY <1>9, <1>11, <1>12, <1>13
    <3>2. reached'[i].depth \in Nat /\ frontier'[j].depth \in Nat
      BY <3>1 DEF GraphEntries
    <3>3. reached'[i].depth <= e.depth + 1 /\ e.depth <= frontier'[j].depth
      BY <2>1, <2>2
    <3> QED
      BY <1>6, <3>2, <3>3
  <2> QED
    BY <1>2, <1>5, <2>1, <2>2, <2>3, <2>4, <2>5 DEF Queued
<1>23. LeftBehind'
  <2>1. SUFFICES ASSUME NEW m \in GraphNodes, NEW d \in 0 .. lookup.depth - 1, AtDistance(m, d)',
                        \A i \in DOMAIN frontier' : frontier'[i].key # m,
                        e.key # m
                 PROVE  \A k \in Adjacent(lookup, m) : \E c \in 0 .. d + 1 : AtDistance(k, c)'
    BY <1>2, <1>5, <1>8, <1>18, <2>1 DEF LeftBehind
  <2>2. m # n
    BY <1>9, <1>13, <2>1
  <2>3. AtDistance(m, d)
    BY <1>17, <2>1, <2>2
  <2>4. \A i \in DOMAIN frontier : frontier[i].key # m
    BY <1>13, <2>1
  <2>5. \A k \in Adjacent(lookup, m) : \E c \in 0 .. d + 1 : AtDistance(k, c)
    BY <1>4, <1>5, <1>8, <2>1, <2>3, <2>4 DEF LeftBehind
  <2> QED
    BY <1>17, <2>5
<1>24. n \in Within[e.depth + 1] /\ n \notin Within[e.depth]
  <2>1. e.depth \in 0 .. lookup.depth - 1 /\ e.depth \in 0 .. lookup.depth
    BY <1>6, <1>7
  <2>2. e.key \in Within[e.depth]
    BY <1>4, <1>6, <1>7, <2>1 DEF Levelled
  <2>3. n \in Within[e.depth + 1]
    BY <1>2, <1>3, <1>5, <2>1, <2>2, WithinHolds
  <2>4. \A k \in 0 .. e.depth : \A m \in Within[k] : \E c \in 0 .. k : AtDistance(m, c)
    <3>1. \A i \in DOMAIN frontier : e.depth <= frontier[i].depth
      BY <1>7
    <3>2. e.depth <= expanding.depth
      BY <1>5, <1>6
    <3> QED
      BY <1>2, <1>3, <1>4, <1>8, <2>1, <3>1, <3>2, FoundWithin
  <2>5. ASSUME n \in Within[e.depth] PROVE FALSE
    <3>1. e.depth \in 0 .. e.depth
      BY <1>6
    <3>2. PICK c : AtDistance(n, c)
      BY <2>4, <2>5, <3>1
    <3> QED
      BY <1>2, <1>4, <3>2, FoundIsVisited
  <2> QED
    BY <2>3, <2>5
<1>25. Levelled'
  <2>1. SUFFICES ASSUME NEW m \in GraphNodes, NEW d \in 0 .. lookup.depth, AtDistance(m, d)'
                 PROVE  m \in Within[d] /\ (d # 0 => m \notin Within[d - 1])
    BY <1>2, <1>16, <2>1 DEF Levelled
  <2>2. CASE AtDistance(m, d)
    BY <1>4, <2>2 DEF Levelled
  <2>3. CASE m = n /\ d = e.depth + 1
    <3>1. d - 1 = e.depth
      BY <1>6, <2>3
    <3> QED
      BY <1>24, <2>3, <3>1
  <2> QED
    BY <1>17, <2>1, <2>2, <2>3
<1>26. Truncation'
  BY <1>2, <1>4, <1>8 DEF Truncation
<1> QED
  BY <1>2, <1>3, <1>14, <1>21, <1>22, <1>23, <1>25, <1>26 DEF GraphInv

LEMMA GraphStays ==
  ASSUME GraphInv, UNCHANGED graphVars
  PROVE  GraphInv'
<1>1. UNCHANGED <<manifest, lookup, visited, frontier, expanding, reached, truncated>>
  BY DEF graphVars
<1>2. GraphTypeOK'
  BY <1>1 DEF GraphInv, GraphTypeOK
<1>3. CASE lookup = NoLookup
  BY <1>1, <1>2, <1>3 DEF GraphInv, NotAsked
<1>4. CASE lookup # NoLookup
  <2>1. /\ Started' = Started /\ Within' = Within /\ \A n, d : AtDistance(n, d)' <=> AtDistance(n, d)
        /\ FoundOnce' /\ Levelled' /\ Truncation'
    BY <1>1, <1>2, <1>4, SameFindings
  <2>2. Queued /\ LeftBehind
    BY <1>4 DEF GraphInv
  <2>3. Queued'
    BY <1>1, <2>1, <2>2 DEF Queued, Walked, AtDistance, Adjacent
  <2>4. \A n : Adjacent(lookup, n)' = Adjacent(lookup, n)
    BY <1>1 DEF Adjacent
  <2>5. LeftBehind'
    BY <1>1, <2>1, <2>2, <2>4 DEF LeftBehind
  <2> QED
    BY <1>1, <1>2, <1>4, <2>1, <2>3, <2>5 DEF GraphInv
<1> QED
  BY <1>3, <1>4

LEMMA GraphInvariant == GraphSpec => []GraphInv
<1>1. GraphInv /\ [GraphNext]_graphVars => GraphInv'
  BY AskKeeps, DequeueKeeps, VisitKeeps, StopKeeps, LeaveKeeps, GraphStays DEF GraphNext
<1> QED
  BY <1>1, GraphStarts, PTL DEF GraphSpec

\* A traversal keeps to nodes and edges of the manifest it reads (traverseLocalGraph).
THEOREM GraphTypesOK == GraphSpec => []GraphTypeOK
<1>1. GraphInv => GraphTypeOK
  BY DEF GraphInv
<1> QED
  BY <1>1, GraphInvariant, PTL

\* What callersByFile holds after the first k nodes: of each file but the one that is
\* asked about, how near the nearest of its nodes is.
Nearest(rows, excluded, k) ==
  /\ \A c \in rows :
       /\ c.file # excluded
       /\ \E i \in 1 .. k : FileOfNode(reached[i].key) = c.file /\ reached[i].depth = c.depth
       /\ \A i \in 1 .. k : FileOfNode(reached[i].key) = c.file => c.depth <= reached[i].depth
  /\ \A i \in 1 .. k : FileOfNode(reached[i].key) # excluded =>
       \E c \in rows : c.file = FileOfNode(reached[i].key)

LEMMA NearestOfNone == ASSUME NEW f PROVE Nearest({}, f, 0)
BY DEF Nearest

Rows == SUBSET [file : GraphFiles, depth : Nat]

Counted(rows, node, excluded) ==
  LET file == FileOfNode(node.key)
  IN  IF file = excluded \/ \E c \in rows : c.file = file /\ c.depth <= node.depth
        THEN rows
        ELSE {c \in rows : c.file # file} \cup {[file |-> file, depth |-> node.depth]}

LEMMA CountedRows ==
  ASSUME NEW rows \in Rows, NEW node \in GraphEntries, NEW excluded
  PROVE  Counted(rows, node, excluded) \in Rows
<1>1. FileOfNode(node.key) \in GraphFiles /\ node.depth \in Nat
  BY GraphShape DEF FileOfNode, GraphEntries, GraphNodes
<1>2. [file |-> FileOfNode(node.key), depth |-> node.depth] \in [file : GraphFiles, depth : Nat]
  BY <1>1
<1> QED
  BY <1>2 DEF Counted, Rows

LEMMA CountedIsNearest ==
  ASSUME GraphTypeOK, NEW rows \in Rows, NEW excluded, NEW k \in 0 .. Len(reached) - 1,
         Nearest(rows, excluded, k)
  PROVE  Nearest(Counted(rows, reached[k + 1], excluded), excluded, k + 1)
<1>1. Len(reached) \in Nat /\ \A i \in 1 .. Len(reached) : reached[i].depth \in Nat
  <2>1. reached \in Seq(GraphEntries)
    BY DEF GraphTypeOK
  <2>2. Len(reached) \in Nat /\ \A i \in 1 .. Len(reached) : reached[i] \in GraphEntries
    BY <2>1, LenProperties, ElementOfSeq
  <2> QED
    BY <2>2 DEF GraphEntries
<1>2. PICK node : node = reached[k + 1]
  OBVIOUS
<1>3. PICK file : file = FileOfNode(node.key)
  OBVIOUS
<1>4. node.depth \in Nat /\ k + 1 \in 1 .. k + 1 /\ \A i \in 1 .. k : i \in 1 .. k + 1 /\ i \in 1 .. Len(reached)
  BY <1>1, <1>2
<1>5. \A i \in 1 .. k + 1 : i \in 1 .. k \/ i = k + 1
  BY <1>1
<1>6. \A c \in rows : c.depth \in Nat
  BY DEF Rows
<1>7. CASE file = excluded
  <2>1. Counted(rows, node, excluded) = rows
    BY <1>3, <1>7 DEF Counted
  <2>2. Nearest(rows, excluded, k + 1)
    BY <1>2, <1>3, <1>4, <1>5, <1>7 DEF Nearest
  <2> QED
    BY <1>2, <2>1, <2>2
<1>8. CASE file # excluded /\ \E c \in rows : c.file = file /\ c.depth <= node.depth
  <2>1. Counted(rows, node, excluded) = rows
    BY <1>3, <1>8 DEF Counted
  <2>2. PICK b \in rows : b.file = file /\ b.depth <= node.depth
    BY <1>8
  <2>3. ASSUME NEW c \in rows, c.file = file PROVE c.depth <= node.depth
    <3>1. PICK i \in 1 .. k : FileOfNode(reached[i].key) = file /\ reached[i].depth = b.depth
      BY <2>2 DEF Nearest
    <3>2. c.depth <= b.depth
      BY <2>3, <3>1 DEF Nearest
    <3> QED
      BY <1>4, <1>6, <2>2, <3>2
  <2>4. ASSUME NEW c \in rows
        PROVE  /\ c.file # excluded
               /\ \E i \in 1 .. k + 1 : FileOfNode(reached[i].key) = c.file /\ reached[i].depth = c.depth
               /\ \A i \in 1 .. k + 1 : FileOfNode(reached[i].key) = c.file => c.depth <= reached[i].depth
    <3>1. c.file # excluded
      BY DEF Nearest
    <3>2. PICK i \in 1 .. k : FileOfNode(reached[i].key) = c.file /\ reached[i].depth = c.depth
      BY DEF Nearest
    <3>3. i \in 1 .. k + 1
      BY <1>4
    <3>4. \A j \in 1 .. k : FileOfNode(reached[j].key) = c.file => c.depth <= reached[j].depth
      BY DEF Nearest
    <3>5. \A j \in 1 .. k + 1 : FileOfNode(reached[j].key) = c.file => c.depth <= reached[j].depth
      BY <1>2, <1>3, <1>5, <2>3, <3>4
    <3> QED
      BY <3>1, <3>2, <3>3, <3>5
  <2>5. \A i \in 1 .. k + 1 : FileOfNode(reached[i].key) # excluded =>
          \E c \in rows : c.file = FileOfNode(reached[i].key)
    BY <1>2, <1>3, <1>5, <2>2 DEF Nearest
  <2> QED
    BY <1>2, <2>1, <2>4, <2>5 DEF Nearest
<1>9. CASE file # excluded /\ ~\E c \in rows : c.file = file /\ c.depth <= node.depth
  <2>1. PICK new : new = [file |-> file, depth |-> node.depth]
    OBVIOUS
  <2>2. PICK more : more = {c \in rows : c.file # file} \cup {new}
    OBVIOUS
  <2>3. Counted(rows, node, excluded) = more
    BY <1>3, <1>9, <2>1, <2>2 DEF Counted
  <2>4. new.file = file /\ new.depth = node.depth
    BY <2>1
  <2>5. ASSUME NEW i \in 1 .. k, FileOfNode(reached[i].key) = file PROVE node.depth <= reached[i].depth
    <3>1. PICK b \in rows : b.file = file
      BY <1>9, <2>5 DEF Nearest
    <3>2. b.depth <= reached[i].depth
      BY <2>5, <3>1 DEF Nearest
    <3>3. ~(b.depth <= node.depth)
      BY <1>9, <3>1
    <3> QED
      BY <1>1, <1>4, <1>6, <3>2, <3>3
  <2>6. ASSUME NEW c \in more
        PROVE  /\ c.file # excluded
               /\ \E i \in 1 .. k + 1 : FileOfNode(reached[i].key) = c.file /\ reached[i].depth = c.depth
               /\ \A i \in 1 .. k + 1 : FileOfNode(reached[i].key) = c.file => c.depth <= reached[i].depth
    <3>1. CASE c = new
      <4>1. \A i \in 1 .. k + 1 : FileOfNode(reached[i].key) = file => node.depth <= reached[i].depth
        BY <1>2, <1>4, <1>5, <2>5
      <4>2. FileOfNode(reached[k + 1].key) = file /\ reached[k + 1].depth = node.depth
        BY <1>2, <1>3
      <4> QED
        BY <1>4, <1>9, <2>4, <3>1, <4>1, <4>2
    <3>2. CASE c \in rows /\ c.file # file
      <4>1. c.file # excluded
        BY <3>2 DEF Nearest
      <4>2. PICK i \in 1 .. k : FileOfNode(reached[i].key) = c.file /\ reached[i].depth = c.depth
        BY <3>2 DEF Nearest
      <4>3. \A j \in 1 .. k : FileOfNode(reached[j].key) = c.file => c.depth <= reached[j].depth
        BY <3>2 DEF Nearest
      <4>4. \A j \in 1 .. k + 1 : FileOfNode(reached[j].key) = c.file => c.depth <= reached[j].depth
        BY <1>2, <1>3, <1>5, <3>2, <4>3
      <4> QED
        BY <1>4, <4>1, <4>2, <4>4
    <3> QED
      BY <2>2, <3>1, <3>2
  <2>7. ASSUME NEW i \in 1 .. k + 1, FileOfNode(reached[i].key) # excluded
        PROVE  \E c \in more : c.file = FileOfNode(reached[i].key)
    <3>1. CASE FileOfNode(reached[i].key) = file
      BY <2>2, <2>4, <3>1
    <3>2. CASE FileOfNode(reached[i].key) # file
      <4>1. i \in 1 .. k
        BY <1>2, <1>3, <1>5, <3>2
      <4>2. PICK c \in rows : c.file = FileOfNode(reached[i].key)
        BY <2>7, <4>1 DEF Nearest
      <4>3. c \in more
        BY <2>2, <3>2, <4>2
      <4> QED
        BY <4>2, <4>3
    <3> QED
      BY <3>1, <3>2
  <2>8. Nearest(more, excluded, k + 1)
    BY <2>6, <2>7 DEF Nearest
  <2> QED
    BY <1>2, <2>3, <2>8
<1> QED
  BY <1>7, <1>8, <1>9

LEMMA CallersAreNearest ==
  ASSUME GraphTypeOK, NEW f
  PROVE  CallerDepths(f) \in Rows /\ Nearest(CallerDepths(f), f, Len(reached))
<1>1. Len(reached) \in Nat /\ \A i \in 1 .. Len(reached) : reached[i] \in GraphEntries
  <2>1. reached \in Seq(GraphEntries)
    BY DEF GraphTypeOK
  <2> QED
    BY <2>1, LenProperties, ElementOfSeq
<1> DEFINE Step(h) == [k \in 0 .. Len(reached) |-> IF k = 0 THEN {} ELSE Counted(h[k - 1], reached[k], f)]
<1>2. PICK G : G = [k \in Nat |-> [rows \in Rows |-> IF k \in 1 .. Len(reached)
                                                        THEN Counted(rows, reached[k], f) ELSE rows]]
  OBVIOUS
<1>3. G \in [Nat -> [Rows -> Rows]]
  <2>1. ASSUME NEW k \in Nat
        PROVE  [rows \in Rows |-> IF k \in 1 .. Len(reached) THEN Counted(rows, reached[k], f) ELSE rows]
                 \in [Rows -> Rows]
    BY <1>1, CountedRows
  <2> QED
    BY <1>2, <2>1
<1>4. {} \in Rows
  BY DEF Rows
<1>5. PICK h : Iterates(h, Rows, {}, G, Len(reached))
  BY <1>1, <1>3, <1>4, Iterated
<1>6. /\ h \in [0 .. Len(reached) -> Rows] /\ h[0] = {}
      /\ \A k \in 1 .. Len(reached) : h[k] = G[k][h[k - 1]]
  BY <1>5 DEF Iterates
<1>7. h = Step(h)
  <2>1. ASSUME NEW k \in 0 .. Len(reached)
        PROVE  h[k] = IF k = 0 THEN {} ELSE Counted(h[k - 1], reached[k], f)
    <3>1. CASE k = 0
      BY <1>6, <3>1
    <3>2. CASE k # 0
      <4>1. k \in 1 .. Len(reached) /\ k - 1 \in 0 .. Len(reached) /\ k \in Nat
        BY <1>1, <3>2
      <4>2. h[k - 1] \in Rows
        BY <1>6, <4>1
      <4>3. G[k] = [rows \in Rows |-> IF k \in 1 .. Len(reached) THEN Counted(rows, reached[k], f) ELSE rows]
        BY <1>2, <4>1
      <4>4. G[k][h[k - 1]] = Counted(h[k - 1], reached[k], f)
        BY <4>1, <4>2, <4>3
      <4> QED
        BY <1>6, <3>2, <4>1, <4>4
    <3> QED
      BY <3>1, <3>2
  <2> QED
    BY <1>6, <2>1
<1>8. CallersByFile(f) = CHOOSE g : g = Step(g)
  BY DEF CallersByFile, Counted
<1>9. PICK rows : rows = CallersByFile(f)
  OBVIOUS
<1>10. rows = Step(rows)
  <2> HIDE DEF Step
  <2> QED
    BY <1>7, <1>8, <1>9
<1>11. \A k \in 0 .. Len(reached) : rows[k] = IF k = 0 THEN {} ELSE Counted(rows[k - 1], reached[k], f)
  BY <1>10
<1>12. PICK T : T = {k \in Nat : rows[k] \in Rows /\ Nearest(rows[k], f, k)}
  OBVIOUS
<1>13. 0 \in T
  <2>1. rows[0] = {}
    BY <1>1, <1>11
  <2> QED
    BY <1>4, <1>12, <2>1, NearestOfNone
<1>14. ASSUME NEW k \in 0 .. Len(reached) - 1, k \in T PROVE k + 1 \in T
  <2>1. k \in Nat /\ k + 1 \in Nat /\ k + 1 \in 0 .. Len(reached) /\ k + 1 \in 1 .. Len(reached)
        /\ k + 1 # 0 /\ (k + 1) - 1 = k
    BY <1>1
  <2>2. rows[k] \in Rows /\ Nearest(rows[k], f, k)
    BY <1>12, <1>14
  <2>3. rows[k + 1] = Counted(rows[(k + 1) - 1], reached[k + 1], f)
    BY <1>11, <2>1
  <2>4. rows[k + 1] = Counted(rows[k], reached[k + 1], f)
    BY <2>1, <2>3
  <2>5. rows[k + 1] \in Rows
    BY <1>1, <2>1, <2>2, <2>4, CountedRows
  <2>6. Nearest(rows[k + 1], f, k + 1)
    BY <2>2, <2>4, CountedIsNearest
  <2> QED
    BY <1>12, <2>1, <2>5, <2>6
<1>15. 0 .. Len(reached) \subseteq T
  BY <1>1, <1>13, <1>14, InductionOn
<1>16. Len(reached) \in T
  BY <1>1, <1>15
<1> QED
  BY <1>9, <1>12, <1>16 DEF CallerDepths

LEMMA InvAnswers == GraphInv => AnswersAreComplete
<1> SUFFICES ASSUME GraphInv, Answered PROVE
    /\ truncated <=> ~(lookup.seeds \cup Within[lookup.depth] \subseteq visited)
    /\ visited \subseteq Within[lookup.depth]
    /\ \A i, j \in DOMAIN reached : reached[i].key = reached[j].key => i = j
    /\ \A i \in DOMAIN reached :
         LET node == reached[i]
         IN  /\ node.key \in Within[node.depth] \ Within[node.depth - 1]
             /\ Len(node.path) = node.depth + 1
             /\ node.path[1] \in Within[0] /\ node.path[Len(node.path)] = node.key
             /\ \A k \in 1 .. node.depth : node.path[k + 1] \in Adjacent(lookup, node.path[k])
    /\ \A f \in GraphFiles : \A c \in CallerDepths(f) :
         c.depth = CHOOSE d \in 1 .. lookup.depth :
           /\ \E i \in DOMAIN reached : FileOfNode(reached[i].key) = c.file /\ reached[i].depth = d
           /\ \A i \in DOMAIN reached : FileOfNode(reached[i].key) = c.file => reached[i].depth >= d
  BY DEF AnswersAreComplete
<1>1. lookup # NoLookup /\ frontier = <<>> /\ expanding = NoLookup
  BY DEF Answered
<1>2. GraphTypeOK /\ FoundOnce /\ Queued /\ LeftBehind /\ Levelled /\ Truncation
  BY <1>1 DEF GraphInv
<1>3. lookup.depth \in Nat \ {0} /\ Within[0] = Started
  BY <1>1, <1>2, WithinHolds
<1>4. reached \in Seq(GraphEntries) /\ DOMAIN reached = 1 .. Len(reached) /\ Len(reached) \in Nat
  BY <1>2, LenProperties DEF GraphTypeOK
<1>5. \A i \in DOMAIN reached : reached[i] \in GraphEntries /\ reached[i].key \in GraphNodes
                                /\ reached[i].depth \in 1 .. lookup.depth
  <2>1. \A i \in DOMAIN reached : reached[i] \in GraphEntries
    BY <1>4, ElementOfSeq
  <2>2. \A i \in DOMAIN reached : reached[i].key \in GraphNodes
    BY <2>1 DEF GraphEntries
  <2> QED
    BY <1>2, <2>1, <2>2 DEF FoundOnce
<1>6. visited \subseteq Within[lookup.depth]
  <2>1. ASSUME NEW m \in visited PROVE m \in Within[lookup.depth]
    <3>1. PICK d \in 0 .. lookup.depth : AtDistance(m, d)
      BY <1>1, <1>2, VisitedIsFound
    <3>2. m \in GraphNodes
      BY <1>2 DEF GraphTypeOK
    <3>3. m \in Within[d]
      BY <1>2, <3>1, <3>2 DEF Levelled
    <3>4. lookup.depth \in 0 .. lookup.depth
      BY <1>3
    <3>5. Within[d] \subseteq Within[lookup.depth]
      BY <1>1, <1>2, <3>1, <3>4, WithinGrows
    <3> QED
      BY <3>3, <3>5
  <2> QED
    BY <2>1
<1>7. truncated <=> ~(lookup.seeds \cup Within[lookup.depth] \subseteq visited)
  <2>1. CASE truncated
    BY <1>2, <2>1 DEF Truncation
  <2>2. CASE ~truncated
    <3>1. lookup.seeds \subseteq visited
      BY <1>2, <2>2 DEF Truncation
    <3>2. \A k \in 0 .. lookup.depth : \A m \in Within[k] : \E c \in 0 .. k : AtDistance(m, c)
      <4>1. DOMAIN frontier = {}
        BY <1>1
      <4>2. lookup.depth \in 0 .. lookup.depth
        BY <1>3
      <4> QED
        BY <1>1, <1>2, <2>2, <4>1, <4>2, FoundWithin
    <3>3. ASSUME NEW m \in Within[lookup.depth] PROVE m \in visited
      <4>1. lookup.depth \in 0 .. lookup.depth
        BY <1>3
      <4>2. PICK c : AtDistance(m, c)
        BY <3>2, <4>1
      <4> QED
        BY <1>2, <4>2, FoundIsVisited
    <3> QED
      BY <2>2, <3>1, <3>3
  <2> QED
    BY <2>1, <2>2
<1>8. \A i, j \in DOMAIN reached : reached[i].key = reached[j].key => i = j
  BY <1>2 DEF FoundOnce
<1>9. ASSUME NEW i \in DOMAIN reached
      PROVE  /\ reached[i].key \in Within[reached[i].depth] \ Within[reached[i].depth - 1]
             /\ Len(reached[i].path) = reached[i].depth + 1
             /\ reached[i].path[1] \in Within[0] /\ reached[i].path[Len(reached[i].path)] = reached[i].key
             /\ \A k \in 1 .. reached[i].depth :
                  reached[i].path[k + 1] \in Adjacent(lookup, reached[i].path[k])
  <2>1. AtDistance(reached[i].key, reached[i].depth)
    BY DEF AtDistance
  <2>2. reached[i].key \in GraphNodes /\ reached[i].depth \in 0 .. lookup.depth /\ reached[i].depth # 0
    BY <1>3, <1>5
  <2>3. reached[i].key \in Within[reached[i].depth] /\ reached[i].key \notin Within[reached[i].depth - 1]
    BY <1>2, <2>1, <2>2 DEF Levelled
  <2>4. Walked(reached[i])
    BY <1>2 DEF FoundOnce
  <2> QED
    BY <1>3, <2>3, <2>4 DEF Walked
<1>10. ASSUME NEW f \in GraphFiles, NEW c \in CallerDepths(f)
       PROVE  c.depth = CHOOSE d \in 1 .. lookup.depth :
           /\ \E i \in DOMAIN reached : FileOfNode(reached[i].key) = c.file /\ reached[i].depth = d
           /\ \A i \in DOMAIN reached : FileOfNode(reached[i].key) = c.file => reached[i].depth >= d
  <2>1. CallerDepths(f) \in Rows /\ Nearest(CallerDepths(f), f, Len(reached))
    BY <1>2, CallersAreNearest
  <2>2. PICK i \in DOMAIN reached : FileOfNode(reached[i].key) = c.file /\ reached[i].depth = c.depth
    BY <1>4, <2>1 DEF Nearest
  <2>3. \A j \in DOMAIN reached : FileOfNode(reached[j].key) = c.file => c.depth <= reached[j].depth
    BY <1>4, <2>1 DEF Nearest
  <2>4. c.depth \in 1 .. lookup.depth
    BY <1>5, <2>2
  <2> DEFINE IsNearest(d) ==
        /\ \E j \in DOMAIN reached : FileOfNode(reached[j].key) = c.file /\ reached[j].depth = d
        /\ \A j \in DOMAIN reached : FileOfNode(reached[j].key) = c.file => reached[j].depth >= d
  <2>5. IsNearest(c.depth)
    BY <1>3, <1>5, <2>2, <2>3, <2>4
  <2>6. ASSUME NEW d \in 1 .. lookup.depth, IsNearest(d) PROVE d = c.depth
    <3>1. PICK j \in DOMAIN reached : FileOfNode(reached[j].key) = c.file /\ reached[j].depth = d
      BY <2>6
    <3>2. c.depth <= d
      BY <2>3, <3>1
    <3>3. d <= c.depth
      BY <2>2, <2>4, <2>6
    <3> QED
      BY <2>4, <3>2, <3>3
  <2>7. c.depth = CHOOSE d \in 1 .. lookup.depth : IsNearest(d)
    <3> HIDE DEF IsNearest
    <3> QED
      BY <2>4, <2>5, <2>6
  <2> QED
    BY <2>7
<1> QED
  BY <1>6, <1>7, <1>8, <1>9, <1>10

\* callers, neighbors, shortest-path and impact list, of any manifest, whatever is
\* within the depth, once, at its distance and by a shortest path, and say so when
\* the node limit made them leave something out (traverseLocalGraph and
\* callersByFile).
THEOREM CompleteAnswers == GraphSpec => []AnswersAreComplete
BY InvAnswers, GraphInvariant, PTL

-----------------------------------------------------------------------------
(***************************************************************************)
(* The overlay.                                                            *)
(***************************************************************************)
\* What a build from nothing makes of a tree.
Overlays == {FromNothing(t) : t \in Trees}

\* What a hook and a question carry, by their step.
HookStates ==
  [step : {"started", "ended"}, built : {Unreadable}]
    \cup [step : {"built", "checked", "writing"}, built : Overlays]

QueryStages ==
  [step : {"idle"}, built : {Unreadable}, answer : {Unreadable}, alone : BOOLEAN]
    \cup [step : {"built", "writing", "written"}, built : Overlays, answer : {Unreadable},
          alone : BOOLEAN]
    \cup [step : {"answered"}, built : Overlays, answer : Overlays, alone : BOOLEAN]

OverlayInv ==
  /\ worktree \in Trees
  /\ commits \in Seq(Trees) /\ Len(commits) \in Nat \ {0}
  /\ syncs \in Seq(HookStates) /\ Len(syncs) = Len(commits)
  /\ overlay \in Overlays \cup {Unreadable}
  /\ query \in QueryStages
  /\ query.step = "written" /\ query.alone => overlay = query.built
  /\ query.step = "answered" /\ query.alone => query.answer = query.built

LEMMA TreesAre ==
  ASSUME NEW t \in Trees
  PROVE  /\ t = [f \in DOMAIN t |-> t[f]] /\ DOMAIN t \subseteq CodeFiles
         /\ \A f \in DOMAIN t : t[f] \in FileForms[f]
BY DEF Trees

LEMMA OverlaysAre ==
  /\ \A o \in Overlays : o.of \in Trees /\ o = FromNothing(o.of)
  /\ \A o \in Overlays : o # Unreadable
  /\ \A t \in Trees : FromNothing(t) \in Overlays
<1>1. \A t \in Trees : FromNothing(t).of = t
  BY DEF FromNothing
<1>2. \A o \in Overlays : \E t \in Trees : o = FromNothing(t)
  BY DEF Overlays
<1>3. \A t \in Trees : FromNothing(t) \in Overlays
  BY DEF Overlays
<1> QED
  BY <1>1, <1>2, <1>3, OverlaysAreReadable

\* Edges that a build from nothing finds to be contained in a file: the members of
\* its classes, and its symbols.
Contained(f, content) ==
  Extracted(f, content) \cup {Edge(FileKey(f), <<f, s>>, "CONTAINS") : s \in content.defines}

LEMMA OthersAreNotContained ==
  ASSUME NEW t \in Trees
  PROVE  \A e \in Imported(t) \cup Used(t) : e.kind # "CONTAINS"
<1>1. ASSUME NEW e \in Imported(t) PROVE e.kind # "CONTAINS"
  <2>1. PICK f \in DOMAIN t : e \in {Edge(FileKey(f), FileKey(i.file), "IMPORTS") :
                                      i \in {x \in t[f].imports : x.file \in DOMAIN t}}
    BY DEF Imported
  <2>2. PICK i : e = Edge(FileKey(f), FileKey(i.file), "IMPORTS")
    BY <2>1
  <2> QED
    BY <2>2 DEF Edge
<1>2. ASSUME NEW e \in Used(t) PROVE e.kind # "CONTAINS"
  <2>1. PICK f \in DOMAIN t :
          e \in UNION {{Edge(<<f, u.from>>, to, u.kind) : to \in Targets(t, f, u)} : u \in t[f].uses}
    BY DEF Used
  <2>2. PICK u \in t[f].uses : e \in {Edge(<<f, u.from>>, to, u.kind) : to \in Targets(t, f, u)}
    BY <2>1
  <2>3. PICK to : e = Edge(<<f, u.from>>, to, u.kind)
    BY <2>2
  <2>4. f \in CodeFiles /\ t[f] \in FileForms[f]
    BY TreesAre
  <2>5. u.kind # "CONTAINS"
    BY <2>4, OverlayShape
  <2> QED
    BY <2>3, <2>5 DEF Edge
<1> QED
  BY <1>1, <1>2

\* What is taken over of a file is what a build finds contained in it.
LEMMA ReusedIsContained ==
  ASSUME overlay \in Overlays, NEW f \in DOMAIN overlay.of
  PROVE  Reused(f) = Contained(f, overlay.of[f])
<1>1. PICK t \in Trees : t = overlay.of
  BY OverlaysAre
<1>2. PICK E : E = UNION {Extracted(g, t[g]) : g \in DOMAIN t}
  OBVIOUS
<1>3. overlay.edges = E \cup Declared(t) \cup Imported(t) \cup Used(t)
  <2>1. overlay = FromNothing(t)
    BY <1>1, OverlaysAre
  <2>2. overlay.edges = Resolved(t, E)
    BY <1>2, <2>1 DEF FromNothing
  <2> QED
    BY <2>2 DEF Resolved
<1>4. ASSUME NEW e \in Reused(f) PROVE e \in Contained(f, t[f])
  <2>1. e \in overlay.edges /\ FileOfKey(e.from) = f /\ e.kind = "CONTAINS"
    BY DEF Reused
  <2>2. e \in E \/ e \in Declared(t)
    BY <1>3, <2>1, OthersAreNotContained
  <2>3. CASE e \in E
    <3>1. PICK g \in DOMAIN t : e \in Extracted(g, t[g])
      BY <1>2, <2>3
    <3>2. FileOfKey(e.from) = g
      BY <3>1 DEF Extracted, Edge, FileOfKey
    <3> QED
      BY <2>1, <3>1, <3>2 DEF Contained
  <2>4. CASE e \in Declared(t)
    <3>1. PICK g \in DOMAIN t : e \in {Edge(FileKey(g), <<g, s>>, "CONTAINS") : s \in t[g].defines}
      BY <2>4 DEF Declared
    <3>2. PICK s \in t[g].defines : e = Edge(FileKey(g), <<g, s>>, "CONTAINS")
      BY <3>1
    <3>3. FileOfKey(e.from) = g
      BY <3>2 DEF Edge, FileOfKey, FileKey
    <3> QED
      BY <2>1, <3>1, <3>3 DEF Contained
  <2> QED
    BY <2>2, <2>3, <2>4
<1>5. ASSUME NEW e \in Contained(f, t[f]) PROVE e \in Reused(f)
  <2>1. CASE e \in Extracted(f, t[f])
    <3>1. e \in overlay.edges
      BY <1>1, <1>2, <1>3, <2>1
    <3>2. FileOfKey(e.from) = f /\ e.kind = "CONTAINS"
      BY <2>1 DEF Extracted, Edge, FileOfKey
    <3> QED
      BY <3>1, <3>2 DEF Reused
  <2>2. CASE e \in {Edge(FileKey(f), <<f, s>>, "CONTAINS") : s \in t[f].defines}
    <3>3. PICK s \in t[f].defines : e = Edge(FileKey(f), <<f, s>>, "CONTAINS")
      BY <2>2
    <3>4. e \in Declared(t)
      BY <1>1, <2>2 DEF Declared
    <3>1. e \in overlay.edges
      BY <1>3, <3>4
    <3>2. FileOfKey(e.from) = f /\ e.kind = "CONTAINS"
      BY <3>3 DEF FileKey, Edge, FileOfKey
    <3> QED
      BY <3>1, <3>2 DEF Reused
  <2> QED
    BY <2>1, <2>2 DEF Contained
<1> QED
  BY <1>1, <1>4, <1>5

\* Whatever is taken over, a build makes of a tree what a build from nothing does.
LEMMA BuiltIsFresh ==
  ASSUME overlay \in Overlays \cup {Unreadable}, NEW t \in Trees
  PROVE  Built(t) = FromNothing(t) /\ Built(t) \in Overlays
<1>1. PICK E : E = UNION {Extracted(f, t[f]) : f \in DOMAIN t}
  OBVIOUS
<1>2. PICK B : B = UNION {IF Reusable(t, f) THEN Reused(f) ELSE Extracted(f, t[f]) : f \in DOMAIN t}
  OBVIOUS
<1>3. [f \in DOMAIN t |-> Indexed(t, f)] = t
  <2>1. \A f \in DOMAIN t : Indexed(t, f) = t[f]
    BY DEF Indexed, Reusable
  <2> QED
    BY <2>1, TreesAre
<1>4. \A f \in DOMAIN t : Reusable(t, f) => Reused(f) = Contained(f, t[f])
  BY ReusedIsContained DEF Reusable
<1>5. E \subseteq B
  BY <1>1, <1>2, <1>4 DEF Contained
<1>6. B \subseteq E \cup Declared(t)
  <2>1. ASSUME NEW f \in DOMAIN t, NEW e \in Contained(f, t[f])
        PROVE  e \in E \cup Declared(t)
    BY <1>1 DEF Contained, Declared
  <2>2. ASSUME NEW f \in DOMAIN t, NEW e \in Extracted(f, t[f])
        PROVE  e \in E
    BY <1>1
  <2>3. ASSUME NEW e \in B PROVE e \in E \cup Declared(t)
    <3>1. PICK f \in DOMAIN t : e \in IF Reusable(t, f) THEN Reused(f) ELSE Extracted(f, t[f])
      BY <1>2
    <3> QED
      BY <1>4, <2>1, <2>2, <3>1
  <2> QED
    BY <2>3
<1>7. Resolved(t, B) = Resolved(t, E)
  BY <1>5, <1>6 DEF Resolved
<1>8. Built(t) = FromNothing(t)
  BY <1>1, <1>2, <1>3, <1>7 DEF Built, FromNothing
<1> QED
  BY <1>8, OverlaysAre

LEMMA HooksAre ==
  ASSUME NEW o \in Overlays
  PROVE  /\ \A k \in {"built", "checked", "writing"} : [step |-> k, built |-> o] \in HookStates
         /\ [step |-> "ended", built |-> Unreadable] \in HookStates
         /\ [step |-> "started", built |-> Unreadable] \in HookStates
BY DEF HookStates

\* A hook goes on.
LEMMA HookMoves ==
  ASSUME OverlayInv, NEW i \in DOMAIN syncs, NEW h \in HookStates, syncs' = [syncs EXCEPT ![i] = h]
  PROVE  syncs' \in Seq(HookStates) /\ Len(syncs') = Len(syncs)
BY ExceptSeq DEF OverlayInv

LEMMA OverlayBegins == OverlayInit => OverlayInv
<1> SUFFICES ASSUME OverlayInit PROVE OverlayInv
  OBVIOUS
<1>1. worktree \in Trees /\ commits = <<worktree>>
  BY OverlayShape DEF OverlayInit
<1>2. PICK h \in HookStates : h = [step |-> "started", built |-> Unreadable]
  BY DEF HookStates
<1>3. syncs = <<h>>
  BY <1>2 DEF OverlayInit
<1>4. query \in QueryStages /\ query.step = "idle"
  BY DEF OverlayInit, NoQuestion, QueryStages
<1> QED
  BY <1>1, <1>3, <1>4 DEF OverlayInit, OverlayInv

LEMMA TreesChange ==
  ASSUME OverlayInv, (\E f \in CodeFiles : EditWorktree(f)) \/ Commit
  PROVE  OverlayInv'
<1>1. ASSUME NEW f \in CodeFiles, EditWorktree(f) PROVE OverlayInv'
  <2>1. UNCHANGED <<commits, overlay, syncs, query>>
    BY <1>1 DEF EditWorktree
  <2>2. worktree' \in Trees
    <3> DEFINE All == UNION {FileForms[g] : g \in CodeFiles}
    <3>1. /\ worktree \in [DOMAIN worktree -> All] /\ DOMAIN worktree \subseteq CodeFiles
          /\ \A g \in DOMAIN worktree : worktree[g] \in FileForms[g]
      BY DEF OverlayInv, Trees
    <3>2. CASE \E content \in FileForms[f] :
                 worktree' = [g \in DOMAIN worktree \cup {f} |-> IF g = f THEN content ELSE worktree[g]]
      <4>1. PICK content \in FileForms[f] :
              worktree' = [g \in DOMAIN worktree \cup {f} |-> IF g = f THEN content ELSE worktree[g]]
        BY <3>2
      <4>2. content \in All
        OBVIOUS
      <4>3. worktree' \in [DOMAIN worktree \cup {f} -> All]
        BY <3>1, <4>1, <4>2
      <4> QED
        BY <3>1, <4>1, <4>3 DEF Trees
    <3>3. CASE worktree' = [g \in DOMAIN worktree \ {f} |-> worktree[g]]
      <4>1. worktree' \in [DOMAIN worktree \ {f} -> All]
        BY <3>1, <3>3
      <4> QED
        BY <3>1, <3>3, <4>1 DEF Trees
    <3> QED
      BY <1>1, <3>2, <3>3 DEF EditWorktree
  <2> QED
    BY <2>1, <2>2 DEF OverlayInv
<1>2. ASSUME Commit PROVE OverlayInv'
  <2>1. PICK h \in HookStates : h = [step |-> "started", built |-> Unreadable]
    BY DEF HookStates
  <2>2. /\ commits' = Append(commits, worktree) /\ syncs' = Append(syncs, h)
        /\ UNCHANGED <<worktree, overlay, query, edits>>
    BY <1>2, <2>1 DEF Commit
  <2> QED
    BY <2>2 DEF OverlayInv
<1> QED
  BY <1>1, <1>2

\* Hooks: what they build of a commit, and what they write.
LEMMA HookSteps ==
  ASSUME OverlayInv, NEW i \in DOMAIN syncs,
         BuildSync(i) \/ CheckSync(i) \/ CutBySync(i) \/ WriteBySync(i) \/ KillSync(i)
  PROVE  OverlayInv'
<1>1. /\ UNCHANGED <<worktree, commits>> /\ syncs[i] \in HookStates
      /\ i \in DOMAIN commits /\ commits[i] \in Trees
      /\ overlay \in Overlays \cup {Unreadable}
  BY DEF OverlayInv, BuildSync, CheckSync, CutBySync, WriteBySync, KillSync
<1>2. PICK ended \in HookStates : ended = [step |-> "ended", built |-> Unreadable]
  BY DEF HookStates
<1>3. ASSUME NEW h \in HookStates, syncs' = [syncs EXCEPT ![i] = h],
             \/ UNCHANGED <<overlay, query>>
             \/ /\ query' = [query EXCEPT !.alone = FALSE]
                /\ overlay' \in Overlays \cup {Unreadable}
      PROVE  OverlayInv'
  <2>1. syncs' \in Seq(HookStates) /\ Len(syncs') = Len(syncs)
    BY <1>3, HookMoves
  <2>2. CASE UNCHANGED <<overlay, query>>
    BY <1>1, <2>1, <2>2 DEF OverlayInv
  <2>3. CASE query' = [query EXCEPT !.alone = FALSE] /\ overlay' \in Overlays \cup {Unreadable}
    <3>1. query' \in QueryStages /\ query'.alone = FALSE
      BY <2>3 DEF OverlayInv, QueryStages
    <3> QED
      BY <1>1, <2>1, <2>3, <3>1 DEF OverlayInv
  <2> QED
    BY <1>3, <2>2, <2>3
<1>4. ASSUME BuildSync(i) PROVE OverlayInv'
  <2>1. PICK o \in Overlays : o = Built(commits[i])
    BY <1>1, BuiltIsFresh
  <2>2. PICK h \in HookStates : h = [step |-> "built", built |-> o]
    BY <2>1, HooksAre
  <2>3. /\ syncs' = [syncs EXCEPT ![i] = IF i = Len(commits) THEN h ELSE ended]
        /\ UNCHANGED <<overlay, query>>
    BY <1>2, <1>4, <2>1, <2>2 DEF BuildSync
  <2> QED
    BY <1>3, <2>3
<1>5. ASSUME CheckSync(i) PROVE OverlayInv'
  <2>1. PICK h : h = [syncs[i] EXCEPT !.step = "checked"]
    OBVIOUS
  <2>2. h \in HookStates
    BY <1>1, <1>5, <2>1 DEF CheckSync, HookStates
  <2>3. /\ syncs' = [syncs EXCEPT ![i] = IF i = Len(commits) THEN h ELSE ended]
        /\ UNCHANGED <<overlay, query>>
    BY <1>2, <1>5, <2>1 DEF CheckSync
  <2> QED
    BY <1>3, <2>2, <2>3
<1>6. ASSUME CutBySync(i) PROVE OverlayInv'
  <2>1. PICK h : h = [syncs[i] EXCEPT !.step = "writing"]
    OBVIOUS
  <2>2. h \in HookStates
    BY <1>1, <1>6, <2>1 DEF CutBySync, HookStates
  <2>3. /\ syncs' = [syncs EXCEPT ![i] = h] /\ overlay' = Unreadable
        /\ query' = [query EXCEPT !.alone = FALSE]
    BY <1>6, <2>1 DEF CutBySync
  <2> QED
    BY <1>3, <2>2, <2>3
<1>7. ASSUME WriteBySync(i) PROVE OverlayInv'
  <2>1. /\ syncs' = [syncs EXCEPT ![i] = ended] /\ overlay' = syncs[i].built
        /\ query' = [query EXCEPT !.alone = FALSE] /\ syncs[i].step = "writing"
    BY <1>2, <1>7 DEF WriteBySync
  <2>2. overlay' \in Overlays
    BY <1>1, <2>1 DEF HookStates
  <2> QED
    BY <1>3, <2>1, <2>2
<1>8. ASSUME KillSync(i) PROVE OverlayInv'
  BY <1>2, <1>3, <1>8 DEF KillSync
<1> QED
  BY <1>4, <1>5, <1>6, <1>7, <1>8

\* A question: what it loads, writes, reads back and answers from.
LEMMA QuerySteps ==
  ASSUME OverlayInv, LoadManifest \/ CutByQuery \/ WriteByQuery \/ ReadBack \/ EndQuery
  PROVE  OverlayInv'
<1>1. /\ UNCHANGED <<worktree, commits, syncs>> /\ worktree \in Trees
      /\ overlay \in Overlays \cup {Unreadable} /\ query \in QueryStages
  BY DEF OverlayInv, LoadManifest, CutByQuery, WriteByQuery, ReadBack, EndQuery
<1>2. PICK built \in Overlays : built = Built(worktree)
  BY <1>1, BuiltIsFresh
<1>3. ASSUME query' \in QueryStages, overlay' \in Overlays \cup {Unreadable},
             query'.step = "written" /\ query'.alone => overlay' = query'.built,
             query'.step = "answered" /\ query'.alone => query'.answer = query'.built
      PROVE  OverlayInv'
  BY <1>1, <1>3 DEF OverlayInv
<1>4. ASSUME LoadManifest PROVE OverlayInv'
  <2>1. PICK o \in Overlays : query' = [NoQuestion EXCEPT !.step = "built", !.built = o]
    BY <1>1, <1>2, <1>4 DEF LoadManifest
  <2>2. query' \in QueryStages /\ query'.step = "built"
    BY <2>1 DEF NoQuestion, QueryStages
  <2> QED
    BY <1>1, <1>3, <1>4, <2>2 DEF LoadManifest
<1>5. ASSUME CutByQuery PROVE OverlayInv'
  <2>1. query' \in QueryStages /\ query'.step = "writing"
    BY <1>1, <1>5 DEF CutByQuery, QueryStages
  <2> QED
    BY <1>3, <1>5, <2>1 DEF CutByQuery
<1>6. ASSUME WriteByQuery PROVE OverlayInv'
  <2>1. /\ query' \in QueryStages /\ query'.step = "written" /\ query'.built = query.built
        /\ query.built \in Overlays
    BY <1>1, <1>6 DEF WriteByQuery, QueryStages
  <2> QED
    BY <1>3, <1>6, <2>1 DEF WriteByQuery
<1>7. ASSUME ReadBack PROVE OverlayInv'
  <2>1. PICK o \in Overlays : o = IF overlay # Unreadable THEN overlay ELSE Built(worktree)
    BY <1>1, <1>2
  <2>2. query.step = "written" /\ query' = [query EXCEPT !.step = "answered", !.answer = o]
    BY <1>7, <2>1 DEF ReadBack
  <2>3. /\ query' \in QueryStages /\ query'.step = "answered" /\ query'.built = query.built
        /\ query'.answer = o /\ query'.alone = query.alone /\ query.built \in Overlays
    BY <1>1, <2>2 DEF QueryStages
  <2>4. query.alone => o = query.built
    BY <2>1, <2>2, <2>3, OverlaysAre DEF OverlayInv
  <2> QED
    BY <1>1, <1>3, <1>7, <2>3, <2>4 DEF ReadBack
<1>8. ASSUME EndQuery PROVE OverlayInv'
  <2>1. query' \in QueryStages /\ query'.step = "idle"
    BY <1>8 DEF EndQuery, NoQuestion, QueryStages
  <2> QED
    BY <1>1, <1>3, <1>8, <2>1 DEF EndQuery
<1> QED
  BY <1>4, <1>5, <1>6, <1>7, <1>8

LEMMA OverlayHolds == OverlaySpec => []OverlayInv
<1>1. ASSUME OverlayInv, [OverlayNext]_overlayVars PROVE OverlayInv'
  <2>1. CASE UNCHANGED overlayVars
    BY <1>1, <2>1 DEF overlayVars, OverlayInv
  <2> QED
    BY <1>1, <2>1, TreesChange, HookSteps, QuerySteps DEF OverlayNext
<1> QED
  BY <1>1, OverlayBegins, PTL DEF OverlaySpec

\* Whatever is edited, committed, synced, killed and asked, the overlay file is the
\* build of some tree or unreadable (writeLocalCodeOverlayCache).
THEOREM OverlayTypesOK == OverlaySpec => []OverlayTypeOK
<1>1. OverlayInv => OverlayTypeOK
  <2> SUFFICES ASSUME OverlayInv PROVE OverlayTypeOK
    OBVIOUS
  <2>1. \A i \in DOMAIN syncs : syncs[i].step \in {"started", "built", "checked", "writing", "ended"}
    BY DEF OverlayInv, HookStates
  <2>2. query.step \in {"idle", "built", "writing", "written", "answered"}
    BY DEF OverlayInv, QueryStages
  <2> QED
    BY <2>1, <2>2 DEF OverlayInv, OverlayTypeOK
<1> QED
  BY <1>1, OverlayHolds, PTL

\* A question that nobody disturbs answers from what a build from nothing would make
\* of the worktree, whatever overlay an incremental build took over
\* (buildLocalCodeOverlay, resolveCodeGraphAutoSourceResult).
THEOREM FreshAnswers == OverlaySpec => []OverlaysAreFresh
<1>1. OverlayInv => OverlaysAreFresh
  <2> SUFFICES ASSUME OverlayInv PROVE OverlaysAreFresh
    OBVIOUS
  <2>1. query.step = "answered" => query.answer \in Overlays
    BY DEF OverlayInv, QueryStages
  <2> QED
    BY <2>1, OverlaysAre DEF OverlayInv, OverlaysAreFresh
<1> QED
  BY <1>1, OverlayHolds, PTL

-----------------------------------------------------------------------------
(***************************************************************************)
(* The questions to the code graph.                                        *)
(***************************************************************************)
\* Whatever was edited, committed and synced before, questions to the code graph are
\* answered from a fresh overlay, and completely.
THEOREM GraphAnswers == GraphSpec /\ OverlaySpec => []GraphAnswersHold
BY CompleteAnswers, FreshAnswers, PTL DEF GraphAnswersHold

-----------------------------------------------------------------------------
(***************************************************************************)
(* The plan compiler: ids.                                                 *)
(***************************************************************************)
\* Names as sanitizing leaves them, with or without a suffix.
Sanitized == Texts \X (Nat \ {0})

LEMMA SanitizedNames ==
  /\ \A name \in Texts \X Nat : SanitizedId(name) \in Sanitized
  /\ \A name \in Sanitized : SanitizedId(name) = name /\ name \in Texts \X Nat
BY DEF SanitizedId, Sanitized

LEMMA FreeSuffix ==
  ASSUME NEW used, IsFiniteSet(used), NEW text
  PROVE  \E k \in 2 .. Cardinality(used) + 2 : <<text, k>> \notin used
<1> DEFINE n == Cardinality(used)
           suffixes == 2 .. n + 2
<1>1. n \in Nat
  BY FS_CardinalityType
<1>2. SUFFICES ASSUME \A k \in suffixes : <<text, k>> \in used
               PROVE  FALSE
  OBVIOUS
<1>3. IsFiniteSet(suffixes) /\ Cardinality(suffixes) = n + 1
  <2>1. 2 \in Int /\ n + 2 \in Int
    BY <1>1
  <2>2. IsFiniteSet(suffixes) /\ Cardinality(suffixes) = IF 2 > n + 2 THEN 0 ELSE (n + 2) - 2 + 1
    BY <2>1, FS_Interval
  <2> QED
    BY <1>1, <2>2
<1>4. PICK f : f = [k \in suffixes |-> <<text, k>>]
  OBVIOUS
<1>5. f \in Injection(suffixes, used)
  BY <1>2, <1>4 DEF Injection, IsInjective
<1>6. n + 1 <= n
  <2> HIDE DEF suffixes, n
  <2>1. Cardinality(suffixes) <= Cardinality(used)
    BY <1>5, FS_Injection
  <2> QED
    BY <1>3, <2>1 DEF n
<1> QED
  BY <1>1, <1>6

LEMMA UniqueIds ==
  ASSUME NEW id \in Sanitized, NEW used, IsFiniteSet(used)
  PROVE  /\ UniqueId(id, used) \in Sanitized
         /\ UniqueId(id, used) \notin used
         /\ id \notin used => UniqueId(id, used) = id
<1>1. CASE id \notin used
  BY <1>1 DEF UniqueId
<1>2. CASE id \in used
  <2> DEFINE free == {k \in 2 .. Cardinality(used) + 2 : <<id[1], k>> \notin used}
  <2>1. Cardinality(used) \in Nat
    BY FS_CardinalityType
  <2>2. free \in SUBSET Nat /\ free # {}
    <3>1. PICK k \in 2 .. Cardinality(used) + 2 : <<id[1], k>> \notin used
      BY FreeSuffix
    <3> QED
      BY <2>1, <3>1
  <2>3. \E k \in free : \A l \in free : k <= l
    <3> HIDE DEF free
    <3> QED
      BY <2>2, NatMin
  <2>4. PICK k : k = CHOOSE m \in free : \A l \in free : m <= l
    OBVIOUS
  <2>5. k \in free
    <3> HIDE DEF free
    <3> QED
      BY <2>3, <2>4
  <2>6. UniqueId(id, used) = <<id[1], k>>
    BY <1>2, <2>4 DEF UniqueId
  <2> QED
    BY <1>2, <2>1, <2>5, <2>6 DEF Sanitized
<1> QED
  BY <1>1, <1>2

\* Steps whose ids can be told.
Given(steps) ==
  /\ Len(steps) \in Nat /\ DOMAIN steps = 1 .. Len(steps)
  /\ \A i \in 1 .. Len(steps) : GivenId(steps[i]) \in Sanitized

IdStep(steps, f) ==
  [i \in 0 .. Len(steps) |->
     IF i = 0 THEN <<>>
     ELSE Append(f[i - 1], UniqueId(GivenId(steps[i]), {f[i - 1][k] : k \in DOMAIN f[i - 1]}))]

\* A sequence of ids has finitely many.
LEMMA FinitelyMany == ASSUME NEW S, NEW s \in Seq(S) PROVE IsFiniteSet({s[k] : k \in DOMAIN s})
<1>1. IsFiniteSet(DOMAIN s)
  <2>1. DOMAIN s = 1 .. Len(s) /\ Len(s) \in Nat
    OBVIOUS
  <2>2. 1 \in Int /\ Len(s) \in Int
    BY <2>1
  <2> QED
    BY <2>1, <2>2, FS_Interval
<1>2. PICK R : R = {s[k] : k \in DOMAIN s}
  OBVIOUS
<1>3. PICK f : f = [k \in DOMAIN s |-> s[k]]
  OBVIOUS
<1>4. f \in Surjection(DOMAIN s, R)
  BY <1>2, <1>3 DEF Surjection
<1> QED
  BY <1>1, <1>2, <1>4, FS_Surjection

LEMMA IdsDefined ==
  ASSUME NEW steps, Given(steps)
  PROVE  IdsUpTo(steps) = IdStep(steps, IdsUpTo(steps))
<1> DEFINE n == Len(steps)
           V == Seq(Sanitized)
           Next1(k, s) == IF k \in 1 .. n
                            THEN Append(s, UniqueId(GivenId(steps[k]), {s[j] : j \in DOMAIN s}))
                            ELSE s
<1>1. n \in Nat /\ <<>> \in V
  BY DEF Given
<1>2. ASSUME NEW k \in Nat, NEW s \in V PROVE Next1(k, s) \in V
  <2>1. CASE k \in 1 .. n
    <3>1. IsFiniteSet({s[j] : j \in DOMAIN s})
      BY FinitelyMany
    <3>2. GivenId(steps[k]) \in Sanitized
      BY <2>1 DEF Given
    <3>3. UniqueId(GivenId(steps[k]), {s[j] : j \in DOMAIN s}) \in Sanitized
      BY <3>1, <3>2, UniqueIds
    <3> QED
      BY <2>1, <3>3
  <2>2. CASE k \notin 1 .. n
    BY <2>2
  <2> QED
    BY <2>1, <2>2
<1>3. PICK G : G = [k \in Nat |-> [s \in V |-> Next1(k, s)]]
  OBVIOUS
<1>4. G \in [Nat -> [V -> V]]
  <2> HIDE DEF Next1, V
  <2> QED
    BY <1>2, <1>3
<1>5. PICK f : Iterates(f, V, <<>>, G, n)
  <2> HIDE DEF Next1, V, n
  <2> QED
    BY <1>1, <1>4, Iterated
<1>6. f \in [0 .. n -> V]
  BY <1>5 DEF Iterates
<1>7. ASSUME NEW i \in 0 .. n PROVE f[i] = IdStep(steps, f)[i]
  <2>1. CASE i = 0
    BY <2>1, <1>1, <1>5 DEF Iterates, IdStep
  <2>2. CASE i # 0
    <3>1. i \in 1 .. n /\ i - 1 \in 0 .. n /\ i \in Nat
      BY <2>2, <1>1
    <3>2. f[i - 1] \in V
      BY <3>1, <1>6
    <3>3. f[i] = G[i][f[i - 1]]
      BY <3>1, <1>5 DEF Iterates
    <3>4. G[i][f[i - 1]] = Next1(i, f[i - 1])
      <4> HIDE DEF Next1, V
      <4> QED
        BY <1>3, <3>1, <3>2
    <3> QED
      BY <2>2, <3>1, <3>3, <3>4 DEF IdStep
  <2> QED
    BY <2>1, <2>2
<1>8. f = IdStep(steps, f)
  <2>1. f = [i \in 0 .. n |-> f[i]]
    BY <1>6
  <2>2. IdStep(steps, f) = [i \in 0 .. n |-> IdStep(steps, f)[i]]
    BY DEF IdStep
  <2> QED
    BY <1>7, <2>1, <2>2
<1>9. IdsUpTo(steps) = CHOOSE h : h = IdStep(steps, h)
  BY DEF IdsUpTo, IdStep
<1> QED
  BY <1>8, <1>9

InTurn(steps, s, i) ==
  /\ s \in Seq(Sanitized) /\ Len(s) = i /\ DOMAIN s = 1 .. i
  /\ \A k \in 1 .. i : s[k] = UniqueId(GivenId(steps[k]), {s[j] : j \in 1 .. k - 1})

\* Each step gets its id, or the first one with a suffix that none before it has.
LEMMA IdsInTurn ==
  ASSUME NEW steps, Given(steps)
  PROVE  InTurn(steps, PhaseIds(steps), Len(steps))
<1> PICK n : n = Len(steps)
  OBVIOUS
<1> PICK f : f = IdsUpTo(steps)
  OBVIOUS
<1>1. n \in Nat
  BY DEF Given
<1>2. \A i \in 0 .. n : f[i] =
        IF i = 0 THEN <<>>
        ELSE Append(f[i - 1], UniqueId(GivenId(steps[i]), {f[i - 1][k] : k \in DOMAIN f[i - 1]}))
  <2>1. f = IdStep(steps, f)
    BY IdsDefined
  <2>2. ASSUME NEW i \in 0 .. n
        PROVE  IdStep(steps, f)[i] =
                 IF i = 0 THEN <<>>
                 ELSE Append(f[i - 1],
                        UniqueId(GivenId(steps[i]), {f[i - 1][k] : k \in DOMAIN f[i - 1]}))
    BY DEF IdStep
  <2>3. ASSUME NEW i \in 0 .. n PROVE f[i] = IdStep(steps, f)[i]
    BY <2>1
  <2> QED
    BY <2>2, <2>3
<1> DEFINE Turn(s, i) == InTurn(steps, s, i)
           T == {i \in 0 .. n : Turn(f[i], i)}
<1>3. 0 \in T
  <2>1. 0 \in 0 .. n
    BY <1>1
  <2>2. f[0] = <<>>
    BY <1>2, <2>1
  <2>3. Turn(<<>>, 0)
    BY DEF InTurn
  <2> HIDE DEF Turn
  <2> QED
    BY <2>1, <2>2, <2>3
<1>4. ASSUME NEW i \in 0 .. n - 1, i \in T PROVE i + 1 \in T
  <2>1. i + 1 \in 0 .. n /\ i + 1 # 0 /\ (i + 1) - 1 = i /\ i \in Nat /\ i + 1 \in 1 .. n
    BY <1>1
  <2>2. Turn(f[i], i)
    BY <1>4
  <2>3. PICK s : s = f[i]
    OBVIOUS
  <2>4. s \in Seq(Sanitized) /\ Len(s) = i /\ DOMAIN s = 1 .. i
    BY <2>2, <2>3 DEF InTurn
  <2>5. PICK u : u = UniqueId(GivenId(steps[i + 1]), {s[k] : k \in 1 .. i})
    OBVIOUS
  <2>6. f[i + 1] = Append(s, u)
    <3>1. PICK j : j = i + 1
      OBVIOUS
    <3>2. j \in 0 .. n /\ j # 0 /\ j - 1 = i
      BY <2>1, <3>1
    <3>3. f[j] = Append(f[j - 1], UniqueId(GivenId(steps[j]), {f[j - 1][k] : k \in DOMAIN f[j - 1]}))
      BY <1>2, <3>2
    <3>4. f[j - 1] = s
      BY <2>3, <3>2
    <3>5. f[j] = Append(s, UniqueId(GivenId(steps[j]), {s[k] : k \in DOMAIN s}))
      BY <3>3, <3>4
    <3> QED
      BY <2>4, <2>5, <3>1, <3>5
  <2>7. u \in Sanitized
    <3>1. IsFiniteSet({s[k] : k \in 1 .. i})
      BY <2>4, FinitelyMany
    <3>2. GivenId(steps[i + 1]) \in Sanitized
      BY <2>1 DEF Given
    <3> QED
      BY <2>5, <3>1, <3>2, UniqueIds
  <2>8. PICK t : t = Append(s, u)
    OBVIOUS
  <2>9. t \in Seq(Sanitized) /\ Len(t) = i + 1 /\ DOMAIN t = 1 .. i + 1 /\ t[i + 1] = u /\ \A k \in 1 .. i : t[k] = s[k]
    BY <2>1, <2>4, <2>7, <2>8
  <2>10. ASSUME NEW k \in 1 .. i + 1
         PROVE  t[k] = UniqueId(GivenId(steps[k]), {t[j] : j \in 1 .. k - 1})
    <3>1. \A j \in 1 .. k - 1 : t[j] = s[j]
      BY <2>1, <2>9
    <3>2. {t[j] : j \in 1 .. k - 1} = {s[j] : j \in 1 .. k - 1}
      BY <3>1
    <3>3. CASE k = i + 1
      BY <2>1, <2>5, <2>9, <3>2, <3>3
    <3>4. CASE k # i + 1
      <4>1. k \in 1 .. i
        BY <2>1, <3>4
      <4>2. s[k] = UniqueId(GivenId(steps[k]), {s[j] : j \in 1 .. k - 1})
        BY <2>2, <2>3, <4>1 DEF InTurn
      <4> QED
        BY <2>9, <3>2, <4>1, <4>2
    <3> QED
      BY <3>3, <3>4
  <2>11. Turn(t, i + 1)
    <3> HIDE DEF Sanitized
    <3> QED
      BY <2>9, <2>10 DEF InTurn
  <2> QED
    <3> HIDE DEF Turn
    <3> QED
      BY <2>1, <2>6, <2>8, <2>11
<1>5. n \in T
  <2> HIDE DEF T
  <2>1. 0 .. n \subseteq T
    BY <1>1, <1>3, <1>4, InductionOn
  <2> QED
    BY <1>1, <2>1
<1>6. Turn(PhaseIds(steps), n)
  <2>1. f[n] = PhaseIds(steps)
    BY DEF PhaseIds
  <2> HIDE DEF Turn
  <2> QED
    BY <1>5, <2>1
<1> QED
  BY <1>6

LEMMA EarlierIds ==
  ASSUME NEW s, NEW i \in Nat, NEW S, s \in Seq(S), i <= Len(s) + 1
  PROVE  IsFiniteSet({s[k] : k \in 1 .. i - 1})
<1>1. IsFiniteSet({s[k] : k \in DOMAIN s})
  BY FinitelyMany
<1>2. {s[k] : k \in 1 .. i - 1} \subseteq {s[k] : k \in DOMAIN s}
  OBVIOUS
<1> QED
  BY <1>1, <1>2, FS_Subset

LEMMA IdsDiffer ==
  ASSUME NEW steps, Given(steps), NEW i \in 1 .. Len(steps), NEW k \in 1 .. Len(steps),
         PhaseIds(steps)[i] = PhaseIds(steps)[k]
  PROVE  i = k
<1>1. Len(steps) \in Nat
  BY DEF Given
<1>2. ASSUME NEW a \in 1 .. Len(steps), NEW b \in 1 .. Len(steps), a < b
      PROVE  PhaseIds(steps)[a] # PhaseIds(steps)[b]
  <2>1. PICK used : used = {PhaseIds(steps)[j] : j \in 1 .. b - 1}
    OBVIOUS
  <2>2. PhaseIds(steps)[a] \in used
    BY <1>1, <1>2, <2>1
  <2>3. IsFiniteSet(used)
    BY <1>1, <2>1, IdsInTurn, EarlierIds DEF InTurn
  <2>4. GivenId(steps[b]) \in Sanitized
    BY DEF Given
  <2>5. PhaseIds(steps)[b] = UniqueId(GivenId(steps[b]), used)
    BY <2>1, IdsInTurn DEF InTurn
  <2> QED
    BY <2>2, <2>3, <2>4, <2>5, UniqueIds
<1>3. ~(i < k) /\ ~(k < i)
  BY <1>2
<1> QED
  BY <1>1, <1>3

\* Ids that were given out once are not changed when they are given.
LEMMA IdsStay ==
  ASSUME NEW steps, Given(steps), NEW again, Given(again), Len(again) = Len(steps),
         \A i \in 1 .. Len(steps) : GivenId(again[i]) = PhaseIds(steps)[i]
  PROVE  PhaseIds(again) = PhaseIds(steps)
<1> PICK n : n = Len(steps)
  OBVIOUS
<1> PICK p : p = PhaseIds(steps)
  OBVIOUS
<1> PICK q : q = PhaseIds(again)
  OBVIOUS
<1>1. n \in Nat /\ p \in Seq(Sanitized) /\ Len(p) = n /\ q \in Seq(Sanitized) /\ Len(q) = n
  BY IdsInTurn DEF Given, InTurn
<1>2. ASSUME NEW i \in 1 .. n PROVE q[i] = UniqueId(p[i], {q[k] : k \in 1 .. i - 1})
  <2>1. q[i] = UniqueId(GivenId(again[i]), {q[k] : k \in 1 .. i - 1})
    <3>1. InTurn(again, q, n)
      BY IdsInTurn
    <3> QED
      BY <3>1 DEF InTurn
  <2>2. GivenId(again[i]) = p[i]
    OBVIOUS
  <2> QED
    BY <2>1, <2>2
<1> DEFINE T == {i \in 0 .. n : \A k \in 1 .. i : q[k] = p[k]}
<1>3. 0 \in T
  BY <1>1
<1>4. ASSUME NEW i \in 0 .. n - 1, i \in T PROVE i + 1 \in T
  <2>1. i \in Nat /\ i + 1 \in 1 .. n /\ (i + 1) - 1 = i /\ i + 1 \in 0 .. n
    BY <1>1
  <2>2. \A k \in 1 .. i : q[k] = p[k]
    BY <1>4
  <2>3. PICK used : used = {p[k] : k \in 1 .. i}
    OBVIOUS
  <2>4. {q[k] : k \in 1 .. i} = used
    BY <2>2, <2>3
  <2>5. q[i + 1] = UniqueId(p[i + 1], used)
    BY <1>2, <2>1, <2>4
  <2>6. IsFiniteSet(used)
    <3>1. i + 1 <= Len(p) + 1 /\ i + 1 \in Nat
      BY <1>1, <2>1
    <3>2. IsFiniteSet({p[k] : k \in 1 .. (i + 1) - 1})
      BY <1>1, <3>1, EarlierIds
    <3> QED
      BY <2>1, <2>3, <3>2
  <2>7. p[i + 1] \notin used
    <3>1. ASSUME NEW k \in 1 .. i PROVE p[k] # p[i + 1]
      <4>1. k \in 1 .. n /\ k # i + 1
        BY <1>1, <2>1
      <4> QED
        BY <2>1, <4>1, IdsDiffer
    <3> QED
      BY <2>3, <3>1
  <2>8. p[i + 1] \in Sanitized
    BY <1>1, <2>1
  <2>9. q[i + 1] = p[i + 1]
    BY <2>5, <2>6, <2>7, <2>8, UniqueIds
  <2> QED
    BY <2>1, <2>2, <2>9
<1>5. \A k \in 1 .. n : q[k] = p[k]
  <2>1. 0 .. n \subseteq T
    <3> HIDE DEF T
    <3> QED
      BY <1>1, <1>3, <1>4, InductionOn
  <2>2. n \in T
    BY <1>1, <2>1
  <2> QED
    BY <2>2
<1> QED
  BY <1>1, <1>5

-----------------------------------------------------------------------------
(***************************************************************************)
(* The plan compiler: documents.                                           *)
(***************************************************************************)
LEMMA StepTypes ==
  ASSUME NEW s \in Seq(StepForms), NEW i \in DOMAIN s
  PROVE  /\ s[i].id \in GivenIds /\ s[i].title \in Texts \X {0, 1}
         /\ s[i].number = NotGiven \/ s[i].number \in Nat
         /\ s[i].tasks \in Seq(TaskForms)
<1>1. s[i] \in StepForms
  OBVIOUS
<1> QED
  BY <1>1, FormShape

LEMMA TaskTypes ==
  ASSUME NEW s \in Seq(StepForms), NEW k \in TaskSpots(s)
  PROVE  /\ k = <<k[1], k[2]>>
         /\ k[1] \in 1 .. Len(s) /\ k[2] \in 1 .. Len(s[k[1]].tasks)
         /\ s[k[1]].tasks[k[2]].id \in GivenIds
<1>1. PICK i \in DOMAIN s : k \in {<<i, j>> : j \in DOMAIN s[i].tasks}
  BY DEF TaskSpots
<1>2. PICK j \in DOMAIN s[i].tasks : k = <<i, j>>
  BY <1>1
<1>3. s[i].tasks \in Seq(TaskForms)
  BY StepTypes
<1>4. s[i].tasks[j] \in TaskForms
  BY <1>3
<1>5. s[i].tasks[j].id \in GivenIds
  BY <1>4 DEF TaskForms
<1>6. DOMAIN s = 1 .. Len(s) /\ DOMAIN s[i].tasks = 1 .. Len(s[i].tasks)
  BY <1>3
<1> QED
  BY <1>2, <1>5, <1>6

LEMMA GivenNames ==
  ASSUME NEW id \in GivenIds, id # NotGiven
  PROVE  SanitizedId(id) \in Sanitized
<1>1. id \in Texts \X Nat
  BY DEF GivenIds
<1> QED
  BY <1>1, SanitizedNames

LEMMA StepIds ==
  ASSUME NEW s \in Seq(StepForms), NEW i \in DOMAIN s
  PROVE  GivenId(s[i]) \in Sanitized
<1>1. s[i].title \in Texts \X Nat
  BY StepTypes
<1>2. CASE s[i].id = NotGiven
  BY <1>1, <1>2, SanitizedNames DEF GivenId
<1>3. CASE s[i].id # NotGiven
  BY <1>3, StepTypes, GivenNames DEF GivenId
<1> QED
  BY <1>2, <1>3

LEMMA SourceIsGiven == ASSUME NEW s \in Seq(StepForms) PROVE Given(s)
BY StepIds DEF Given

LEMMA TaskIdTypes ==
  ASSUME NEW s \in Seq(StepForms), NEW k \in TaskSpots(s)
  PROVE  TaskId(s[k[1]], k[2]) \in Sanitized
<1>1. CASE s[k[1]].tasks[k[2]].id = NotGiven
  <2>1. GivenId(s[k[1]]) \in Sanitized
    BY TaskTypes, StepIds
  <2>2. GivenId(s[k[1]])[1] \in Texts
    BY <2>1 DEF Sanitized
  <2>3. TaskText[GivenId(s[k[1]])[1]] \in Texts
    BY <2>2, FormShape
  <2>4. s[k[1]].tasks \in Seq(TaskForms)
    BY TaskTypes, StepTypes
  <2>5. k[2] \in Nat \ {0}
    BY <2>4, TaskTypes
  <2> QED
    BY <1>1, <2>3, <2>5 DEF TaskId, Sanitized
<1>2. CASE s[k[1]].tasks[k[2]].id # NotGiven
  BY <1>2, TaskTypes, GivenNames DEF TaskId
<1> QED
  BY <1>1, <1>2

LEMMA SanitizedAreGiven ==
  /\ Sanitized \subseteq PlanNames /\ NotGiven \notin Sanitized
  /\ \A n : Numbered(n) \notin Sanitized
<1>1. Sanitized \subseteq PlanNames
  BY DEF Sanitized, PlanNames
<1>2. ASSUME NEW n PROVE Numbered(n) \notin Sanitized
  BY FormShape DEF Numbered, Sanitized
<1> QED
  BY <1>1, <1>2, FormShape

IdsIn(s) == {PhaseIds(s)[i] : i \in DOMAIN s} \cup TaskIds(s)

LEMMA IdTypes ==
  ASSUME NEW s \in Seq(StepForms)
  PROVE  /\ \A i \in DOMAIN s : PhaseIds(s)[i] \in Sanitized
         /\ IdsIn(s) \subseteq Sanitized
<1>1. PhaseIds(s) \in Seq(Sanitized) /\ Len(PhaseIds(s)) = Len(s)
  BY SourceIsGiven, IdsInTurn DEF InTurn
<1>2. \A i \in DOMAIN s : PhaseIds(s)[i] \in Sanitized
  BY <1>1
<1>3. TaskIds(s) \subseteq Sanitized
  BY TaskIdTypes DEF TaskIds
<1> QED
  BY <1>2, <1>3 DEF IdsIn

LEMMA AliasesAreIds ==
  ASSUME NEW s, NEW a \in Aliases(s)
  PROVE  a[2] \in IdsIn(s)
<1>1. CASE a \in PhaseAliases(s)
  BY <1>1 DEF PhaseAliases, IdsIn
<1>2. CASE a \notin PhaseAliases(s)
  <2>1. PICK k \in TaskSpots(s) :
          a \in {<<name, TaskId(s[k[1]], k[2])>> :
                   name \in {TaskId(s[k[1]], k[2]), s[k[1]].tasks[k[2]].id} \ {NotGiven}}
    BY <1>2 DEF Aliases
  <2>2. a[2] = TaskId(s[k[1]], k[2])
    BY <2>1
  <2> QED
    BY <2>2 DEF IdsIn, TaskIds
<1> QED
  BY <1>1, <1>2

LEMMA ResolvedAreIds == ASSUME NEW s, NEW names PROVE ResolvedIds(s, names) \subseteq IdsIn(s)
BY AliasesAreIds DEF ResolvedIds

\* Every id stands for itself.
LEMMA IdsAreAliases ==
  ASSUME NEW s \in Seq(StepForms), NEW id \in IdsIn(s)
  PROVE  <<id, id>> \in Aliases(s)
<1>1. id # NotGiven
  BY IdTypes, SanitizedAreGiven
<1>2. CASE \E i \in DOMAIN s : id = PhaseIds(s)[i]
  BY <1>1, <1>2 DEF Aliases, PhaseAliases
<1>3. CASE id \in TaskIds(s)
  <2>1. PICK k \in TaskSpots(s) : id = TaskId(s[k[1]], k[2])
    BY <1>3 DEF TaskIds
  <2>2. <<id, id>> \in {<<name, TaskId(s[k[1]], k[2])>> :
                   name \in {TaskId(s[k[1]], k[2]), s[k[1]].tasks[k[2]].id} \ {NotGiven}}
    BY <1>1, <2>1
  <2> QED
    BY <2>2 DEF Aliases
<1> QED
  BY <1>2, <1>3 DEF IdsIn

-----------------------------------------------------------------------------
\* The document and the source have the same form,
LEMMA DocumentShape ==
  ASSUME NEW s \in Seq(StepForms)
  PROVE  /\ Len(Compiled(s)) = Len(s) /\ DOMAIN Compiled(s) = 1 .. Len(s) /\ DOMAIN s = 1 .. Len(s)
         /\ TaskSpots(Compiled(s)) = TaskSpots(s)
         /\ \A i \in DOMAIN s :
              /\ Compiled(s)[i].id = PhaseIds(s)[i]
              /\ Compiled(s)[i].number = NotGiven /\ Compiled(s)[i].refs = NotGiven
              /\ Compiled(s)[i].deps = Dependencies(s, i)
              /\ Compiled(s)[i].request = StepRequest(s, i)
              /\ ~Compiled(s)[i].camel
              /\ DOMAIN Compiled(s)[i].tasks = DOMAIN s[i].tasks
              /\ s[i].tasks = <<>> <=> Compiled(s)[i].tasks = <<>>
         /\ \A i \in DOMAIN s : \A j \in DOMAIN s[i].tasks :
              /\ Compiled(s)[i].tasks[j].id = TaskId(s[i], j)
              /\ Compiled(s)[i].tasks[j].deps = TaskDependencies(s, i, j)
              /\ Compiled(s)[i].tasks[j].request = TaskRequest(s, i, j)
              /\ ~Compiled(s)[i].tasks[j].camel
<1> PICK d : d = Compiled(s)
  OBVIOUS
<1>1. DOMAIN d = 1 .. Len(s) /\ DOMAIN s = 1 .. Len(s) /\ Len(s) \in Nat
  BY DEF Compiled
<1>2. Len(d) = Len(s)
  <2>1. PICK D : D = {d[i] : i \in 1 .. Len(s)}
    OBVIOUS
  <2>2. d \in [1 .. Len(s) -> D]
    <3>1. d = [i \in 1 .. Len(s) |-> d[i]]
      BY <1>1 DEF Compiled
    <3> QED
      BY <2>1, <3>1
  <2>3. d \in Seq(D)
    BY <1>1, <2>2
  <2> QED
    BY <1>1, <2>3
<1>3. ASSUME NEW i \in DOMAIN s
      PROVE  /\ d[i].id = PhaseIds(s)[i]
             /\ d[i].number = NotGiven /\ d[i].refs = NotGiven
             /\ d[i].deps = Dependencies(s, i)
             /\ d[i].request = StepRequest(s, i)
             /\ ~d[i].camel
             /\ DOMAIN d[i].tasks = DOMAIN s[i].tasks
             /\ \A j \in DOMAIN s[i].tasks :
                  /\ d[i].tasks[j].id = TaskId(s[i], j)
                  /\ d[i].tasks[j].deps = TaskDependencies(s, i, j)
                  /\ d[i].tasks[j].request = TaskRequest(s, i, j)
                  /\ ~d[i].tasks[j].camel
  BY DEF Compiled
<1>4. ASSUME NEW i \in DOMAIN s PROVE s[i].tasks = <<>> <=> d[i].tasks = <<>>
  <2>1. s[i].tasks \in Seq(TaskForms)
    BY StepTypes
  <2>2. PICK ts : ts = d[i].tasks
    OBVIOUS
  <2>3. ts = [j \in DOMAIN s[i].tasks |-> ts[j]]
    BY <2>2 DEF Compiled
  <2>4. PICK D : D = {ts[j] : j \in DOMAIN s[i].tasks}
    OBVIOUS
  <2>5. ts \in [1 .. Len(s[i].tasks) -> D]
    BY <2>1, <2>3, <2>4
  <2>6. ts \in Seq(D) /\ Len(ts) = Len(s[i].tasks)
    BY <2>1, <2>5
  <2>7. ts = <<>> <=> Len(ts) = 0
    BY <2>6
  <2>8. s[i].tasks = <<>> <=> Len(s[i].tasks) = 0
    BY <2>1
  <2> QED
    BY <2>2, <2>6, <2>7, <2>8
<1>5. TaskSpots(d) = TaskSpots(s)
  <2>1. DOMAIN d = DOMAIN s
    BY <1>1
  <2>2. \A i \in DOMAIN s : DOMAIN d[i].tasks = DOMAIN s[i].tasks
    BY <1>3
  <2> QED
    BY <2>1, <2>2 DEF TaskSpots
<1> QED
  BY <1>1, <1>2, <1>3, <1>4, <1>5

\* the same ids,
LEMMA DocumentIds ==
  ASSUME NEW s \in Seq(StepForms)
  PROVE  /\ PhaseIds(Compiled(s)) = PhaseIds(s)
         /\ \A k \in TaskSpots(s) : TaskId(Compiled(s)[k[1]], k[2]) = TaskId(s[k[1]], k[2])
         /\ TaskIds(Compiled(s)) = TaskIds(s)
<1> PICK d : d = Compiled(s)
  OBVIOUS
<1>1. ASSUME NEW i \in DOMAIN s PROVE GivenId(d[i]) = PhaseIds(s)[i]
  <2>1. PhaseIds(s)[i] \in Sanitized
    BY IdTypes
  <2>2. d[i].id = PhaseIds(s)[i]
    BY DocumentShape
  <2>3. d[i].id # NotGiven
    BY <2>1, <2>2, SanitizedAreGiven
  <2> QED
    BY <2>1, <2>2, <2>3, SanitizedNames DEF GivenId
<1>2. Given(d)
  BY <1>1, DocumentShape, IdTypes DEF Given
<1>3. PhaseIds(d) = PhaseIds(s)
  BY <1>1, <1>2, DocumentShape, SourceIsGiven, IdsStay
<1>4. ASSUME NEW k \in TaskSpots(s) PROVE TaskId(d[k[1]], k[2]) = TaskId(s[k[1]], k[2])
  <2>1. TaskId(s[k[1]], k[2]) \in Sanitized
    BY TaskIdTypes
  <2>2. k[1] \in DOMAIN s /\ k[2] \in DOMAIN s[k[1]].tasks
    <3>1. s[k[1]].tasks \in Seq(TaskForms)
      BY TaskTypes, StepTypes
    <3> QED
      BY <3>1, TaskTypes
  <2>3. d[k[1]].tasks[k[2]].id = TaskId(s[k[1]], k[2])
    BY <2>2, DocumentShape
  <2>4. d[k[1]].tasks[k[2]].id # NotGiven
    BY <2>1, <2>3, SanitizedAreGiven
  <2> QED
    BY <2>1, <2>3, <2>4, SanitizedNames DEF TaskId
<1>5. TaskIds(d) = TaskIds(s)
  <2>1. TaskSpots(d) = TaskSpots(s)
    BY DocumentShape
  <2> QED
    BY <1>4, <2>1 DEF TaskIds
<1> QED
  BY <1>3, <1>4, <1>5

\* and no names for them but the ids and the numbers.
LEMMA DocumentAliases ==
  ASSUME NEW s \in Seq(StepForms)
  PROVE  \A a : a \in Aliases(Compiled(s)) <=>
           \/ \E id \in IdsIn(s) : a = <<id, id>>
           \/ \E i \in DOMAIN s : a = <<Numbered(i), PhaseIds(s)[i]>>
<1> PICK d : d = Compiled(s)
  OBVIOUS
<1>1. DOMAIN d = DOMAIN s /\ TaskSpots(d) = TaskSpots(s) /\ PhaseIds(d) = PhaseIds(s)
  BY DocumentShape, DocumentIds
<1>2. \A i \in DOMAIN s : NumberOf(d, i) = i /\ d[i].id = PhaseIds(s)[i]
  BY DocumentShape DEF NumberOf
<1>3. ASSUME NEW i \in DOMAIN s
      PROVE  {Numbered(NumberOf(d, i)), PhaseIds(d)[i], d[i].id} \ {NotGiven} =
               {Numbered(i), PhaseIds(s)[i]}
  <2>1. PhaseIds(s)[i] # NotGiven
    BY IdTypes, SanitizedAreGiven
  <2>2. Numbered(i) # NotGiven
    <3>1. i \in Nat
      OBVIOUS
    <3>2. Numbered(i) \in PlanNames
      BY <3>1 DEF Numbered, PlanNames
    <3> QED
      BY <3>2, FormShape
  <2> QED
    BY <1>1, <1>2, <2>1, <2>2
<1>4. \A a : a \in PhaseAliases(d) <=>
        \E i \in DOMAIN s : a = <<Numbered(i), PhaseIds(s)[i]>> \/ a = <<PhaseIds(s)[i], PhaseIds(s)[i]>>
  <2> DEFINE Names(i) == {Numbered(NumberOf(d, i)), PhaseIds(d)[i], d[i].id} \ {NotGiven}
  <2>1. \A a : a \in PhaseAliases(d) <=>
          \E i \in DOMAIN s : \E name \in Names(i) : a = <<name, PhaseIds(d)[i]>>
    <3>1. PhaseAliases(d) = UNION {{<<name, PhaseIds(d)[i]>> : name \in Names(i)} : i \in DOMAIN s}
      BY <1>1 DEF PhaseAliases
    <3> HIDE DEF Names
    <3> QED
      BY <3>1
  <2>2. \A i \in DOMAIN s : Names(i) = {Numbered(i), PhaseIds(s)[i]}
    BY <1>3
  <2> HIDE DEF Names
  <2> QED
    BY <1>1, <2>1, <2>2
<1>5. ASSUME NEW k \in TaskSpots(s)
      PROVE  {TaskId(d[k[1]], k[2]), d[k[1]].tasks[k[2]].id} \ {NotGiven} = {TaskId(s[k[1]], k[2])}
  <2>1. TaskId(s[k[1]], k[2]) # NotGiven
    BY TaskIdTypes, SanitizedAreGiven
  <2>2. k[1] \in DOMAIN s /\ k[2] \in DOMAIN s[k[1]].tasks
    <3>1. s[k[1]].tasks \in Seq(TaskForms)
      BY TaskTypes, StepTypes
    <3> QED
      BY <3>1, TaskTypes
  <2>3. d[k[1]].tasks[k[2]].id = TaskId(s[k[1]], k[2])
    BY <2>2, DocumentShape
  <2> QED
    BY <2>1, <2>3, DocumentIds
<1>7. \A a : a \in Aliases(d) <=>
        \/ a \in PhaseAliases(d)
        \/ \E k \in TaskSpots(s) : a = <<TaskId(s[k[1]], k[2]), TaskId(s[k[1]], k[2])>>
  <2> DEFINE Names(k) == {TaskId(d[k[1]], k[2]), d[k[1]].tasks[k[2]].id} \ {NotGiven}
  <2>1. \A a : a \in Aliases(d) <=>
          \/ a \in PhaseAliases(d)
          \/ \E k \in TaskSpots(s) : \E name \in Names(k) : a = <<name, TaskId(d[k[1]], k[2])>>
    <3>1. Aliases(d) = PhaseAliases(d) \cup
            UNION {{<<name, TaskId(d[k[1]], k[2])>> : name \in Names(k)} : k \in TaskSpots(s)}
      BY <1>1 DEF Aliases
    <3> HIDE DEF Names
    <3> QED
      BY <3>1
  <2>2. \A k \in TaskSpots(s) : TaskId(d[k[1]], k[2]) = TaskId(s[k[1]], k[2])
    BY DocumentIds
  <2>3. \A k \in TaskSpots(s) : Names(k) = {TaskId(s[k[1]], k[2])}
    BY <1>5
  <2> HIDE DEF Names
  <2> QED
    BY <2>1, <2>2, <2>3
<1> QED
  BY <1>4, <1>7 DEF IdsIn, TaskIds

LEMMA SpotPlaces ==
  ASSUME NEW s \in Seq(StepForms), NEW k \in TaskSpots(s)
  PROVE  k[1] \in DOMAIN s /\ k[2] \in DOMAIN s[k[1]].tasks
<1>1. s[k[1]].tasks \in Seq(TaskForms)
  BY TaskTypes, StepTypes
<1> QED
  BY <1>1, TaskTypes

LEMMA DocumentResolves ==
  ASSUME NEW s \in Seq(StepForms), NEW names, names \subseteq IdsIn(s)
  PROVE  ResolvedIds(Compiled(s), names) = names
<1>1. \A id \in names : \A i : id # Numbered(i)
  BY IdTypes, SanitizedAreGiven
<1>2. ASSUME NEW a \in Aliases(Compiled(s)), a[1] \in names PROVE a[2] = a[1]
  <2>1. CASE \E id \in IdsIn(s) : a = <<id, id>>
    BY <2>1
  <2>2. CASE \E i \in DOMAIN s : a = <<Numbered(i), PhaseIds(s)[i]>>
    BY <1>1, <1>2, <2>2
  <2> QED
    BY <2>1, <2>2, DocumentAliases
<1>3. ASSUME NEW id \in names PROVE id \in ResolvedIds(Compiled(s), names)
  <2>1. <<id, id>> \in Aliases(Compiled(s))
    BY DocumentAliases
  <2>2. <<id, id>>[1] = id /\ <<id, id>>[2] = id
    OBVIOUS
  <2> QED
    BY <2>1, <2>2 DEF ResolvedIds
<1>4. ASSUME NEW id \in ResolvedIds(Compiled(s), names) PROVE id \in names
  <2>1. PICK a \in Aliases(Compiled(s)) : a[1] \in names /\ id = a[2]
    BY DEF ResolvedIds
  <2> QED
    BY <1>2, <2>1
<1> QED
  BY <1>3, <1>4

\* What a step or a task waits for, and asks for, are ids.
LEMMA AsksForIds ==
  ASSUME NEW s \in Seq(StepForms)
  PROVE  /\ \A i \in DOMAIN s :
              /\ Dependencies(s, i) \subseteq IdsIn(s)
              /\ StepRequest(s, i) # NotGiven => StepRequest(s, i) \subseteq IdsIn(s)
         /\ \A i \in DOMAIN s : \A j \in DOMAIN s[i].tasks :
              /\ TaskDependencies(s, i, j) \subseteq IdsIn(s)
              /\ TaskRequest(s, i, j) # NotGiven => TaskRequest(s, i, j) \subseteq IdsIn(s)
<1>1. ASSUME NEW numbers PROVE PhasesNumbered(s, numbers) \subseteq IdsIn(s)
  BY DEF PhasesNumbered, IdsIn
<1> QED
  BY <1>1, ResolvedAreIds DEF Dependencies, StepRequest, TaskDependencies, TaskRequest

\* A document asks for what its source asks for.
LEMMA DocumentAsks ==
  ASSUME NEW s \in Seq(StepForms)
  PROVE  /\ \A i \in DOMAIN s :
              /\ Dependencies(Compiled(s), i) = Dependencies(s, i)
              /\ StepRequest(Compiled(s), i) = StepRequest(s, i)
         /\ \A i \in DOMAIN s : \A j \in DOMAIN s[i].tasks :
              /\ TaskDependencies(Compiled(s), i, j) = TaskDependencies(s, i, j)
              /\ TaskRequest(Compiled(s), i, j) = TaskRequest(s, i, j)
<1> PICK d : d = Compiled(s)
  OBVIOUS
<1>1. ASSUME NEW names, names \subseteq IdsIn(s) PROVE ResolvedIds(d, names) = names
  BY <1>1, DocumentResolves
<1>2. ASSUME NEW i \in DOMAIN s
      PROVE  /\ Dependencies(d, i) = Dependencies(s, i)
             /\ StepRequest(d, i) = StepRequest(s, i)
  <2>1. d[i].deps = Dependencies(s, i) /\ d[i].refs = NotGiven /\ d[i].request = StepRequest(s, i)
    BY DocumentShape
  <2>2. Dependencies(d, i) = Dependencies(s, i)
    <3>1. Dependencies(s, i) \subseteq IdsIn(s)
      BY AsksForIds
    <3>2. Dependencies(d, i) = ResolvedIds(d, Dependencies(s, i))
      BY <2>1 DEF Dependencies
    <3> QED
      BY <1>1, <3>1, <3>2
  <2>3. StepRequest(d, i) = StepRequest(s, i)
    <3>1. StepRequest(d, i) = IF StepRequest(s, i) = NotGiven THEN NotGiven
                              ELSE ResolvedIds(d, StepRequest(s, i))
      BY <2>1 DEF StepRequest
    <3>2. StepRequest(s, i) # NotGiven => StepRequest(s, i) \subseteq IdsIn(s)
      BY AsksForIds
    <3> QED
      BY <1>1, <3>1, <3>2
  <2> QED
    BY <2>2, <2>3
<1>3. ASSUME NEW i \in DOMAIN s, NEW j \in DOMAIN s[i].tasks
      PROVE  /\ TaskDependencies(d, i, j) = TaskDependencies(s, i, j)
             /\ TaskRequest(d, i, j) = TaskRequest(s, i, j)
  <2>1. d[i].tasks[j].deps = TaskDependencies(s, i, j) /\ d[i].tasks[j].request = TaskRequest(s, i, j)
    BY DocumentShape
  <2>2. TaskDependencies(d, i, j) = TaskDependencies(s, i, j)
    <3>1. TaskDependencies(s, i, j) \subseteq IdsIn(s)
      BY AsksForIds
    <3>2. TaskDependencies(d, i, j) = ResolvedIds(d, TaskDependencies(s, i, j))
      BY <2>1 DEF TaskDependencies
    <3> QED
      BY <1>1, <3>1, <3>2
  <2>3. TaskRequest(d, i, j) = TaskRequest(s, i, j)
    <3>1. TaskRequest(d, i, j) = IF TaskRequest(s, i, j) = NotGiven THEN NotGiven
                                 ELSE ResolvedIds(d, TaskRequest(s, i, j))
      BY <2>1 DEF TaskRequest
    <3>2. TaskRequest(s, i, j) # NotGiven => TaskRequest(s, i, j) \subseteq IdsIn(s)
      BY AsksForIds
    <3> QED
      BY <1>1, <3>1, <3>2
  <2> QED
    BY <2>2, <2>3
<1> QED
  BY <1>2, <1>3

LEMMA DocumentIsUnambiguous ==
  ASSUME NEW s \in Seq(StepForms), Unambiguous(s)
  PROVE  Unambiguous(Compiled(s))
<1> PICK d : d = Compiled(s)
  OBVIOUS
<1>1. \A id \in IdsIn(s) : \A i : id # Numbered(i)
  BY IdTypes, SanitizedAreGiven
<1>2. ASSUME NEW a \in Aliases(d), NEW b \in Aliases(d), a[1] = b[1] PROVE a[2] = b[2]
  <2>1. \/ \E id \in IdsIn(s) : a = <<id, id>>
        \/ \E i \in DOMAIN s : a = <<Numbered(i), PhaseIds(s)[i]>>
    BY DocumentAliases
  <2>2. \/ \E id \in IdsIn(s) : b = <<id, id>>
        \/ \E i \in DOMAIN s : b = <<Numbered(i), PhaseIds(s)[i]>>
    BY DocumentAliases
  <2>3. \A i, j : Numbered(i) = Numbered(j) => i = j
    BY DEF Numbered
  <2> QED
    BY <1>1, <1>2, <2>1, <2>2, <2>3
<1>3. ASSUME NEW k \in TaskSpots(d), NEW l \in TaskSpots(d), TaskId(d[k[1]], k[2]) = TaskId(d[l[1]], l[2])
      PROVE  k = l
  <2>1. k \in TaskSpots(s) /\ l \in TaskSpots(s)
    BY DocumentShape
  <2>2. TaskId(s[k[1]], k[2]) = TaskId(s[l[1]], l[2])
    BY <1>3, <2>1, DocumentIds
  <2> QED
    BY <2>1, <2>2 DEF Unambiguous
<1>4. ASSUME NEW a \in PhaseAliases(d) PROVE a[1] \notin TaskIds(d)
  <2>1. TaskIds(d) = TaskIds(s) /\ TaskIds(s) \subseteq IdsIn(s)
    BY DocumentIds DEF IdsIn
  <2>2. PICK i \in DOMAIN d :
          a[1] \in {Numbered(NumberOf(d, i)), PhaseIds(d)[i], d[i].id} \ {NotGiven}
    BY DEF PhaseAliases
  <2>3. i \in DOMAIN s /\ PhaseIds(d)[i] = PhaseIds(s)[i] /\ d[i].id = PhaseIds(s)[i]
    BY DocumentShape, DocumentIds
  <2>4. CASE a[1] = Numbered(NumberOf(d, i))
    BY <1>1, <2>1, <2>4
  <2>5. CASE a[1] = PhaseIds(s)[i]
    <3>1. PhaseIds(s)[i] # NotGiven
      BY <2>3, IdTypes, SanitizedAreGiven
    <3>2. <<PhaseIds(s)[i], PhaseIds(s)[i]>> \in PhaseAliases(s)
      BY <2>3, <3>1 DEF PhaseAliases
    <3>3. <<PhaseIds(s)[i], PhaseIds(s)[i]>>[1] \notin TaskIds(s)
      BY <3>2 DEF Unambiguous
    <3> QED
      BY <2>1, <2>5, <3>3
  <2> QED
    BY <2>2, <2>3, <2>4, <2>5
<1> QED
  BY <1>2, <1>3, <1>4 DEF Unambiguous

LEMMA DocumentWaits ==
  ASSUME NEW s \in Seq(StepForms), NEW id
  PROVE  WaitsFor(Compiled(s), id) = WaitsFor(s, id)
<1> PICK d : d = Compiled(s)
  OBVIOUS
<1>1. DOMAIN d = DOMAIN s /\ TaskSpots(d) = TaskSpots(s) /\ PhaseIds(d) = PhaseIds(s)
  BY DocumentShape, DocumentIds
<1>2. ASSUME NEW i \in DOMAIN s PROVE PhaseWaitsFor(d, i) = PhaseWaitsFor(s, i)
  <2>1. DOMAIN d[i].tasks = DOMAIN s[i].tasks /\ Dependencies(d, i) = Dependencies(s, i)
    BY DocumentShape, DocumentAsks
  <2>2. ASSUME NEW j \in DOMAIN s[i].tasks PROVE TaskId(d[i], j) = TaskId(s[i], j)
    <3>1. <<i, j>> \in TaskSpots(s)
      BY DEF TaskSpots
    <3>2. TaskId(d[<<i, j>>[1]], <<i, j>>[2]) = TaskId(s[<<i, j>>[1]], <<i, j>>[2])
      BY <3>1, DocumentIds
    <3> QED
      BY <3>2
  <2> QED
    BY <2>1, <2>2 DEF PhaseWaitsFor
<1>3. ASSUME NEW k \in TaskSpots(s)
      PROVE  /\ TaskWaitsFor(d, k[1], k[2]) = TaskWaitsFor(s, k[1], k[2])
             /\ TaskId(d[k[1]], k[2]) = TaskId(s[k[1]], k[2])
  <2>1. k[1] \in DOMAIN s /\ k[2] \in DOMAIN s[k[1]].tasks
    BY SpotPlaces
  <2> QED
    BY <2>1, DocumentAsks, DocumentIds DEF TaskWaitsFor
<1>4. {k \in DOMAIN d : PhaseIds(d)[k] = id} = {k \in DOMAIN s : PhaseIds(s)[k] = id}
  BY <1>1
<1>5. {l \in TaskSpots(d) : TaskId(d[l[1]], l[2]) = id} = {l \in TaskSpots(s) : TaskId(s[l[1]], l[2]) = id}
  BY <1>1, <1>3
<1>6. {PhaseWaitsFor(d, i) : i \in {k \in DOMAIN d : PhaseIds(d)[k] = id}} =
        {PhaseWaitsFor(s, i) : i \in {k \in DOMAIN s : PhaseIds(s)[k] = id}}
  BY <1>2, <1>4
<1>7. {TaskWaitsFor(d, k[1], k[2]) : k \in {l \in TaskSpots(d) : TaskId(d[l[1]], l[2]) = id}} =
        {TaskWaitsFor(s, k[1], k[2]) : k \in {l \in TaskSpots(s) : TaskId(s[l[1]], l[2]) = id}}
  BY <1>3, <1>5
<1> QED
  BY <1>6, <1>7 DEF WaitsFor

\* What was accepted is accepted again when it is read back.
LEMMA DocumentIsAccepted ==
  ASSUME NEW s \in Seq(StepForms), Accepted(s)
  PROVE  Accepted(Compiled(s))
<1> PICK d : d = Compiled(s)
  OBVIOUS
<1>1. Unambiguous(d)
  BY DocumentIsUnambiguous DEF Accepted
<1>2. IdsIn(s) \subseteq KnownNames(d)
  <2>1. ASSUME NEW id \in IdsIn(s) PROVE id \in KnownNames(d)
    <3>1. <<id, id>> \in Aliases(d)
      BY DocumentAliases
    <3>2. <<id, id>>[1] = id
      OBVIOUS
    <3> QED
      BY <3>1, <3>2 DEF KnownNames
  <2> QED
    BY <2>1
<1>3. \A i \in DOMAIN d :
        /\ i \in DOMAIN s /\ d[i].refs = NotGiven
        /\ d[i].deps = Dependencies(s, i) /\ d[i].request = StepRequest(s, i)
  BY DocumentShape
<1>4. \A k \in TaskSpots(d) :
        /\ k[1] \in DOMAIN s /\ k[2] \in DOMAIN s[k[1]].tasks
        /\ d[k[1]].tasks[k[2]].deps = TaskDependencies(s, k[1], k[2])
        /\ d[k[1]].tasks[k[2]].request = TaskRequest(s, k[1], k[2])
  <2>1. ASSUME NEW k \in TaskSpots(d) PROVE k[1] \in DOMAIN s /\ k[2] \in DOMAIN s[k[1]].tasks
    <3>1. k \in TaskSpots(s)
      BY DocumentShape
    <3> QED
      BY <3>1, SpotPlaces
  <2> QED
    BY <2>1, DocumentShape
<1>5. AllNamesKnown(d)
  <2>1. \A i \in DOMAIN d : d[i].deps \subseteq KnownNames(d)
    BY <1>2, <1>3, AsksForIds
  <2>2. \A i \in DOMAIN d : d[i].request # NotGiven => d[i].request \subseteq KnownNames(d)
    BY <1>2, <1>3, AsksForIds
  <2>3. \A k \in TaskSpots(d) :
          LET task == d[k[1]].tasks[k[2]]
          IN  /\ task.deps \subseteq KnownNames(d)
              /\ task.request # NotGiven => task.request \subseteq KnownNames(d)
    BY <1>2, <1>4, AsksForIds
  <2> QED
    BY <2>1, <2>2, <2>3 DEF AllNamesKnown
<1>6. RetrievalStepsAreWhole(d)
  BY <1>3 DEF RetrievalStepsAreWhole
<1>7. RequestsAreDeclared(d)
  <2>1. \A i \in DOMAIN d : StepRequest(d, i) # NotGiven => StepRequest(d, i) \subseteq Dependencies(d, i)
    BY <1>3, DocumentAsks DEF Accepted, RequestsAreDeclared
  <2>2. ASSUME NEW k \in TaskSpots(d), TaskRequest(d, k[1], k[2]) # NotGiven
        PROVE  TaskRequest(d, k[1], k[2]) \subseteq TaskDependencies(d, k[1], k[2]) \cup Dependencies(d, k[1])
    <3>1. k \in TaskSpots(s)
      BY DocumentShape
    <3>2. TaskRequest(s, k[1], k[2]) # NotGiven =>
            TaskRequest(s, k[1], k[2]) \subseteq TaskDependencies(s, k[1], k[2]) \cup Dependencies(s, k[1])
      BY <3>1 DEF Accepted, RequestsAreDeclared
    <3> QED
      BY <1>4, <2>2, <3>2, DocumentAsks
  <2> QED
    BY <2>1, <2>2 DEF RequestsAreDeclared
<1>8. NoCycle(d)
  <2>1. \A id : WaitsFor(d, id) = WaitsFor(s, id)
    BY DocumentWaits
  <2>2. {PhaseIds(d)[i] : i \in DOMAIN d} = {PhaseIds(s)[i] : i \in DOMAIN s} /\ TaskIds(d) = TaskIds(s)
    BY DocumentIds, DocumentShape
  <2>3. NoCycle(s)
    BY DEF Accepted
  <2> QED
    BY <2>1, <2>2, <2>3 DEF NoCycle
<1> QED
  BY <1>1, <1>5, <1>6, <1>7, <1>8 DEF Accepted

LEMMA CompiledTwice ==
  ASSUME NEW s \in Seq(StepForms)
  PROVE  Compiled(Compiled(s)) = Compiled(s)
<1> PICK d : d = Compiled(s)
  OBVIOUS
<1>1. DOMAIN d = DOMAIN s
  BY DocumentShape
<1>2. ASSUME NEW i \in DOMAIN s
      PROVE  [j \in DOMAIN d[i].tasks |->
               [id |-> TaskId(d[i], j), deps |-> TaskDependencies(d, i, j), camel |-> FALSE,
                request |-> TaskRequest(d, i, j)]] =
             [j \in DOMAIN s[i].tasks |->
               [id |-> TaskId(s[i], j), deps |-> TaskDependencies(s, i, j), camel |-> FALSE,
                request |-> TaskRequest(s, i, j)]]
  <2>1. DOMAIN d[i].tasks = DOMAIN s[i].tasks
    BY DocumentShape
  <2>2. ASSUME NEW j \in DOMAIN s[i].tasks
        PROVE  /\ TaskId(d[i], j) = TaskId(s[i], j)
               /\ TaskDependencies(d, i, j) = TaskDependencies(s, i, j)
               /\ TaskRequest(d, i, j) = TaskRequest(s, i, j)
    <3>1. <<i, j>> \in TaskSpots(s)
      BY DEF TaskSpots
    <3>2. TaskId(d[<<i, j>>[1]], <<i, j>>[2]) = TaskId(s[<<i, j>>[1]], <<i, j>>[2])
      BY <3>1, DocumentIds
    <3>3. TaskDependencies(d, i, j) = TaskDependencies(s, i, j) /\ TaskRequest(d, i, j) = TaskRequest(s, i, j)
      BY DocumentAsks
    <3> QED
      BY <3>2, <3>3
  <2> QED
    BY <2>1, <2>2
<1>3. ASSUME NEW i \in DOMAIN s
      PROVE  /\ PhaseIds(d)[i] = PhaseIds(s)[i] /\ d[i].title = s[i].title
             /\ Dependencies(d, i) = Dependencies(s, i) /\ StepRequest(d, i) = StepRequest(s, i)
  <2>1. d[i].title = s[i].title
    BY DEF Compiled
  <2> QED
    BY <2>1, DocumentIds, DocumentAsks
<1>4. ASSUME NEW i \in DOMAIN s PROVE Compiled(d)[i] = Compiled(s)[i]
  BY <1>1, <1>2, <1>3 DEF Compiled
<1>5. Compiled(d) = [i \in DOMAIN d |-> Compiled(d)[i]] /\ Compiled(s) = [i \in DOMAIN s |-> Compiled(s)[i]]
  BY DEF Compiled
<1> QED
  BY <1>1, <1>4, <1>5

\* The workflow of a document is that of its source.
LEMMA SamePhases ==
  ASSUME NEW s \in Seq(StepForms), SpelledAsRead(s)
  PROVE  PhasesOf(Compiled(s)) = PhasesOf(s)
<1> PICK d : d = Compiled(s)
  OBVIOUS
<1>1. DOMAIN d = DOMAIN s /\ Compiled(d) = d
  BY DocumentShape, CompiledTwice
<1>2. ASSUME NEW i \in DOMAIN s PROVE DepsRead(d[i], d[i]) = DepsRead(s[i], d[i])
  BY DocumentShape DEF DepsRead, SpelledAsRead
<1>3. ASSUME NEW i \in DOMAIN s PROVE TasksOfStep(d[i], d[i]) = TasksOfStep(s[i], d[i])
  <2>1. \A j \in DOMAIN d[i].tasks : j \in DOMAIN s[i].tasks /\ ~d[i].tasks[j].camel /\ ~s[i].tasks[j].camel
    BY DocumentShape DEF SpelledAsRead
  <2>2. \A j \in DOMAIN d[i].tasks :
          DepsRead(d[i].tasks[j], d[i].tasks[j]) = DepsRead(s[i].tasks[j], d[i].tasks[j])
    BY <2>1 DEF DepsRead
  <2> QED
    BY <1>2, <2>2 DEF TasksOfStep
<1> QED
  BY <1>1, <1>2, <1>3 DEF PhasesOf

\* What the phases of a plan are made of.
LEMMA PhasesShape ==
  ASSUME NEW s \in Seq(StepForms), SpelledAsRead(s)
  PROVE  /\ DOMAIN PhasesOf(s) = DOMAIN s
         /\ \A i \in DOMAIN s :
              /\ PhasesOf(s)[i].id = PhaseIds(s)[i]
              /\ PhasesOf(s)[i].deps = Dependencies(s, i)
              /\ s[i].tasks = <<>> =>
                   PhasesOf(s)[i].tasks =
                     <<[id |-> PhaseIds(s)[i], deps |-> Dependencies(s, i), request |-> StepRequest(s, i)]>>
              /\ s[i].tasks # <<>> => DOMAIN PhasesOf(s)[i].tasks = DOMAIN s[i].tasks
         /\ \A i \in DOMAIN s : \A j \in DOMAIN s[i].tasks :
              s[i].tasks # <<>> =>
                PhasesOf(s)[i].tasks[j] =
                  [id |-> TaskId(s[i], j), request |-> TaskRequest(s, i, j), deps |-> TaskDependencies(s, i, j)]
<1> PICK d : d = Compiled(s)
  OBVIOUS
<1>1. DOMAIN PhasesOf(s) = DOMAIN s
  BY DEF PhasesOf
<1>2. ASSUME NEW i \in DOMAIN s
      PROVE  /\ PhasesOf(s)[i].id = d[i].id /\ PhasesOf(s)[i].deps = DepsRead(s[i], d[i])
             /\ PhasesOf(s)[i].tasks = TasksOfStep(s[i], d[i])
  BY DEF PhasesOf
<1>3. ASSUME NEW i \in DOMAIN s
      PROVE  d[i].id = PhaseIds(s)[i] /\ DepsRead(s[i], d[i]) = Dependencies(s, i)
  BY DocumentShape DEF DepsRead, SpelledAsRead
<1>4. ASSUME NEW i \in DOMAIN s, s[i].tasks = <<>>
      PROVE  TasksOfStep(s[i], d[i]) =
               <<[id |-> PhaseIds(s)[i], deps |-> Dependencies(s, i), request |-> StepRequest(s, i)]>>
  <2>1. d[i].tasks = <<>> /\ d[i].request = StepRequest(s, i)
    BY <1>4, DocumentShape
  <2> QED
    BY <1>3, <2>1 DEF TasksOfStep
<1>5. ASSUME NEW i \in DOMAIN s, s[i].tasks # <<>>
      PROVE  TasksOfStep(s[i], d[i]) =
               [j \in DOMAIN s[i].tasks |->
                 [id |-> TaskId(s[i], j), request |-> TaskRequest(s, i, j), deps |-> TaskDependencies(s, i, j)]]
  <2>1. d[i].tasks # <<>> /\ DOMAIN d[i].tasks = DOMAIN s[i].tasks
    BY <1>5, DocumentShape
  <2>2. ASSUME NEW j \in DOMAIN s[i].tasks
        PROVE  /\ d[i].tasks[j].id = TaskId(s[i], j) /\ d[i].tasks[j].request = TaskRequest(s, i, j)
               /\ DepsRead(s[i].tasks[j], d[i].tasks[j]) = TaskDependencies(s, i, j)
    BY DocumentShape DEF DepsRead, SpelledAsRead
  <2> QED
    BY <2>1, <2>2 DEF TasksOfStep
<1>6. ASSUME NEW i \in DOMAIN s, s[i].tasks = <<>>
      PROVE  PhasesOf(s)[i].tasks =
               <<[id |-> PhaseIds(s)[i], deps |-> Dependencies(s, i), request |-> StepRequest(s, i)]>>
  BY <1>2, <1>4, <1>6
<1>7. ASSUME NEW i \in DOMAIN s, s[i].tasks # <<>>
      PROVE  /\ DOMAIN PhasesOf(s)[i].tasks = DOMAIN s[i].tasks
             /\ \A j \in DOMAIN s[i].tasks :
                  PhasesOf(s)[i].tasks[j] =
                    [id |-> TaskId(s[i], j), request |-> TaskRequest(s, i, j), deps |-> TaskDependencies(s, i, j)]
  <2>1. PhasesOf(s)[i].tasks =
          [j \in DOMAIN s[i].tasks |->
            [id |-> TaskId(s[i], j), request |-> TaskRequest(s, i, j), deps |-> TaskDependencies(s, i, j)]]
    BY <1>2, <1>5, <1>7
  <2> QED
    BY <2>1
<1>8. ASSUME NEW i \in DOMAIN s
      PROVE  PhasesOf(s)[i].id = PhaseIds(s)[i] /\ PhasesOf(s)[i].deps = Dependencies(s, i)
  BY <1>2, <1>3
<1> QED
  BY <1>1, <1>6, <1>7, <1>8

-----------------------------------------------------------------------------
(***************************************************************************)
(* The plan compiler: what is started.  Workable says of the phases of a   *)
(* workflow, by their ids, what WorkflowPlan says of nodes.                *)
(***************************************************************************)
TaskAt(ps, k) == ps[k[1]].tasks[k[2]]

AllIds(ps) == {ps[i].id : i \in DOMAIN ps} \cup {TaskAt(ps, k).id : k \in TaskSpots(ps)}

\* x waits for y, as a phase or as a task.
PhaseNeeds(ps, i, y) ==
  y \in ps[i].deps \/ (y # ps[i].id /\ \E j \in DOMAIN ps[i].tasks : ps[i].tasks[j].id = y)
TaskNeeds(ps, k, y) == y \in TaskAt(ps, k).deps \/ y \in ps[k[1]].deps

Needs(ps, x, y) ==
  \/ \E i \in DOMAIN ps : ps[i].id = x /\ PhaseNeeds(ps, i, y)
  \/ \E k \in TaskSpots(ps) : TaskAt(ps, k).id = x /\ TaskNeeds(ps, k, y)

HasShape(ps) ==
  /\ Len(ps) \in Nat \ {0} /\ DOMAIN ps = 1 .. Len(ps)
  /\ \A i \in DOMAIN ps : \E n \in Nat \ {0} : DOMAIN ps[i].tasks = 1 .. n

Refers(ps) ==
  /\ AllIds(ps) \subseteq Sanitized
  /\ \A i \in DOMAIN ps : ps[i].deps \subseteq AllIds(ps)
  /\ \A k \in TaskSpots(ps) :
       /\ TaskAt(ps, k).deps \subseteq AllIds(ps)
       /\ TaskAt(ps, k).request # NotGiven =>
            TaskAt(ps, k).request \subseteq TaskAt(ps, k).deps \cup ps[k[1]].deps

TellsApart(ps) ==
  /\ \A i, j \in DOMAIN ps : ps[i].id = ps[j].id => i = j
  /\ \A k, l \in TaskSpots(ps) : TaskAt(ps, k).id = TaskAt(ps, l).id => k = l
  /\ \A i \in DOMAIN ps : \A k \in TaskSpots(ps) : TaskAt(ps, k).id = ps[i].id => k[1] = i

Ends(ps) ==
  \A S \in SUBSET AllIds(ps) : S # {} => \E x \in S : \A y \in S : ~Needs(ps, x, y)

Workable(ps) == HasShape(ps) /\ Refers(ps) /\ TellsApart(ps) /\ Ends(ps)

\* A task of the workflow is one of the plan, or the one made up for its step.
LEMMA TasksStarted ==
  ASSUME NEW s \in Seq(StepForms), SpelledAsRead(s), NEW k \in TaskSpots(PhasesOf(s))
  PROVE  /\ k[1] \in DOMAIN s /\ k = <<k[1], k[2]>>
         /\ \/ /\ s[k[1]].tasks = <<>> /\ k[2] = 1
               /\ TaskAt(PhasesOf(s), k) =
                    [id |-> PhaseIds(s)[k[1]], deps |-> Dependencies(s, k[1]), request |-> StepRequest(s, k[1])]
            \/ /\ s[k[1]].tasks # <<>> /\ k \in TaskSpots(s) /\ k[2] \in DOMAIN s[k[1]].tasks
               /\ TaskAt(PhasesOf(s), k) =
                    [id |-> TaskId(s[k[1]], k[2]), request |-> TaskRequest(s, k[1], k[2]),
                     deps |-> TaskDependencies(s, k[1], k[2])]
<1> PICK ps : ps = PhasesOf(s)
  OBVIOUS
<1>1. PICK i \in DOMAIN ps : k \in {<<i, j>> : j \in DOMAIN ps[i].tasks}
  BY DEF TaskSpots
<1>2. PICK j \in DOMAIN ps[i].tasks : k = <<i, j>>
  BY <1>1
<1>3. i \in DOMAIN s /\ k[1] = i /\ k[2] = j
  BY <1>2, PhasesShape
<1>4. CASE s[i].tasks = <<>>
  <2>1. PICK t : t = [id |-> PhaseIds(s)[i], deps |-> Dependencies(s, i), request |-> StepRequest(s, i)]
    OBVIOUS
  <2>2. ps[i].tasks = <<t>>
    BY <1>3, <1>4, <2>1, PhasesShape
  <2>3. j = 1 /\ <<t>>[1] = t
    BY <1>2, <2>2
  <2> QED
    BY <1>2, <1>3, <1>4, <2>1, <2>2, <2>3 DEF TaskAt
<1>5. CASE s[i].tasks # <<>>
  <2>1. j \in DOMAIN s[i].tasks
    BY <1>2, <1>3, <1>5, PhasesShape
  <2>2. k \in TaskSpots(s)
    BY <1>2, <1>3, <2>1 DEF TaskSpots
  <2>3. ps[i].tasks[j] = [id |-> TaskId(s[i], j), request |-> TaskRequest(s, i, j), deps |-> TaskDependencies(s, i, j)]
    BY <1>3, <1>5, <2>1, PhasesShape
  <2> QED
    BY <1>2, <1>3, <1>5, <2>1, <2>2, <2>3 DEF TaskAt
<1> QED
  BY <1>4, <1>5

LEMMA StartedShape ==
  ASSUME NEW s \in Seq(StepForms), s # <<>>, SpelledAsRead(s)
  PROVE  HasShape(PhasesOf(s))
<1> PICK ps : ps = PhasesOf(s)
  OBVIOUS
<1>1. DOMAIN ps = 1 .. Len(s) /\ Len(s) \in Nat \ {0}
  <2>1. DOMAIN s = 1 .. Len(s) /\ Len(s) \in Nat \ {0}
    OBVIOUS
  <2> QED
    BY <2>1, PhasesShape
<1>2. Len(ps) = Len(s)
  <2>1. PICK D : D = {ps[i] : i \in 1 .. Len(s)}
    OBVIOUS
  <2>2. ps = [i \in 1 .. Len(s) |-> ps[i]]
    BY <1>1 DEF PhasesOf
  <2>3. ps \in [1 .. Len(s) -> D]
    BY <2>1, <2>2
  <2>4. ps \in Seq(D)
    BY <1>1, <2>3
  <2> QED
    BY <1>1, <2>4
<1>3. ASSUME NEW i \in DOMAIN ps PROVE \E n \in Nat \ {0} : DOMAIN ps[i].tasks = 1 .. n
  <2>1. i \in DOMAIN s
    BY PhasesShape
  <2>2. CASE s[i].tasks = <<>>
    <3>1. PICK t : t = [id |-> PhaseIds(s)[i], deps |-> Dependencies(s, i), request |-> StepRequest(s, i)]
      OBVIOUS
    <3>2. ps[i].tasks = <<t>>
      BY <2>1, <2>2, <3>1, PhasesShape
    <3>3. DOMAIN <<t>> = 1 .. 1 /\ 1 \in Nat \ {0}
      OBVIOUS
    <3> QED
      BY <3>2, <3>3
  <2>3. CASE s[i].tasks # <<>>
    <3>1. s[i].tasks \in Seq(TaskForms)
      BY <2>1, StepTypes
    <3>2. Len(s[i].tasks) \in Nat \ {0} /\ DOMAIN s[i].tasks = 1 .. Len(s[i].tasks)
      BY <2>3, <3>1
    <3>3. DOMAIN ps[i].tasks = DOMAIN s[i].tasks
      <4>1. \A k \in DOMAIN s : s[k].tasks # <<>> => DOMAIN PhasesOf(s)[k].tasks = DOMAIN s[k].tasks
        BY PhasesShape
      <4> QED
        BY <2>1, <2>3, <4>1
    <3>4. PICK n \in Nat \ {0} : n = Len(s[i].tasks)
      BY <3>2
    <3> QED
      BY <3>2, <3>3, <3>4
  <2> QED
    BY <2>2, <2>3
<1> QED
  BY <1>1, <1>2, <1>3 DEF HasShape

\* The ids of what is started are those the compiler gave out.
LEMMA StartedIds ==
  ASSUME NEW s \in Seq(StepForms), SpelledAsRead(s)
  PROVE  AllIds(PhasesOf(s)) = IdsIn(s)
<1> PICK ps : ps = PhasesOf(s)
  OBVIOUS
<1>1. ASSUME NEW i \in DOMAIN s PROVE i \in DOMAIN ps /\ ps[i].id = PhaseIds(s)[i]
  BY PhasesShape
<1>2. ASSUME NEW k \in TaskSpots(ps) PROVE TaskAt(ps, k).id \in IdsIn(s)
  <2>1. CASE s[k[1]].tasks = <<>>
    BY <2>1, TasksStarted DEF IdsIn
  <2>2. CASE s[k[1]].tasks # <<>>
    BY <2>2, TasksStarted DEF IdsIn, TaskIds
  <2> QED
    BY <2>1, <2>2
<1>3. ASSUME NEW k \in TaskSpots(s) PROVE TaskId(s[k[1]], k[2]) \in AllIds(ps)
  <2>1. k = <<k[1], k[2]>> /\ k[1] \in DOMAIN s /\ k[2] \in DOMAIN s[k[1]].tasks
    BY TaskTypes, SpotPlaces
  <2>2. s[k[1]].tasks # <<>>
    BY <2>1
  <2>3. k[1] \in DOMAIN ps /\ k[2] \in DOMAIN ps[k[1]].tasks
    BY <2>1, <2>2, PhasesShape
  <2>4. k \in TaskSpots(ps)
    BY <2>1, <2>3 DEF TaskSpots
  <2>5. TaskAt(ps, k).id = TaskId(s[k[1]], k[2])
    BY <2>2, <2>4, TasksStarted
  <2> QED
    BY <2>4, <2>5 DEF AllIds
<1>4. DOMAIN ps = DOMAIN s
  BY PhasesShape
<1>5. ASSUME NEW x \in AllIds(ps) PROVE x \in IdsIn(s)
  <2>1. CASE \E i \in DOMAIN ps : x = ps[i].id
    BY <1>1, <1>4, <2>1 DEF IdsIn
  <2>2. CASE \E k \in TaskSpots(ps) : x = TaskAt(ps, k).id
    BY <1>2, <2>2
  <2> QED
    BY <2>1, <2>2 DEF AllIds
<1>6. ASSUME NEW x \in IdsIn(s) PROVE x \in AllIds(ps)
  <2>1. CASE \E i \in DOMAIN s : x = PhaseIds(s)[i]
    BY <1>1, <2>1 DEF AllIds
  <2>2. CASE \E k \in TaskSpots(s) : x = TaskId(s[k[1]], k[2])
    BY <1>3, <2>2
  <2> QED
    BY <2>1, <2>2 DEF IdsIn, TaskIds
<1> QED
  BY <1>5, <1>6

LEMMA StartedRefers ==
  ASSUME NEW s \in Seq(StepForms), SpelledAsRead(s), Accepted(s)
  PROVE  Refers(PhasesOf(s))
<1> PICK ps : ps = PhasesOf(s)
  OBVIOUS
<1>1. AllIds(ps) = IdsIn(s) /\ IdsIn(s) \subseteq Sanitized
  BY StartedIds, IdTypes
<1>2. ASSUME NEW i \in DOMAIN ps PROVE ps[i].deps \subseteq IdsIn(s)
  <2>1. i \in DOMAIN s /\ ps[i].deps = Dependencies(s, i)
    BY PhasesShape
  <2> QED
    BY <2>1, AsksForIds
<1>3. ASSUME NEW k \in TaskSpots(ps)
      PROVE  /\ TaskAt(ps, k).deps \subseteq IdsIn(s)
             /\ TaskAt(ps, k).request # NotGiven =>
                  TaskAt(ps, k).request \subseteq TaskAt(ps, k).deps \cup ps[k[1]].deps
  <2>1. k[1] \in DOMAIN s /\ ps[k[1]].deps = Dependencies(s, k[1])
    BY TasksStarted, PhasesShape
  <2>2. CASE s[k[1]].tasks = <<>>
    <3>1. /\ TaskAt(ps, k).deps = Dependencies(s, k[1])
          /\ TaskAt(ps, k).request = StepRequest(s, k[1])
      BY <2>2, TasksStarted
    <3>2. StepRequest(s, k[1]) # NotGiven => StepRequest(s, k[1]) \subseteq Dependencies(s, k[1])
      BY <2>1 DEF Accepted, RequestsAreDeclared
    <3> QED
      BY <2>1, <3>1, <3>2, AsksForIds
  <2>3. CASE s[k[1]].tasks # <<>>
    <3>1. /\ TaskAt(ps, k).deps = TaskDependencies(s, k[1], k[2])
          /\ TaskAt(ps, k).request = TaskRequest(s, k[1], k[2])
          /\ k \in TaskSpots(s) /\ k[2] \in DOMAIN s[k[1]].tasks
      BY <2>3, TasksStarted
    <3>2. TaskRequest(s, k[1], k[2]) # NotGiven =>
            TaskRequest(s, k[1], k[2]) \subseteq TaskDependencies(s, k[1], k[2]) \cup Dependencies(s, k[1])
      BY <3>1 DEF Accepted, RequestsAreDeclared
    <3> QED
      BY <2>1, <3>1, <3>2, AsksForIds
  <2> QED
    BY <2>2, <2>3
<1> QED
  BY <1>1, <1>2, <1>3 DEF Refers

LEMMA NoSharedIds ==
  ASSUME NEW s \in Seq(StepForms), Unambiguous(s), NEW i \in DOMAIN s, NEW k \in TaskSpots(s)
  PROVE  PhaseIds(s)[i] # TaskId(s[k[1]], k[2])
<1>1. PICK id : id = PhaseIds(s)[i]
  OBVIOUS
<1>2. id # NotGiven
  BY <1>1, IdTypes, SanitizedAreGiven
<1>3. <<id, id>> \in PhaseAliases(s)
  BY <1>1, <1>2 DEF PhaseAliases
<1>4. <<id, id>>[1] \notin TaskIds(s)
  BY <1>3 DEF Unambiguous
<1>5. id \notin TaskIds(s)
  BY <1>4
<1> QED
  BY <1>1, <1>5 DEF TaskIds

LEMMA StartedTellsApart ==
  ASSUME NEW s \in Seq(StepForms), SpelledAsRead(s), Accepted(s)
  PROVE  TellsApart(PhasesOf(s))
<1> PICK ps : ps = PhasesOf(s)
  OBVIOUS
<1>1. DOMAIN ps = DOMAIN s /\ Unambiguous(s) /\ \A i \in DOMAIN s : ps[i].id = PhaseIds(s)[i]
  BY PhasesShape DEF Accepted
<1>2. ASSUME NEW i \in DOMAIN s, NEW j \in DOMAIN s, PhaseIds(s)[i] = PhaseIds(s)[j] PROVE i = j
  <2>1. Given(s) /\ DOMAIN s = 1 .. Len(s)
    BY SourceIsGiven
  <2> QED
    BY <1>2, <2>1, IdsDiffer
<1>3. ASSUME NEW k \in TaskSpots(ps), NEW l \in TaskSpots(ps), TaskAt(ps, k).id = TaskAt(ps, l).id
      PROVE  k = l
  <2>1. CASE s[k[1]].tasks = <<>> /\ s[l[1]].tasks = <<>>
    <3>1. TaskAt(ps, k).id = PhaseIds(s)[k[1]] /\ TaskAt(ps, l).id = PhaseIds(s)[l[1]]
      BY <2>1, TasksStarted
    <3>2. k[1] \in DOMAIN s /\ l[1] \in DOMAIN s /\ k[2] = 1 /\ l[2] = 1
          /\ k = <<k[1], k[2]>> /\ l = <<l[1], l[2]>>
      BY <2>1, TasksStarted
    <3>3. k[1] = l[1]
      BY <1>2, <1>3, <3>1, <3>2
    <3> QED
      BY <3>2, <3>3
  <2>2. CASE s[k[1]].tasks # <<>> /\ s[l[1]].tasks # <<>>
    <3>1. /\ TaskAt(ps, k).id = TaskId(s[k[1]], k[2]) /\ TaskAt(ps, l).id = TaskId(s[l[1]], l[2])
          /\ k \in TaskSpots(s) /\ l \in TaskSpots(s)
      BY <2>2, TasksStarted
    <3> QED
      BY <1>1, <1>3, <3>1 DEF Unambiguous
  <2>3. ASSUME NEW m \in TaskSpots(ps), NEW o \in TaskSpots(ps), s[m[1]].tasks = <<>>, s[o[1]].tasks # <<>>
        PROVE  TaskAt(ps, m).id # TaskAt(ps, o).id
    <3>1. TaskAt(ps, m).id = PhaseIds(s)[m[1]] /\ m[1] \in DOMAIN s
      BY <2>3, TasksStarted
    <3>2. TaskAt(ps, o).id = TaskId(s[o[1]], o[2]) /\ o \in TaskSpots(s)
      BY <2>3, TasksStarted
    <3> QED
      BY <1>1, <3>1, <3>2, NoSharedIds
  <2> QED
    BY <1>3, <2>1, <2>2, <2>3
<1>4. ASSUME NEW i \in DOMAIN ps, NEW k \in TaskSpots(ps), TaskAt(ps, k).id = ps[i].id
      PROVE  k[1] = i
  <2>1. CASE s[k[1]].tasks = <<>>
    <3>1. TaskAt(ps, k).id = PhaseIds(s)[k[1]] /\ k[1] \in DOMAIN s
      BY <2>1, TasksStarted
    <3> QED
      BY <1>1, <1>2, <1>4, <3>1
  <2>2. CASE s[k[1]].tasks # <<>>
    <3>1. TaskAt(ps, k).id = TaskId(s[k[1]], k[2]) /\ k \in TaskSpots(s)
      BY <2>2, TasksStarted
    <3>2. i \in DOMAIN s /\ TaskId(s[k[1]], k[2]) = PhaseIds(s)[i]
      BY <1>1, <1>4, <3>1
    <3>3. PhaseIds(s)[i] # TaskId(s[k[1]], k[2])
      BY <1>1, <3>1, <3>2, NoSharedIds
    <3> QED
      BY <3>2, <3>3
  <2> QED
    BY <2>1, <2>2
<1> QED
  BY <1>1, <1>2, <1>3, <1>4 DEF TellsApart

LEMMA WaitsOf ==
  ASSUME NEW s
  PROVE  /\ \A i \in DOMAIN s : PhaseWaitsFor(s, i) \subseteq WaitsFor(s, PhaseIds(s)[i])
         /\ \A k \in TaskSpots(s) : TaskWaitsFor(s, k[1], k[2]) \subseteq WaitsFor(s, TaskId(s[k[1]], k[2]))
BY DEF WaitsFor

LEMMA StartedEnds ==
  ASSUME NEW s \in Seq(StepForms), SpelledAsRead(s), Accepted(s)
  PROVE  Ends(PhasesOf(s))
<1> PICK ps : ps = PhasesOf(s)
  OBVIOUS
<1>1. ASSUME NEW i \in DOMAIN ps, NEW y, PhaseNeeds(ps, i, y) PROVE y \in WaitsFor(s, ps[i].id)
  <2>1. i \in DOMAIN s /\ ps[i].id = PhaseIds(s)[i] /\ ps[i].deps = Dependencies(s, i)
    BY PhasesShape
  <2>2. y \in PhaseWaitsFor(s, i)
    <3>1. CASE y \in ps[i].deps
      BY <2>1, <3>1 DEF PhaseWaitsFor
    <3>2. CASE y # ps[i].id /\ \E j \in DOMAIN ps[i].tasks : ps[i].tasks[j].id = y
      <4>1. PICK j \in DOMAIN ps[i].tasks : ps[i].tasks[j].id = y
        BY <3>2
      <4>2. PICK k : k = <<i, j>>
        OBVIOUS
      <4>3. k \in TaskSpots(ps) /\ k[1] = i /\ k[2] = j /\ TaskAt(ps, k).id = y
        BY <4>1, <4>2 DEF TaskSpots, TaskAt
      <4>4. s[i].tasks # <<>>
        <5>1. s[i].tasks = <<>> => TaskAt(ps, k).id = PhaseIds(s)[i]
          BY <4>3, TasksStarted
        <5> QED
          BY <2>1, <3>2, <4>3, <5>1
      <4>5. TaskAt(ps, k).id = TaskId(s[i], j) /\ j \in DOMAIN s[i].tasks
        BY <4>3, <4>4, TasksStarted
      <4> QED
        BY <4>3, <4>5 DEF PhaseWaitsFor
    <3> QED
      BY <1>1, <3>1, <3>2 DEF PhaseNeeds
  <2> QED
    BY <2>1, <2>2, WaitsOf
<1>2. ASSUME NEW k \in TaskSpots(ps), NEW y, TaskNeeds(ps, k, y) PROVE y \in WaitsFor(s, TaskAt(ps, k).id)
  <2>1. k[1] \in DOMAIN s /\ ps[k[1]].deps = Dependencies(s, k[1])
    BY TasksStarted, PhasesShape
  <2>2. CASE s[k[1]].tasks = <<>>
    <3>1. TaskAt(ps, k).id = PhaseIds(s)[k[1]] /\ TaskAt(ps, k).deps = Dependencies(s, k[1])
      BY <2>2, TasksStarted
    <3>2. y \in PhaseWaitsFor(s, k[1])
      BY <1>2, <2>1, <3>1 DEF TaskNeeds, PhaseWaitsFor
    <3> QED
      BY <2>1, <3>1, <3>2, WaitsOf
  <2>3. CASE s[k[1]].tasks # <<>>
    <3>1. /\ TaskAt(ps, k).id = TaskId(s[k[1]], k[2]) /\ k \in TaskSpots(s)
          /\ TaskAt(ps, k).deps = TaskDependencies(s, k[1], k[2])
      BY <2>3, TasksStarted
    <3>2. y \in TaskWaitsFor(s, k[1], k[2])
      BY <1>2, <2>1, <3>1 DEF TaskNeeds, TaskWaitsFor
    <3> QED
      BY <3>1, <3>2, WaitsOf
  <2> QED
    BY <2>2, <2>3
<1>3. ASSUME NEW x, NEW y, Needs(ps, x, y) PROVE y \in WaitsFor(s, x)
  BY <1>1, <1>2, <1>3 DEF Needs
<1>4. ASSUME NEW S \in SUBSET AllIds(ps), S # {} PROVE \E x \in S : \A y \in S : ~Needs(ps, x, y)
  <2>1. S \in SUBSET ({PhaseIds(s)[i] : i \in DOMAIN s} \cup TaskIds(s))
    BY StartedIds DEF IdsIn
  <2>2. {id \in S : WaitsFor(s, id) \cap S = {}} # {}
    BY <1>4, <2>1 DEF Accepted, NoCycle
  <2>3. PICK x \in S : WaitsFor(s, x) \cap S = {}
    BY <2>2
  <2> QED
    BY <1>3, <2>3
<1> QED
  BY <1>4 DEF Ends

LEMMA StartedIsWorkable ==
  ASSUME NEW s \in Seq(StepForms), s # <<>>, SpelledAsRead(s), Accepted(s)
  PROVE  Workable(PhasesOf(s))
BY StartedShape, StartedRefers, StartedTellsApart, StartedEnds DEF Workable

LEMMA NodePlaces ==
  ASSUME NEW ps, TellsApart(ps)
  PROVE  /\ \A i \in DOMAIN ps : PhaseNode(ps[i].id) \in PhaseNodes(ps) /\ PhaseAt(ps, PhaseNode(ps[i].id)) = i
         /\ \A k \in TaskSpots(ps) :
              /\ TaskNode(TaskAt(ps, k).id) \in TaskNodes(ps)
              /\ SpotOf(ps, TaskNode(TaskAt(ps, k).id)) = k
              /\ TaskOf(ps, TaskNode(TaskAt(ps, k).id)) = TaskAt(ps, k)
         /\ \A n \in PhaseNodes(ps) :
              PhaseAt(ps, n) \in DOMAIN ps /\ n = PhaseNode(ps[PhaseAt(ps, n)].id)
         /\ \A n \in TaskNodes(ps) :
              /\ SpotOf(ps, n) \in TaskSpots(ps) /\ n = TaskNode(TaskAt(ps, SpotOf(ps, n)).id)
              /\ TaskOf(ps, n) = TaskAt(ps, SpotOf(ps, n))
         /\ PhaseNodes(ps) \cap TaskNodes(ps) = {}
<1>1. ASSUME NEW i \in DOMAIN ps
      PROVE  PhaseNode(ps[i].id) \in PhaseNodes(ps) /\ PhaseAt(ps, PhaseNode(ps[i].id)) = i
  <2>1. \A j \in DOMAIN ps : PhaseNode(ps[j].id) = PhaseNode(ps[i].id) => j = i
    BY DEF PhaseNode, TellsApart
  <2> QED
    BY <2>1 DEF PhaseAt, PhaseNodes
<1>2. ASSUME NEW k \in TaskSpots(ps)
      PROVE  /\ TaskNode(TaskAt(ps, k).id) \in TaskNodes(ps)
             /\ SpotOf(ps, TaskNode(TaskAt(ps, k).id)) = k
             /\ TaskOf(ps, TaskNode(TaskAt(ps, k).id)) = TaskAt(ps, k)
  <2>1. \A l \in TaskSpots(ps) : TaskNodeAt(ps, l) = TaskNode(TaskAt(ps, l).id)
    BY DEF TaskNodeAt, TaskAt
  <2>2. \A l \in TaskSpots(ps) : TaskNodeAt(ps, l) = TaskNode(TaskAt(ps, k).id) => l = k
    BY <2>1 DEF TaskNode, TellsApart
  <2>3. SpotOf(ps, TaskNode(TaskAt(ps, k).id)) = k
    BY <2>1, <2>2 DEF SpotOf
  <2> QED
    BY <2>1, <2>3 DEF TaskNodes, TaskOf, TaskAt
<1>3. ASSUME NEW n \in PhaseNodes(ps) PROVE \E i \in DOMAIN ps : n = PhaseNode(ps[i].id)
  BY DEF PhaseNodes
<1>4. ASSUME NEW n \in TaskNodes(ps) PROVE \E k \in TaskSpots(ps) : n = TaskNode(TaskAt(ps, k).id)
  BY DEF TaskNodes, TaskNodeAt, TaskAt
<1>5. \A x, y : PhaseNode(x) # TaskNode(y)
  BY DEF PhaseNode, TaskNode
<1>6. PhaseNodes(ps) \cap TaskNodes(ps) = {}
  BY <1>3, <1>4, <1>5
<1>7. ASSUME NEW n \in PhaseNodes(ps)
      PROVE  PhaseAt(ps, n) \in DOMAIN ps /\ n = PhaseNode(ps[PhaseAt(ps, n)].id)
  BY <1>1, <1>3
<1>8. ASSUME NEW n \in TaskNodes(ps)
      PROVE  /\ SpotOf(ps, n) \in TaskSpots(ps) /\ n = TaskNode(TaskAt(ps, SpotOf(ps, n)).id)
             /\ TaskOf(ps, n) = TaskAt(ps, SpotOf(ps, n))
  BY <1>2, <1>4
<1> QED
  BY <1>1, <1>2, <1>6, <1>7, <1>8

Nodes(ps) == PhaseNodes(ps) \cup TaskNodes(ps)

\* An id is that of a phase or of a task.
LEMMA NodesOfIds ==
  ASSUME NEW ps, TellsApart(ps)
  PROVE  /\ \A x : PhaseNode(x)[2] = x /\ TaskNode(x)[2] = x
         /\ \A x \in AllIds(ps) : PhaseNode(x) \in PhaseNodes(ps) \/ TaskNode(x) \in TaskNodes(ps)
         /\ \A n \in Nodes(ps) : n[2] \in AllIds(ps)
<1>1. \A x : PhaseNode(x)[2] = x /\ TaskNode(x)[2] = x
  BY DEF PhaseNode, TaskNode
<1>2. \A x \in AllIds(ps) : PhaseNode(x) \in PhaseNodes(ps) \/ TaskNode(x) \in TaskNodes(ps)
  BY NodePlaces DEF AllIds
<1>3. ASSUME NEW n \in Nodes(ps) PROVE n[2] \in AllIds(ps)
  <2>1. CASE n \in PhaseNodes(ps)
    BY <1>1, <2>1, NodePlaces DEF AllIds
  <2>2. CASE n \in TaskNodes(ps)
    BY <1>1, <2>2, NodePlaces DEF AllIds
  <2> QED
    BY <2>1, <2>2 DEF Nodes
<1> QED
  BY <1>1, <1>2, <1>3

LEMMA TargetTypes ==
  ASSUME NEW ps, TellsApart(ps), NEW deps, deps \subseteq AllIds(ps)
  PROVE  /\ ForPhase(ps, deps) \subseteq Nodes(ps) /\ \A n \in ForPhase(ps, deps) : n[2] \in deps
         /\ ForTask(ps, deps) \subseteq Nodes(ps) /\ \A n \in ForTask(ps, deps) : n[2] \in deps
<1>1. ASSUME NEW n \in ForPhase(ps, deps) PROVE n \in Nodes(ps) /\ n[2] \in deps
  <2>1. PICK x \in deps : n = IF PhaseNode(x) \in PhaseNodes(ps) THEN PhaseNode(x) ELSE TaskNode(x)
    BY DEF ForPhase
  <2> QED
    BY <2>1, NodesOfIds DEF Nodes
<1>2. ASSUME NEW n \in ForTask(ps, deps) PROVE n \in Nodes(ps) /\ n[2] \in deps
  <2>1. PICK x \in deps : n = IF TaskNode(x) \in TaskNodes(ps) THEN TaskNode(x) ELSE PhaseNode(x)
    BY DEF ForTask
  <2> QED
    BY <2>1, NodesOfIds DEF Nodes
<1> QED
  BY <1>1, <1>2

LEMMA TaskHome ==
  ASSUME NEW ps, NEW k \in TaskSpots(ps)
  PROVE  k[1] \in DOMAIN ps /\ k[2] \in DOMAIN ps[k[1]].tasks
<1>1. PICK i \in DOMAIN ps : k \in {<<i, j>> : j \in DOMAIN ps[i].tasks}
  BY DEF TaskSpots
<1>2. PICK j \in DOMAIN ps[i].tasks : k = <<i, j>>
  BY <1>1
<1> QED
  BY <1>2

\* What a phase and a task of the workflow wait for.
LEMMA WaitsAt ==
  ASSUME NEW ps, TellsApart(ps), Refers(ps)
  PROVE  /\ \A i \in DOMAIN ps : Waits(ps)[PhaseNode(ps[i].id)] = ForPhase(ps, ps[i].deps)
         /\ \A k \in TaskSpots(ps) :
              /\ Waits(ps)[TaskNode(TaskAt(ps, k).id)] = ForTask(ps, TaskAt(ps, k).deps)
              /\ PhaseOfTask(ps)[TaskNode(TaskAt(ps, k).id)] = PhaseNode(ps[k[1]].id)
         /\ Waits(ps) \in [Nodes(ps) -> SUBSET Nodes(ps)]
         /\ PhaseOfTask(ps) \in [TaskNodes(ps) -> PhaseNodes(ps)]
<1>1. ASSUME NEW i \in DOMAIN ps PROVE Waits(ps)[PhaseNode(ps[i].id)] = ForPhase(ps, ps[i].deps)
  BY NodePlaces DEF Waits
<1>2. ASSUME NEW k \in TaskSpots(ps)
      PROVE  /\ Waits(ps)[TaskNode(TaskAt(ps, k).id)] = ForTask(ps, TaskAt(ps, k).deps)
             /\ PhaseOfTask(ps)[TaskNode(TaskAt(ps, k).id)] = PhaseNode(ps[k[1]].id)
  <2>1. PICK n : n = TaskNode(TaskAt(ps, k).id)
    OBVIOUS
  <2>2. n \in TaskNodes(ps) /\ SpotOf(ps, n) = k /\ TaskOf(ps, n) = TaskAt(ps, k) /\ n \notin PhaseNodes(ps)
    BY <2>1, NodePlaces
  <2>3. Waits(ps)[n] = ForTask(ps, TaskOf(ps, n).deps)
    BY <2>2 DEF Waits
  <2>4. PhaseOfTask(ps)[n] = PhaseNode(ps[SpotOf(ps, n)[1]].id)
    BY <2>2 DEF PhaseOfTask
  <2> QED
    BY <2>1, <2>2, <2>3, <2>4
<1>3. ASSUME NEW n \in Nodes(ps) PROVE Waits(ps)[n] \subseteq Nodes(ps)
  <2>1. CASE n \in PhaseNodes(ps)
    <3>1. PICK i \in DOMAIN ps : n = PhaseNode(ps[i].id)
      BY <2>1, NodePlaces
    <3>2. ps[i].deps \subseteq AllIds(ps)
      BY DEF Refers
    <3> QED
      BY <1>1, <3>1, <3>2, TargetTypes
  <2>2. CASE n \in TaskNodes(ps)
    <3>1. PICK k \in TaskSpots(ps) : n = TaskNode(TaskAt(ps, k).id)
      BY <2>2, NodePlaces
    <3>2. TaskAt(ps, k).deps \subseteq AllIds(ps)
      BY DEF Refers
    <3> QED
      BY <1>2, <3>1, <3>2, TargetTypes
  <2> QED
    BY <2>1, <2>2 DEF Nodes
<1>4. ASSUME NEW n \in TaskNodes(ps) PROVE PhaseOfTask(ps)[n] \in PhaseNodes(ps)
  <2>1. PICK k \in TaskSpots(ps) : n = TaskNode(TaskAt(ps, k).id)
    BY NodePlaces
  <2> QED
    BY <1>2, <2>1, TaskHome, NodePlaces
<1>5. Waits(ps) \in [Nodes(ps) -> SUBSET Nodes(ps)]
  <2>1. Waits(ps) = [n \in Nodes(ps) |-> Waits(ps)[n]]
    BY DEF Waits, Nodes
  <2> QED
    BY <1>3, <2>1
<1>6. PhaseOfTask(ps) \in [TaskNodes(ps) -> PhaseNodes(ps)]
  <2>1. PhaseOfTask(ps) = [n \in TaskNodes(ps) |-> PhaseOfTask(ps)[n]]
    BY DEF PhaseOfTask
  <2> QED
    BY <1>4, <2>1
<1> QED
  BY <1>1, <1>2, <1>5, <1>6

LEMMA WantedTypes ==
  ASSUME NEW ps, TellsApart(ps), Refers(ps)
  PROVE  /\ Wanted(ps) \in [TaskNodes(ps) -> SUBSET Nodes(ps)]
         /\ \A k \in TaskSpots(ps) : \A d \in Wanted(ps)[TaskNode(TaskAt(ps, k).id)] :
              /\ TaskAt(ps, k).request # NotGiven
              /\ d \in ForTask(ps, TaskAt(ps, k).request)
<1>1. ASSUME NEW k \in TaskSpots(ps), NEW d \in Wanted(ps)[TaskNode(TaskAt(ps, k).id)]
      PROVE  TaskAt(ps, k).request # NotGiven /\ d \in ForTask(ps, TaskAt(ps, k).request)
  <2>1. PICK n : n = TaskNode(TaskAt(ps, k).id)
    OBVIOUS
  <2>2. n \in TaskNodes(ps) /\ TaskOf(ps, n) = TaskAt(ps, k)
    BY <2>1, NodePlaces
  <2> QED
    BY <1>1, <2>1, <2>2 DEF Wanted, Asking
<1>2. ASSUME NEW n \in TaskNodes(ps) PROVE Wanted(ps)[n] \subseteq Nodes(ps)
  <2>1. PICK k \in TaskSpots(ps) : n = TaskNode(TaskAt(ps, k).id)
    BY NodePlaces
  <2>2. CASE TaskAt(ps, k).request = NotGiven
    BY <1>1, <2>1, <2>2
  <2>3. CASE TaskAt(ps, k).request # NotGiven
    <3>1. TaskAt(ps, k).request \subseteq AllIds(ps)
      BY <2>3, TaskHome DEF Refers
    <3> QED
      BY <1>1, <2>1, <3>1, TargetTypes
  <2> QED
    BY <2>2, <2>3
<1>3. Wanted(ps) = [n \in TaskNodes(ps) |-> Wanted(ps)[n]]
  BY DEF Wanted
<1> QED
  BY <1>1, <1>2, <1>3

LEMMA NodesAreFinite ==
  ASSUME NEW ps, HasShape(ps)
  PROVE  IsFiniteSet(Nodes(ps)) /\ PhaseNodes(ps) # {}
<1>1. IsFiniteSet(DOMAIN ps)
  <2>1. DOMAIN ps = 1 .. Len(ps) /\ Len(ps) \in Nat
    BY DEF HasShape
  <2>2. 1 \in Int /\ Len(ps) \in Int
    BY <2>1
  <2> QED
    BY <2>1, <2>2, FS_Interval
<1>2. ASSUME NEW i \in DOMAIN ps PROVE IsFiniteSet({<<i, j>> : j \in DOMAIN ps[i].tasks})
  <2>1. PICK m \in Nat \ {0} : DOMAIN ps[i].tasks = 1 .. m
    BY DEF HasShape
  <2>2. IsFiniteSet(DOMAIN ps[i].tasks)
    <3>1. 1 \in Int /\ m \in Int
      BY <2>1
    <3>2. IsFiniteSet(1 .. m)
      BY <3>1, FS_Interval
    <3> QED
      BY <2>1, <3>2
  <2>3. PICK f : f = [j \in DOMAIN ps[i].tasks |-> <<i, j>>]
    OBVIOUS
  <2>4. PICK R : R = {<<i, j>> : j \in DOMAIN ps[i].tasks}
    OBVIOUS
  <2>5. f \in Surjection(DOMAIN ps[i].tasks, R)
    BY <2>3, <2>4 DEF Surjection
  <2> QED
    BY <2>2, <2>4, <2>5, FS_Surjection
<1>3. IsFiniteSet(TaskSpots(ps))
  <2>1. PICK rows : rows = {{<<i, j>> : j \in DOMAIN ps[i].tasks} : i \in DOMAIN ps}
    OBVIOUS
  <2>2. IsFiniteSet(rows)
    <3>1. PICK f : f = [i \in DOMAIN ps |-> {<<i, j>> : j \in DOMAIN ps[i].tasks}]
      OBVIOUS
    <3>2. f \in Surjection(DOMAIN ps, rows)
      BY <2>1, <3>1 DEF Surjection
    <3> QED
      BY <1>1, <3>2, FS_Surjection
  <2>3. \A row \in rows : IsFiniteSet(row)
    BY <1>2, <2>1
  <2>4. IsFiniteSet(UNION rows)
    BY <2>2, <2>3, FS_UNION
  <2> QED
    BY <2>1, <2>4 DEF TaskSpots
<1>4. IsFiniteSet(PhaseNodes(ps))
  <2>1. PICK f : f = [i \in DOMAIN ps |-> PhaseNode(ps[i].id)]
    OBVIOUS
  <2>2. f \in Surjection(DOMAIN ps, PhaseNodes(ps))
    BY <2>1 DEF Surjection, PhaseNodes
  <2> QED
    BY <1>1, <2>2, FS_Surjection
<1>5. IsFiniteSet(TaskNodes(ps))
  <2>1. PICK f : f = [k \in TaskSpots(ps) |-> TaskNodeAt(ps, k)]
    OBVIOUS
  <2>2. f \in Surjection(TaskSpots(ps), TaskNodes(ps))
    BY <2>1 DEF Surjection, TaskNodes
  <2> QED
    BY <1>3, <2>2, FS_Surjection
<1>6. PhaseNodes(ps) # {}
  BY DEF HasShape, PhaseNodes
<1> QED
  BY <1>4, <1>5, <1>6, FS_Union DEF Nodes

LEMMA StartedPlanShape ==
  ASSUME NEW ps, Workable(ps)
  PROVE  Managed(ps)!PlanShape
<1>1. HasShape(ps) /\ TellsApart(ps) /\ Refers(ps)
  BY DEF Workable
<1>2. Managed(ps)!Ids = Nodes(ps)
  BY DEF Managed!Ids, Nodes
<1>3. PhaseNodes(ps) # {} /\ IsFiniteSet(Nodes(ps)) /\ PhaseNodes(ps) \cap TaskNodes(ps) = {}
  BY <1>1, NodesAreFinite, NodePlaces
<1>4. NotGiven \notin Nodes(ps)
  <2>1. ASSUME NEW n \in Nodes(ps) PROVE n \in {"phase", "task"} \X PlanNames
    <3>1. n[2] \in PlanNames
      BY <1>1, NodesOfIds, SanitizedAreGiven DEF Refers
    <3>2. n = PhaseNode(n[2]) \/ n = TaskNode(n[2])
      BY <1>1, NodePlaces, NodesOfIds DEF Nodes
    <3> QED
      BY <3>1, <3>2 DEF PhaseNode, TaskNode
  <2> QED
    BY <2>1, FormShape
<1>5. /\ Waits(ps) \in [Nodes(ps) -> SUBSET Nodes(ps)]
      /\ PhaseOfTask(ps) \in [TaskNodes(ps) -> PhaseNodes(ps)]
      /\ Wanted(ps) \in [TaskNodes(ps) -> SUBSET Nodes(ps)]
  BY <1>1, WaitsAt, WantedTypes
<1>6. [n \in Nodes(ps) |-> 0] \in [Nodes(ps) -> Nat]
  OBVIOUS
<1>7. /\ [n \in TaskNodes(ps) |-> NotGiven] \in [TaskNodes(ps) -> TaskNodes(ps) \cup {NotGiven}]
      /\ [n \in TaskNodes(ps) |-> 1] \in [TaskNodes(ps) -> 1 .. 20]
  OBVIOUS
<1>8. Asking(ps) \subseteq TaskNodes(ps)
  BY DEF Asking
<1>9. Managed(ps)!AttemptCap = 20
  BY DEF Managed!AttemptCap
<1>10. Managed(ps)!IsFiniteSet(Nodes(ps))
  BY <1>3 DEF Managed!IsFiniteSet, IsFiniteSet
<1> QED
  BY <1>2, <1>3, <1>4, <1>5, <1>6, <1>7, <1>8, <1>9, <1>10 DEF Managed!PlanShape, Nodes

LEMMA StartedHasTasks ==
  ASSUME NEW ps, Workable(ps)
  PROVE  Managed(ps)!EveryPhaseHasATask
<1>1. HasShape(ps) /\ TellsApart(ps) /\ Refers(ps)
  BY DEF Workable
<1>2. ASSUME NEW p \in PhaseNodes(ps) PROVE \E t \in TaskNodes(ps) : PhaseOfTask(ps)[t] = p
  <2>1. PICK i \in DOMAIN ps : p = PhaseNode(ps[i].id)
    BY <1>1, NodePlaces
  <2>2. PICK k : k = <<i, 1>>
    OBVIOUS
  <2>3. 1 \in DOMAIN ps[i].tasks
    BY <1>1 DEF HasShape
  <2>4. k \in TaskSpots(ps) /\ k[1] = i
    BY <2>2, <2>3 DEF TaskSpots
  <2> QED
    BY <1>1, <2>1, <2>4, NodePlaces, WaitsAt
<1> QED
  BY <1>2 DEF Managed!EveryPhaseHasATask, Managed!TasksOf

LEMMA StartedIsAcyclic ==
  ASSUME NEW ps, Workable(ps)
  PROVE  Managed(ps)!PlanIsAcyclic
<1>1. TellsApart(ps) /\ Refers(ps) /\ Ends(ps)
  BY DEF Workable
<1>2. ASSUME NEW S \in SUBSET Nodes(ps), S # {}
      PROVE  \E n \in S : Managed(ps)!Edges(n) \cap S = {}
  <2>1. PICK X : X = {n[2] : n \in S}
    OBVIOUS
  <2>2. X \in SUBSET AllIds(ps) /\ X # {}
    BY <1>1, <1>2, <2>1, NodesOfIds
  <2>3. PICK x \in X : \A y \in X : ~Needs(ps, x, y)
    BY <1>1, <2>2 DEF Ends
  <2>4. CASE \E n \in S : n \in TaskNodes(ps) /\ n[2] = x
    <3>1. PICK n \in S : n \in TaskNodes(ps) /\ n[2] = x
      BY <2>4
    <3>2. PICK k \in TaskSpots(ps) : n = TaskNode(TaskAt(ps, k).id)
      BY <1>1, <3>1, NodePlaces
    <3>3. TaskAt(ps, k).id = x /\ k[1] \in DOMAIN ps
      BY <1>1, <3>1, <3>2, NodesOfIds, TaskHome
    <3>4. n \notin PhaseNodes(ps)
      BY <1>1, <3>1, NodePlaces
    <3>5. Managed(ps)!Edges(n) = ForTask(ps, TaskAt(ps, k).deps) \cup ForPhase(ps, ps[k[1]].deps)
      <4>1. Managed(ps)!Edges(n) = Waits(ps)[n] \cup Waits(ps)[PhaseOfTask(ps)[n]]
        BY <3>4 DEF Managed!Edges
      <4> QED
        BY <1>1, <3>2, <3>3, <4>1, WaitsAt
    <3>6. ASSUME NEW m \in Managed(ps)!Edges(n) PROVE TaskNeeds(ps, k, m[2])
      <4>1. TaskAt(ps, k).deps \subseteq AllIds(ps) /\ ps[k[1]].deps \subseteq AllIds(ps)
        BY <1>1, <3>3 DEF Refers
      <4> QED
        BY <1>1, <3>5, <3>6, <4>1, TargetTypes DEF TaskNeeds
    <3>7. ASSUME NEW m \in Managed(ps)!Edges(n) \cap S PROVE FALSE
      <4>1. Needs(ps, x, m[2])
        BY <3>3, <3>6, <3>7 DEF Needs
      <4> QED
        BY <2>1, <2>3, <3>7, <4>1
    <3> QED
      BY <3>7
  <2>5. CASE \A n \in S : n \in TaskNodes(ps) => n[2] # x
    <3>1. PICK n \in S : n[2] = x
      BY <2>1
    <3>2. n \in PhaseNodes(ps)
      BY <2>5, <3>1 DEF Nodes
    <3>3. PICK i \in DOMAIN ps : n = PhaseNode(ps[i].id)
      BY <1>1, <3>2, NodePlaces
    <3>4. ps[i].id = x
      BY <1>1, <3>1, <3>3, NodesOfIds
    <3>5. Managed(ps)!Edges(n) = ForPhase(ps, ps[i].deps) \cup {t \in TaskNodes(ps) : PhaseOfTask(ps)[t] = n}
      <4>1. Managed(ps)!Edges(n) = Waits(ps)[n] \cup {t \in TaskNodes(ps) : PhaseOfTask(ps)[t] = n}
        BY <3>2 DEF Managed!Edges, Managed!TasksOf
      <4> QED
        BY <1>1, <3>3, <4>1, WaitsAt
    <3>6. ASSUME NEW m \in Managed(ps)!Edges(n), m \in S PROVE PhaseNeeds(ps, i, m[2])
      <4>1. CASE m \in ForPhase(ps, ps[i].deps)
        <5>1. ps[i].deps \subseteq AllIds(ps)
          BY <1>1 DEF Refers
        <5> QED
          BY <1>1, <4>1, <5>1, TargetTypes DEF PhaseNeeds
      <4>2. CASE m \in TaskNodes(ps) /\ PhaseOfTask(ps)[m] = n
        <5>1. PICK k \in TaskSpots(ps) : m = TaskNode(TaskAt(ps, k).id)
          BY <1>1, <4>2, NodePlaces
        <5>2. k[1] \in DOMAIN ps /\ k[2] \in DOMAIN ps[k[1]].tasks
          BY TaskHome
        <5>3. PhaseNode(ps[k[1]].id) = PhaseNode(ps[i].id)
          BY <1>1, <3>3, <4>2, <5>1, WaitsAt
        <5>4. k[1] = i
          BY <1>1, <5>2, <5>3, NodesOfIds DEF TellsApart
        <5>5. m[2] = ps[i].tasks[k[2]].id
          BY <1>1, <5>1, <5>4, NodesOfIds DEF TaskAt
        <5>6. m[2] # ps[i].id
          BY <2>5, <3>4, <3>6, <4>2
        <5> QED
          BY <5>2, <5>4, <5>5, <5>6 DEF PhaseNeeds
      <4> QED
        BY <3>5, <3>6, <4>1, <4>2
    <3>7. ASSUME NEW m \in Managed(ps)!Edges(n) \cap S PROVE FALSE
      <4>1. Needs(ps, x, m[2])
        BY <3>4, <3>6, <3>7 DEF Needs
      <4> QED
        BY <2>1, <2>3, <3>7, <4>1
    <3> QED
      BY <3>7
  <2> QED
    BY <2>4, <2>5
<1> QED
  BY <1>2 DEF Managed!PlanIsAcyclic, Managed!Acyclic, Managed!Ids, Nodes

LEMMA StartedDeclares ==
  ASSUME NEW ps, Workable(ps)
  PROVE  DeclaresWhatItWants(ps)
<1>1. TellsApart(ps) /\ Refers(ps)
  BY DEF Workable
<1>2. ASSUME NEW t \in TaskNodes(ps), NEW d \in Wanted(ps)[t]
      PROVE  \E n \in Waits(ps)[t] \cup Waits(ps)[PhaseOfTask(ps)[t]] :
               n = d \/ (d \in TaskNodes(ps) /\ n = PhaseOfTask(ps)[d])
  <2>1. PICK k \in TaskSpots(ps) : t = TaskNode(TaskAt(ps, k).id)
    BY <1>1, NodePlaces
  <2>2. k[1] \in DOMAIN ps
    BY TaskHome
  <2>3. PICK T : T = TaskAt(ps, k)
    OBVIOUS
  <2>4. PICK p : p = ps[k[1]]
    OBVIOUS
  <2>5. Waits(ps)[t] = ForTask(ps, T.deps) /\ Waits(ps)[PhaseOfTask(ps)[t]] = ForPhase(ps, p.deps)
    BY <1>1, <2>1, <2>2, <2>3, <2>4, WaitsAt
  <2>6. T.request # NotGiven /\ d \in ForTask(ps, T.request)
    BY <1>1, <1>2, <2>1, <2>3, WantedTypes
  <2>7. PICK x \in T.request : d = IF TaskNode(x) \in TaskNodes(ps) THEN TaskNode(x) ELSE PhaseNode(x)
    BY <2>6 DEF ForTask
  <2>8. x \in T.deps \/ x \in p.deps
    BY <1>1, <2>3, <2>4, <2>6, <2>7 DEF Refers
  <2>9. CASE x \in T.deps
    BY <2>5, <2>7, <2>9 DEF ForTask
  <2>10. CASE x \in p.deps
    <3>1. PICK n : n = IF PhaseNode(x) \in PhaseNodes(ps) THEN PhaseNode(x) ELSE TaskNode(x)
      OBVIOUS
    <3>2. n \in Waits(ps)[PhaseOfTask(ps)[t]]
      BY <2>5, <2>10, <3>1 DEF ForPhase
    <3>3. x \in AllIds(ps)
      BY <1>1, <2>2, <2>4, <2>10 DEF Refers
    <3>4. CASE PhaseNode(x) \in PhaseNodes(ps) /\ TaskNode(x) \in TaskNodes(ps)
      <4>1. n = PhaseNode(x) /\ d = TaskNode(x)
        BY <2>7, <3>1, <3>4
      <4>2. PICK i \in DOMAIN ps : PhaseNode(x) = PhaseNode(ps[i].id)
        BY <1>1, <3>4, NodePlaces
      <4>3. PICK l \in TaskSpots(ps) : TaskNode(x) = TaskNode(TaskAt(ps, l).id)
        BY <1>1, <3>4, NodePlaces
      <4>4. TaskAt(ps, l).id = ps[i].id
        BY <1>1, <4>2, <4>3, NodesOfIds
      <4>5. l[1] = i
        BY <1>1, <4>4 DEF TellsApart
      <4>6. PhaseOfTask(ps)[d] = n
        BY <1>1, <4>1, <4>2, <4>3, <4>5, WaitsAt
      <4> QED
        BY <3>2, <3>4, <4>1, <4>6
    <3>5. CASE PhaseNode(x) \in PhaseNodes(ps) /\ TaskNode(x) \notin TaskNodes(ps)
      BY <2>7, <3>1, <3>2, <3>5
    <3>6. CASE PhaseNode(x) \notin PhaseNodes(ps)
      <4>1. TaskNode(x) \in TaskNodes(ps)
        BY <1>1, <3>3, <3>6, NodesOfIds
      <4> QED
        BY <2>7, <3>1, <3>2, <3>6, <4>1
    <3> QED
      BY <3>4, <3>5, <3>6
  <2> QED
    BY <2>8, <2>9, <2>10
<1> QED
  BY <1>2 DEF DeclaresWhatItWants

LEMMA StartedIdsAreUnique ==
  ASSUME NEW ps, Workable(ps)
  PROVE  IdsAreUnique(ps)
<1>1. TellsApart(ps)
  BY DEF Workable
<1>2. \A k \in TaskSpots(ps) : TaskNodeAt(ps, k) = TaskNode(TaskAt(ps, k).id)
  BY DEF TaskNodeAt, TaskAt
<1>3. \A x, y : TaskNode(x) = TaskNode(y) => x = y
  BY DEF TaskNode
<1> QED
  BY <1>1, <1>2, <1>3 DEF IdsAreUnique, TellsApart
-----------------------------------------------------------------------------
\* A document belongs to the plan it was written from, and a workflow to a plan
\* that was accepted.
PlanInv ==
  /\ source \in Seq(StepForms)
  /\ document # NotGiven => source # <<>> /\ Accepted(source) /\ document = Compiled(source)
  /\ launched # NotGiven =>
       /\ source # <<>> /\ Accepted(source)
       /\ launched = PhasesOf(source) \/ launched = PhasesOf(Compiled(source))

LEMMA PlanInvHolds == PlanSpec => []PlanInv
<1>1. PlanInit => PlanInv
  BY DEF PlanInit, PlanInv
<1>2. PlanInv /\ [PlanNext]_planVars => PlanInv'
  <2> SUFFICES ASSUME PlanInv, [PlanNext]_planVars PROVE PlanInv'
    OBVIOUS
  <2>1. ASSUME NEW step \in StepForms, AddStep(step) PROVE PlanInv'
    BY <2>1 DEF AddStep, PlanInv
  <2>2. CASE DropStep
    <3>1. source \in Seq(StepForms) /\ source # <<>>
      BY <2>2 DEF DropStep, PlanInv
    <3>2. SubSeq(source, 1, Len(source) - 1) \in Seq(StepForms)
      BY <3>1
    <3> QED
      BY <2>2, <3>2 DEF DropStep, PlanInv
  <2>3. CASE WriteDocument
    BY <2>3 DEF WriteDocument, PlanInv
  <2>4. CASE StartFile(source)
    BY <2>4 DEF StartFile, PlanInv
  <2>5. CASE StartFile(document)
    BY <2>5 DEF StartFile, PlanInv
  <2>6. CASE UNCHANGED planVars
    BY <2>6 DEF planVars, PlanInv
  <2> QED
    BY <2>1, <2>2, <2>3, <2>4, <2>5, <2>6 DEF PlanNext
<1> QED
  BY <1>1, <1>2, PTL DEF PlanSpec

\* Whatever workflow is started from an accepted plan, of any length and over any
\* steps, is sound as WorkflowPlan takes it to be, and a document starts the same
\* workflow as the plan it was written from (buildGeneratedWorkflowPlanDocument and
\* normalizeWorkflowPlanInput in workflows.ts).
THEOREM PlansAreSound == PlanSpec => []StartedPlansAreSound
<1>1. PlanInv => StartedPlansAreSound
  <2> SUFFICES ASSUME PlanInv PROVE StartedPlansAreSound
    OBVIOUS
  <2>1. source \in Seq(StepForms)
    BY DEF PlanInv
  <2>2. ASSUME launched # NotGiven, SpelledAsRead(source) PROVE Workable(launched)
    <3>1. source # <<>> /\ Accepted(source)
      BY <2>2 DEF PlanInv
    <3>2. launched = PhasesOf(source)
      BY <2>1, <2>2, SamePhases DEF PlanInv
    <3> QED
      BY <2>1, <2>2, <3>1, <3>2, StartedIsWorkable
  <2>3. ASSUME launched # NotGiven, SpelledAsRead(source)
        PROVE  /\ IdsAreUnique(launched)
               /\ Managed(launched)!PlanShape
               /\ Managed(launched)!EveryPhaseHasATask
               /\ Managed(launched)!PlanIsAcyclic
               /\ DeclaresWhatItWants(launched)
    <3>1. IdsAreUnique(launched) /\ DeclaresWhatItWants(launched)
      BY <2>2, <2>3, StartedIdsAreUnique, StartedDeclares
    <3>2. Managed(launched)!PlanShape
      BY <2>2, <2>3, StartedPlanShape
    <3>3. Managed(launched)!EveryPhaseHasATask
      BY <2>2, <2>3, StartedHasTasks
    <3>4. Managed(launched)!PlanIsAcyclic
      BY <2>2, <2>3, StartedIsAcyclic
    <3> QED
      BY <3>1, <3>2, <3>3, <3>4
  <2>4. ASSUME document # NotGiven
        PROVE  /\ Accepted(document)
               /\ SpelledAsRead(source) => PhasesOf(document) = PhasesOf(source)
    BY <2>1, <2>4, DocumentIsAccepted, SamePhases DEF PlanInv
  <2> QED
    BY <2>3, <2>4 DEF StartedPlansAreSound
<1> QED
  BY <1>1, PlanInvHolds, PTL

-----------------------------------------------------------------------------
(***************************************************************************)
(* Automations: merging, entry by entry.                                   *)
(***************************************************************************)
LEMMA ItemsAre ==
  ASSUME NEW e \in Items
  PROVE  e \in [DOMAIN e -> Values] /\ DOMAIN e \subseteq {"name", "type", "command", "env"}
BY DEF Items

LEMMA OverItems ==
  ASSUME NEW g \in Items, NEW e \in Items
  PROVE  /\ Over(g, e) \in Items
         /\ DOMAIN Over(g, e) = DOMAIN g \cup DOMAIN e
         /\ \A k \in DOMAIN g : Over(g, e)[k] = g[k]
         /\ \A k \in DOMAIN e : k \notin DOMAIN g => Over(g, e)[k] = e[k]
<1>1. /\ DOMAIN Over(g, e) = DOMAIN g \cup DOMAIN e
      /\ \A k \in DOMAIN g : Over(g, e)[k] = g[k]
      /\ \A k \in DOMAIN e : k \notin DOMAIN g => Over(g, e)[k] = e[k]
  BY DEF Over
<1>2. Over(g, e) \in [DOMAIN g \cup DOMAIN e -> Values]
  BY ItemsAre DEF Over
<1>3. DOMAIN g \cup DOMAIN e \in SUBSET {"name", "type", "command", "env"}
  BY ItemsAre
<1> QED
  BY <1>1, <1>2, <1>3 DEF Items

LEMMA OverItself ==
  ASSUME NEW g \in Items, NEW e \in Items, DOMAIN g \subseteq DOMAIN e,
         \A k \in DOMAIN g : e[k] = g[k]
  PROVE  Over(g, e) = e
<1>1. e = [k \in DOMAIN e |-> e[k]]
  BY ItemsAre
<1>2. DOMAIN g \cup DOMAIN e = DOMAIN e
  OBVIOUS
<1> QED
  BY <1>1, <1>2 DEF Over

LEMMA SameHook ==
  ASSUME NEW e, NEW g, NamesHook(g)
  PROVE  EntryKey(e) = EntryKey(g) <=>
           NamesHook(e) /\ e["type"] = g["type"] /\ e["command"] = g["command"]
BY DEF EntryKey

LEMMA SameName ==
  ASSUME NEW e, NEW g, ~NamesHook(g), "name" \in DOMAIN g
  PROVE  EntryKey(e) = EntryKey(g) <=>
           ~NamesHook(e) /\ "name" \in DOMAIN e /\ e["name"] = g["name"]
BY DEF EntryKey

LEMMA SameCommand ==
  ASSUME NEW e, NEW g, ~NamesHook(g), "name" \notin DOMAIN g, "command" \in DOMAIN g
  PROVE  EntryKey(e) = EntryKey(g) <=>
           /\ ~NamesHook(e) /\ "name" \notin DOMAIN e /\ "command" \in DOMAIN e
           /\ e["command"] = g["command"]
BY DEF EntryKey

LEMMA NoKey ==
  ASSUME NEW e
  PROVE  EntryKey(e) = <<>> <=> ~NamesHook(e) /\ "name" \notin DOMAIN e /\ "command" \notin DOMAIN e
BY DEF EntryKey

\* An entry that goes by a hook of which a part was generated for a name.
Turned(g, d) ==
  /\ ~NamesHook(g) /\ "name" \in DOMAIN g /\ NamesHook(d)
  /\ \E k \in {"type", "command"} \cap DOMAIN g : d[k] = g[k]

\* What is generated for an entry's key leaves it the key, or turns it into a hook.
LEMMA KeyOver ==
  ASSUME NEW g \in Items, NEW e \in Items, EntryKey(g) = EntryKey(e), EntryKey(g) # <<>>
  PROVE  EntryKey(Over(g, e)) = EntryKey(e) \/ Turned(g, Over(g, e))
<1> PICK o : o = Over(g, e)
  OBVIOUS
<1>1. /\ o \in Items /\ DOMAIN o = DOMAIN g \cup DOMAIN e
      /\ \A k \in DOMAIN g : o[k] = g[k]
      /\ \A k \in DOMAIN e : k \notin DOMAIN g => o[k] = e[k]
  BY OverItems
<1>2. CASE NamesHook(g)
  <2>1. NamesHook(o) /\ o["type"] = g["type"] /\ o["command"] = g["command"]
    BY <1>1, <1>2 DEF NamesHook
  <2> QED
    BY <1>2, <2>1, SameHook
<1>3. CASE ~NamesHook(g) /\ "name" \in DOMAIN g
  <2>1. ~NamesHook(e) /\ "name" \in DOMAIN e /\ e["name"] = g["name"]
    BY <1>3, SameName
  <2>2. "name" \in DOMAIN o /\ o["name"] = g["name"]
    BY <1>1, <1>3
  <2>3. CASE NamesHook(o)
    <3>1. PICK k \in {"type", "command"} : k \in DOMAIN g
      BY <1>1, <2>1, <2>3 DEF NamesHook
    <3>2. Turned(g, o)
      BY <1>1, <1>3, <2>3, <3>1 DEF Turned
    <3> QED
      BY <3>2
  <2>4. CASE ~NamesHook(o)
    BY <1>3, <2>2, <2>4, SameName
  <2> QED
    BY <2>3, <2>4
<1>4. CASE ~NamesHook(g) /\ "name" \notin DOMAIN g
  <2>1. "command" \in DOMAIN g
    BY <1>4, NoKey
  <2>2. /\ ~NamesHook(e) /\ "name" \notin DOMAIN e /\ "command" \in DOMAIN e
        /\ e["command"] = g["command"]
    BY <1>4, <2>1, SameCommand
  <2>3. /\ ~NamesHook(o) /\ "name" \notin DOMAIN o /\ "command" \in DOMAIN o
        /\ o["command"] = g["command"]
    BY <1>1, <1>4, <2>1, <2>2 DEF NamesHook
  <2> QED
    BY <1>4, <2>1, <2>3, SameCommand
<1> QED
  BY <1>2, <1>3, <1>4

\* An entry that was turned has no generated entry's key any more.
LEMMA TurnedAway ==
  ASSUME Apart, NEW g \in Generated, NEW h \in Generated, NEW d, Turned(g, d)
  PROVE  EntryKey(h) # EntryKey(d)
<1> SUFFICES ASSUME EntryKey(h) = EntryKey(d) PROVE FALSE
  OBVIOUS
<1>1. ~NamesHook(g) /\ "name" \in DOMAIN g /\ NamesHook(d)
  BY DEF Turned
<1>2. PICK k \in {"type", "command"} \cap DOMAIN g : d[k] = g[k]
  BY DEF Turned
<1>3. NamesHook(h) /\ h["type"] = d["type"] /\ h["command"] = d["command"]
  BY <1>1, SameHook
<1>4. h[k] = d[k]
  BY <1>2, <1>3
<1> QED
  BY <1>1, <1>2, <1>3, <1>4 DEF Apart

-----------------------------------------------------------------------------
(* One entry merged into a list. *)

Replaced(list, m, i, e) ==
  /\ m \in Seq(Items) /\ DOMAIN m = DOMAIN list /\ i \in DOMAIN list
  /\ m[i] = e
  /\ \A j \in DOMAIN list \ {i} : m[j] = list[j]

Added(list, m, g) ==
  /\ m \in Seq(Items) /\ DOMAIN m = DOMAIN list \cup {Len(list) + 1} /\ m[Len(list) + 1] = g
  /\ \A j \in DOMAIN list : m[j] = list[j]

FirstHit(list, i, g) ==
  /\ i \in DOMAIN list /\ EntryKey(list[i]) = EntryKey(g)
  /\ \A j \in DOMAIN list : EntryKey(list[j]) = EntryKey(g) => i <= j

Hits(list, g) == {i \in DOMAIN list : EntryKey(list[i]) = EntryKey(g)}

ByKey(list, g) == EntryKey(g) # <<>> /\ Hits(list, g) # {}

InList(list, g) == \E i \in DOMAIN list : list[i] = g

LEMMA FirstOfHits ==
  ASSUME NEW list \in Seq(Items), NEW g, Hits(list, g) # {}
  PROVE  FirstHit(list, CHOOSE i \in Hits(list, g) : \A j \in Hits(list, g) : i <= j, g)
<1>1. Hits(list, g) \in SUBSET Nat
  BY DEF Hits
<1>2. \E i \in Hits(list, g) : \A j \in Hits(list, g) : i <= j
  BY <1>1, NatMin
<1>3. PICK i : i = CHOOSE n \in Hits(list, g) : \A j \in Hits(list, g) : n <= j
  OBVIOUS
<1>4. i \in Hits(list, g) /\ \A j \in Hits(list, g) : i <= j
  BY <1>2, <1>3
<1> QED
  BY <1>3, <1>4 DEF Hits, FirstHit

LEMMA MergesOver ==
  ASSUME NEW list \in Seq(Items), NEW g \in Items, ByKey(list, g)
  PROVE  \E i \in DOMAIN list :
           FirstHit(list, i, g) /\ Replaced(list, MergeEntry(list, g), i, Over(g, list[i]))
<1>1. PICK i : i = CHOOSE n \in Hits(list, g) : \A j \in Hits(list, g) : n <= j
  OBVIOUS
<1>2. FirstHit(list, i, g)
  BY <1>1, FirstOfHits DEF ByKey
<1>3. i \in DOMAIN list /\ list[i] \in Items
  BY <1>2 DEF FirstHit
<1>4. MergeEntry(list, g) = [list EXCEPT ![i] = Over(g, @)]
  BY <1>1 DEF MergeEntry, ByKey, Hits
<1>5. Over(g, list[i]) \in Items
  BY <1>3, OverItems
<1>6. PICK o : o = Over(g, list[i])
  OBVIOUS
<1>7. MergeEntry(list, g) = [list EXCEPT ![i] = o]
  BY <1>4, <1>6
<1>8. Replaced(list, MergeEntry(list, g), i, o)
  BY <1>3, <1>5, <1>6, <1>7 DEF Replaced
<1> QED
  BY <1>2, <1>3, <1>6, <1>8

LEMMA MergesNothing ==
  ASSUME NEW list \in Seq(Items), NEW g \in Items, ~ByKey(list, g), InList(list, g)
  PROVE  MergeEntry(list, g) = list
BY DEF MergeEntry, ByKey, Hits, InList

LEMMA MergesOnto ==
  ASSUME NEW list \in Seq(Items), NEW g \in Items, ~ByKey(list, g), ~InList(list, g)
  PROVE  Added(list, MergeEntry(list, g), g)
<1>1. MergeEntry(list, g) = Append(list, g)
  BY DEF MergeEntry, ByKey, Hits, InList
<1> QED
  BY <1>1 DEF Added

LEMMA MergeTypes ==
  ASSUME NEW list \in Seq(Items), NEW g \in Items
  PROVE  MergeEntry(list, g) \in Seq(Items)
<1>1. CASE ByKey(list, g)
  BY <1>1, MergesOver DEF Replaced
<1>2. CASE ~ByKey(list, g) /\ InList(list, g)
  BY <1>2, MergesNothing
<1>3. CASE ~ByKey(list, g) /\ ~InList(list, g)
  BY <1>3, MergesOnto DEF Added
<1> QED
  BY <1>1, <1>2, <1>3

-----------------------------------------------------------------------------
(* A list of entries merged into a list. *)

MergeStep(list, generated, f) ==
  [n \in 0 .. Len(generated) |->
     IF n = 0 THEN list ELSE MergeEntry(f[n - 1], generated[n])]

LEMMA MergesDefined ==
  ASSUME NEW list \in Seq(Items), NEW generated \in Seq(Items)
  PROVE  /\ MergedUpTo(list, generated) = MergeStep(list, generated, MergedUpTo(list, generated))
         /\ MergedUpTo(list, generated) \in [0 .. Len(generated) -> Seq(Items)]
<1> DEFINE n == Len(generated)
           V == Seq(Items)
           Next1(k, s) == IF k \in 1 .. n THEN MergeEntry(s, generated[k]) ELSE s
<1>1. n \in Nat
  OBVIOUS
<1>2. ASSUME NEW k \in Nat, NEW s \in V PROVE Next1(k, s) \in V
  BY MergeTypes
<1>3. PICK G : G = [k \in Nat |-> [s \in V |-> Next1(k, s)]]
  OBVIOUS
<1>4. G \in [Nat -> [V -> V]]
  <2> HIDE DEF Next1, V
  <2> QED
    BY <1>2, <1>3
<1>5. PICK f : Iterates(f, V, list, G, n)
  <2>1. list \in V
    OBVIOUS
  <2> HIDE DEF Next1, V, n
  <2> QED
    BY <1>1, <1>4, <2>1, Iterated
<1>6. f \in [0 .. n -> V]
  BY <1>5 DEF Iterates
<1>7. ASSUME NEW i \in 0 .. n PROVE f[i] = MergeStep(list, generated, f)[i]
  <2>1. CASE i = 0
    BY <2>1, <1>1, <1>5 DEF Iterates, MergeStep
  <2>2. CASE i # 0
    <3>1. i \in 1 .. n /\ i - 1 \in 0 .. n /\ i \in Nat
      BY <2>2, <1>1
    <3>2. f[i - 1] \in V
      BY <3>1, <1>6
    <3>3. f[i] = G[i][f[i - 1]]
      BY <3>1, <1>5 DEF Iterates
    <3>4. G[i][f[i - 1]] = Next1(i, f[i - 1])
      <4> HIDE DEF Next1, V
      <4> QED
        BY <1>3, <3>1, <3>2
    <3> QED
      BY <2>2, <3>1, <3>3, <3>4 DEF MergeStep
  <2> QED
    BY <2>1, <2>2
<1>8. f = MergeStep(list, generated, f)
  <2>1. f = [i \in 0 .. n |-> f[i]]
    BY <1>6
  <2>2. MergeStep(list, generated, f) = [i \in 0 .. n |-> MergeStep(list, generated, f)[i]]
    BY DEF MergeStep
  <2> QED
    BY <1>7, <2>1, <2>2
<1>9. MergedUpTo(list, generated) = CHOOSE h : h = MergeStep(list, generated, h)
  BY DEF MergedUpTo, MergeStep
<1>10. ASSUME NEW h, h = MergeStep(list, generated, h) PROVE h = f
  <2>1. DOMAIN h = 0 .. n
    BY <1>10 DEF MergeStep
  <2>2. h = [i \in 0 .. n |-> h[i]]
    BY <1>10 DEF MergeStep
  <2>3. f = [i \in 0 .. n |-> f[i]]
    BY <1>6
  <2> DEFINE T == {i \in 0 .. n : h[i] = f[i]}
  <2>4. h[0] = f[0] /\ 0 \in T
    <3>1. 0 \in 0 .. n
      BY <1>1
    <3>2. MergeStep(list, generated, h)[0] = list
      BY <3>1 DEF MergeStep
    <3>3. h[0] = list
      BY <1>10, <3>2
    <3>4. f[0] = list
      BY <1>5 DEF Iterates
    <3> QED
      BY <3>1, <3>3, <3>4
  <2>5. ASSUME NEW k \in 0 .. n - 1, k \in T PROVE k + 1 \in T
    <3>1. PICK j : j = k + 1
      OBVIOUS
    <3>2. j \in 0 .. n /\ j # 0 /\ j - 1 = k
      BY <1>1, <3>1
    <3>3. MergeStep(list, generated, h)[j] = MergeEntry(h[j - 1], generated[j])
      BY <3>2 DEF MergeStep
    <3>4. h[j] = MergeEntry(h[j - 1], generated[j])
      BY <1>10, <3>3
    <3>5. MergeStep(list, generated, f)[j] = MergeEntry(f[j - 1], generated[j])
      BY <3>2 DEF MergeStep
    <3>6. f[j] = MergeEntry(f[j - 1], generated[j])
      BY <1>7, <3>2, <3>5
    <3>7. h[j - 1] = f[j - 1]
      BY <2>5, <3>2
    <3> QED
      BY <3>1, <3>2, <3>4, <3>6, <3>7
  <2>6. 0 .. n \subseteq T
    <3> HIDE DEF T, n
    <3> QED
      BY <1>1, <2>4, <2>5, InductionOn
  <2> QED
    BY <2>2, <2>3, <2>6
<1> QED
  <2> HIDE DEF n, V
  <2>1. MergedUpTo(list, generated) = f
    BY <1>8, <1>9, <1>10
  <2> QED
    BY <1>6, <1>8, <2>1 DEF n, V

LEMMA MergesInTurn ==
  ASSUME NEW list \in Seq(Items), NEW generated \in Seq(Items)
  PROVE  /\ MergedUpTo(list, generated) \in [0 .. Len(generated) -> Seq(Items)]
         /\ MergedUpTo(list, generated)[0] = list
         /\ \A j \in 1 .. Len(generated) :
              MergedUpTo(list, generated)[j]
                = MergeEntry(MergedUpTo(list, generated)[j - 1], generated[j])
<1> PICK f : f = MergedUpTo(list, generated)
  OBVIOUS
<1>1. f = MergeStep(list, generated, f) /\ f \in [0 .. Len(generated) -> Seq(Items)]
  BY MergesDefined
<1>2. Len(generated) \in Nat
  OBVIOUS
<1>3. MergeStep(list, generated, f)[0] = list
  BY <1>2 DEF MergeStep
<1>4. ASSUME NEW j \in 1 .. Len(generated)
      PROVE  MergeStep(list, generated, f)[j] = MergeEntry(f[j - 1], generated[j])
  BY <1>2 DEF MergeStep
<1> QED
  BY <1>1, <1>3, <1>4

\* What is true of a list and stays so when an entry is merged is true of the
\* merged list: a set of lists that merging does not leave.
LEMMA MergesWithin ==
  ASSUME NEW list \in Seq(Items), NEW generated \in Seq(Items), NEW T, list \in T,
         \A m \in Seq(Items), n \in DOMAIN generated : m \in T => MergeEntry(m, generated[n]) \in T
  PROVE  Merged(list, generated) \in T
<1> PICK f : f = MergedUpTo(list, generated)
  OBVIOUS
<1> DEFINE N == Len(generated)
           U == {k \in 0 .. N : f[k] \in T}
<1>1. N \in Nat /\ DOMAIN generated = 1 .. N
  OBVIOUS
<1>2. 0 \in U
  BY <1>1, MergesInTurn
<1>3. ASSUME NEW k \in 0 .. N - 1, k \in U PROVE k + 1 \in U
  <2>1. PICK j : j = k + 1
    OBVIOUS
  <2>2. j \in 1 .. N /\ j - 1 = k /\ j \in 0 .. N
    BY <1>1, <2>1
  <2>3. f[j] = MergeEntry(f[j - 1], generated[j])
    BY <2>2, MergesInTurn
  <2>4. f[j - 1] \in T /\ f[j - 1] \in Seq(Items)
    <3>1. f \in [0 .. N -> Seq(Items)]
      BY MergesInTurn
    <3>2. f[k] \in T /\ f[k] \in Seq(Items)
      BY <1>3, <3>1
    <3> QED
      BY <2>2, <3>2
  <2>5. f[j] \in T
    BY <1>1, <2>2, <2>3, <2>4
  <2> QED
    BY <2>1, <2>2, <2>5
<1>4. 0 .. N \subseteq U
  <2> HIDE DEF U, N
  <2> QED
    BY <1>1, <1>2, <1>3, InductionOn
<1>5. N \in U
  BY <1>1, <1>4
<1> QED
  BY <1>5 DEF Merged

LEMMA MergedTypes ==
  ASSUME NEW list \in Seq(Items), NEW generated \in Seq(Items)
  PROVE  Merged(list, generated) \in Seq(Items)
<1>1. \A m \in Seq(Items), n \in DOMAIN generated : m \in Seq(Items) => MergeEntry(m, generated[n]) \in Seq(Items)
  BY MergeTypes
<1> QED
  BY <1>1, MergesWithin

-----------------------------------------------------------------------------
(* What was there stays there. *)

\* The entry has the keys it had, with their values or those of an entry generated
\* for its key, and goes by its key unless it was turned into a hook.
KeptEntry(e, d) ==
  /\ DOMAIN e \subseteq DOMAIN d
  /\ \A k \in DOMAIN e :
       d[k] = e[k] \/ \E g \in Generated : EntryKey(g) = EntryKey(e) /\ k \in DOMAIN g /\ d[k] = g[k]
  /\ EntryKey(d) = EntryKey(e) \/ \E g \in Generated : Turned(g, d)

KeptList(before, after) ==
  \A i \in DOMAIN before : i \in DOMAIN after /\ KeptEntry(before[i], after[i])

LEMMA KeptOver ==
  ASSUME Apart, NEW g \in Generated, g \in Items, NEW e, NEW d \in Items, KeptEntry(e, d),
         EntryKey(g) = EntryKey(d), EntryKey(g) # <<>>
  PROVE  KeptEntry(e, Over(g, d))
<1> PICK o : o = Over(g, d)
  OBVIOUS
<1>1. /\ o \in Items /\ DOMAIN o = DOMAIN g \cup DOMAIN d
      /\ \A k \in DOMAIN g : o[k] = g[k]
      /\ \A k \in DOMAIN d : k \notin DOMAIN g => o[k] = d[k]
  BY OverItems
<1>2. EntryKey(d) = EntryKey(e)
  BY TurnedAway DEF KeptEntry
<1>3. EntryKey(o) = EntryKey(e) \/ Turned(g, o)
  BY <1>2, KeyOver
<1>4. ASSUME NEW k \in DOMAIN e
      PROVE  \/ o[k] = e[k]
             \/ \E h \in Generated : EntryKey(h) = EntryKey(e) /\ k \in DOMAIN h /\ o[k] = h[k]
  <2>1. CASE k \in DOMAIN g
    BY <1>1, <1>2, <2>1
  <2>2. CASE k \notin DOMAIN g
    <3>1. k \in DOMAIN d
      BY DEF KeptEntry
    <3>2. o[k] = d[k]
      BY <1>1, <2>2, <3>1
    <3> QED
      BY <3>2 DEF KeptEntry
  <2> QED
    BY <2>1, <2>2
<1>5. DOMAIN e \subseteq DOMAIN o
  BY <1>1 DEF KeptEntry
<1> QED
  BY <1>3, <1>4, <1>5 DEF KeptEntry

LEMMA MergeKeeps ==
  ASSUME Apart, NEW before, NEW list \in Seq(Items), NEW g \in Generated, g \in Items,
         KeptList(before, list)
  PROVE  KeptList(before, MergeEntry(list, g))
<1>1. CASE ByKey(list, g)
  <2>1. PICK i \in DOMAIN list :
          FirstHit(list, i, g) /\ Replaced(list, MergeEntry(list, g), i, Over(g, list[i]))
    BY <1>1, MergesOver
  <2>2. PICK m : m = MergeEntry(list, g)
    OBVIOUS
  <2>3. PICK o : o = Over(g, list[i])
    OBVIOUS
  <2>4. DOMAIN m = DOMAIN list /\ m[i] = o /\ \A j \in DOMAIN list \ {i} : m[j] = list[j]
    BY <2>1, <2>2, <2>3 DEF Replaced
  <2>5. ASSUME NEW j \in DOMAIN before PROVE j \in DOMAIN m /\ KeptEntry(before[j], m[j])
    <3>1. j \in DOMAIN list /\ KeptEntry(before[j], list[j])
      BY DEF KeptList
    <3>2. CASE j = i
      <4>1. list[i] \in Items /\ EntryKey(g) = EntryKey(list[i]) /\ EntryKey(g) # <<>>
        BY <1>1, <2>1 DEF FirstHit, ByKey
      <4>2. KeptEntry(before[j], o)
        BY <2>3, <3>1, <3>2, <4>1, KeptOver
      <4> QED
        BY <2>4, <3>1, <3>2, <4>2
    <3>3. CASE j # i
      BY <2>4, <3>1, <3>3
    <3> QED
      BY <3>2, <3>3
  <2> QED
    BY <2>2, <2>5 DEF KeptList
<1>2. CASE ~ByKey(list, g) /\ InList(list, g)
  BY <1>2, MergesNothing
<1>3. CASE ~ByKey(list, g) /\ ~InList(list, g)
  BY <1>3, MergesOnto DEF Added, KeptList
<1> QED
  BY <1>1, <1>2, <1>3

LEMMA VersionsAre ==
  ASSUME NEW v \in Versions
  PROVE  /\ Entries[v] \in Seq(Items)
         /\ \A n \in DOMAIN Entries[v] : Entries[v][n] \in Generated /\ Entries[v][n] \in Items
<1>1. Entries[v] \in Seq(Items)
  BY BundleShape
<1> QED
  BY <1>1 DEF Generated

LEMMA MergedKeeps ==
  ASSUME Apart, NEW before, NEW list \in Seq(Items), NEW v \in Versions, KeptList(before, list)
  PROVE  KeptList(before, Merged(list, Entries[v]))
<1> DEFINE T == {m \in Seq(Items) : KeptList(before, m)}
<1>1. list \in T
  OBVIOUS
<1>2. ASSUME NEW m \in Seq(Items), NEW n \in DOMAIN Entries[v], m \in T
      PROVE  MergeEntry(m, Entries[v][n]) \in T
  <2>1. Entries[v][n] \in Generated /\ Entries[v][n] \in Items
    BY VersionsAre
  <2> QED
    BY <1>2, <2>1, MergeKeeps, MergeTypes
<1>3. Merged(list, Entries[v]) \in T
  <2>1. Entries[v] \in Seq(Items)
    BY VersionsAre
  <2> HIDE DEF T
  <2> QED
    BY <1>1, <1>2, <2>1, MergesWithin
<1> QED
  BY <1>3

-----------------------------------------------------------------------------
(* What was merged is there, and merging it again changes nothing. *)

ShadowedBy(list, g) ==
  \E i \in DOMAIN list :
    Turned(g, list[i]) /\ "name" \in DOMAIN list[i] /\ list[i]["name"] = g["name"]

HasIt(list, i, g) == FirstHit(list, i, g) /\ Over(g, list[i]) = list[i]

Settled(list, g) ==
  \/ EntryKey(g) = <<>> /\ InList(list, g)
  \/ EntryKey(g) # <<>> /\ \E i \in DOMAIN list : HasIt(list, i, g)
  \/ ShadowedBy(list, g)

LEMMA SettledBy ==
  ASSUME NEW list \in Seq(Items), NEW g \in Items
  PROVE  Settled(MergeEntry(list, g), g)
<1> PICK m : m = MergeEntry(list, g)
  OBVIOUS
<1>1. CASE ByKey(list, g)
  <2>1. PICK i \in DOMAIN list :
          FirstHit(list, i, g) /\ Replaced(list, MergeEntry(list, g), i, Over(g, list[i]))
    BY <1>1, MergesOver
  <2>2. PICK o : o = Over(g, list[i])
    OBVIOUS
  <2>3. DOMAIN m = DOMAIN list /\ m[i] = o /\ \A j \in DOMAIN list \ {i} : m[j] = list[j]
    BY <2>1, <2>2 DEF Replaced
  <2>4. list[i] \in Items /\ EntryKey(list[i]) = EntryKey(g) /\ EntryKey(g) # <<>>
    BY <1>1, <2>1 DEF FirstHit, ByKey
  <2>5. /\ o \in Items /\ DOMAIN o = DOMAIN g \cup DOMAIN list[i]
        /\ \A k \in DOMAIN g : o[k] = g[k]
    BY <2>2, <2>4, OverItems
  <2>6. CASE EntryKey(o) = EntryKey(g)
    <3>1. ASSUME NEW j \in DOMAIN m, EntryKey(m[j]) = EntryKey(g) PROVE i <= j
      <4>1. CASE j = i
        <5>1. i \in Nat
          BY <2>1
        <5> QED
          BY <4>1, <5>1
      <4>2. CASE j # i
        BY <2>1, <2>3, <3>1, <4>2 DEF FirstHit
      <4> QED
        BY <4>1, <4>2
    <3>2. FirstHit(m, i, g)
      BY <2>1, <2>3, <2>6, <3>1 DEF FirstHit
    <3>3. Over(g, m[i]) = m[i]
      BY <2>3, <2>5, OverItself
    <3> QED
      BY <2>1, <2>3, <2>4, <3>2, <3>3 DEF Settled, HasIt
  <2>7. CASE Turned(g, o)
    <3>1. "name" \in DOMAIN g
      BY <2>7 DEF Turned
    <3>2. "name" \in DOMAIN o /\ o["name"] = g["name"]
      BY <2>5, <3>1
    <3> QED
      BY <2>1, <2>3, <2>7, <3>2 DEF Settled, ShadowedBy
  <2> QED
    BY <2>2, <2>4, <2>6, <2>7, KeyOver
<1>2. CASE ~ByKey(list, g) /\ InList(list, g)
  <2>1. EntryKey(g) = <<>>
    BY <1>2 DEF ByKey, Hits, InList
  <2> QED
    BY <1>2, <2>1, MergesNothing DEF Settled
<1>3. CASE ~ByKey(list, g) /\ ~InList(list, g)
  <2>1. PICK z : z = Len(list) + 1
    OBVIOUS
  <2>2. DOMAIN m = DOMAIN list \cup {z} /\ m[z] = g /\ \A j \in DOMAIN list : m[j] = list[j]
    BY <1>3, <2>1, MergesOnto DEF Added
  <2>3. CASE EntryKey(g) = <<>>
    BY <2>2, <2>3 DEF Settled, InList
  <2>4. CASE EntryKey(g) # <<>>
    <3>1. \A j \in DOMAIN list : EntryKey(list[j]) # EntryKey(g)
      BY <1>3, <2>4 DEF ByKey, Hits
    <3>2. z <= z
      BY <2>1
    <3>3. FirstHit(m, z, g)
      BY <2>2, <3>1, <3>2 DEF FirstHit
    <3>4. Over(g, m[z]) = m[z]
      BY <2>2, OverItself
    <3> QED
      BY <2>2, <2>4, <3>3, <3>4 DEF Settled, HasIt
  <2> QED
    BY <2>3, <2>4
<1> QED
  BY <1>1, <1>2, <1>3

LEMMA SettledStays ==
  ASSUME Apart, NEW list \in Seq(Items), NEW g \in Generated, NEW h \in Generated, h \in Items,
         EntryKey(h) = <<>> \/ EntryKey(h) # EntryKey(g), Settled(list, g)
  PROVE  Settled(MergeEntry(list, h), g)
<1> PICK m : m = MergeEntry(list, h)
  OBVIOUS
<1>1. CASE ByKey(list, h)
  <2>1. PICK j \in DOMAIN list :
          FirstHit(list, j, h) /\ Replaced(list, MergeEntry(list, h), j, Over(h, list[j]))
    BY <1>1, MergesOver
  <2>2. PICK o : o = Over(h, list[j])
    OBVIOUS
  <2>3. DOMAIN m = DOMAIN list /\ m[j] = o /\ \A k \in DOMAIN list \ {j} : m[k] = list[k]
    BY <2>1, <2>2 DEF Replaced
  <2>4. /\ list[j] \in Items /\ EntryKey(list[j]) = EntryKey(h) /\ EntryKey(h) # <<>>
        /\ EntryKey(h) # EntryKey(g)
    BY <1>1, <2>1 DEF FirstHit, ByKey
  <2>5. EntryKey(o) # EntryKey(g)
    BY <2>2, <2>4, KeyOver, TurnedAway
  <2>6. CASE EntryKey(g) = <<>> /\ InList(list, g)
    <3>1. PICK i \in DOMAIN list : list[i] = g
      BY <2>6 DEF InList
    <3>2. i # j
      BY <2>4, <2>6, <3>1
    <3> QED
      BY <2>3, <2>6, <3>1, <3>2 DEF Settled, InList
  <2>7. CASE EntryKey(g) # <<>> /\ \E i \in DOMAIN list : HasIt(list, i, g)
    <3>1. PICK i \in DOMAIN list : HasIt(list, i, g)
      BY <2>7
    <3>2. i # j
      BY <2>4, <3>1 DEF HasIt, FirstHit
    <3>3. ASSUME NEW k \in DOMAIN m, EntryKey(m[k]) = EntryKey(g) PROVE i <= k
      <4>1. k # j
        BY <2>3, <2>5, <3>3
      <4> QED
        BY <2>3, <3>1, <3>3, <4>1 DEF HasIt, FirstHit
    <3>4. HasIt(m, i, g)
      BY <2>3, <3>1, <3>2, <3>3 DEF HasIt, FirstHit
    <3> QED
      BY <2>3, <2>7, <3>4 DEF Settled
  <2>8. CASE ShadowedBy(list, g)
    <3>1. PICK i \in DOMAIN list :
            Turned(g, list[i]) /\ "name" \in DOMAIN list[i] /\ list[i]["name"] = g["name"]
      BY <2>8 DEF ShadowedBy
    <3>2. i # j
      BY <2>4, <3>1, TurnedAway
    <3> QED
      BY <2>3, <3>1, <3>2 DEF Settled, ShadowedBy
  <2> QED
    BY <2>6, <2>7, <2>8 DEF Settled
<1>2. CASE ~ByKey(list, h) /\ InList(list, h)
  BY <1>2, MergesNothing
<1>3. CASE ~ByKey(list, h) /\ ~InList(list, h)
  <2>1. PICK z : z = Len(list) + 1
    OBVIOUS
  <2>2. DOMAIN m = DOMAIN list \cup {z} /\ \A j \in DOMAIN list : m[j] = list[j]
    BY <1>3, <2>1, MergesOnto DEF Added
  <2>3. \A j \in DOMAIN list : j <= z
    BY <2>1
  <2>4. CASE EntryKey(g) = <<>> /\ InList(list, g)
    BY <2>2, <2>4 DEF Settled, InList
  <2>5. CASE EntryKey(g) # <<>> /\ \E i \in DOMAIN list : HasIt(list, i, g)
    <3>1. PICK i \in DOMAIN list : HasIt(list, i, g)
      BY <2>5
    <3>2. HasIt(m, i, g)
      BY <2>2, <2>3, <3>1 DEF HasIt, FirstHit
    <3> QED
      BY <2>2, <2>5, <3>2 DEF Settled
  <2>6. CASE ShadowedBy(list, g)
    BY <2>2, <2>6 DEF Settled, ShadowedBy
  <2> QED
    BY <2>4, <2>5, <2>6 DEF Settled
<1> QED
  BY <1>1, <1>2, <1>3

LEMMA SettledMerges ==
  ASSUME NEW list \in Seq(Items), NEW g \in Items, Settled(list, g), ~ShadowedBy(list, g)
  PROVE  MergeEntry(list, g) = list
<1>1. CASE EntryKey(g) = <<>> /\ InList(list, g)
  BY <1>1, MergesNothing DEF ByKey
<1>2. CASE EntryKey(g) # <<>> /\ \E i \in DOMAIN list : HasIt(list, i, g)
  <2>1. PICK i \in DOMAIN list : HasIt(list, i, g)
    BY <1>2
  <2>2. ByKey(list, g)
    BY <1>2, <2>1 DEF ByKey, Hits, HasIt, FirstHit
  <2>3. PICK n \in DOMAIN list :
          FirstHit(list, n, g) /\ Replaced(list, MergeEntry(list, g), n, Over(g, list[n]))
    BY <2>2, MergesOver
  <2>4. n = i
    <3>1. n \in Nat /\ i \in Nat
      OBVIOUS
    <3>2. n <= i /\ i <= n
      BY <2>1, <2>3 DEF HasIt, FirstHit
    <3> QED
      BY <3>1, <3>2
  <2>5. PICK m : m = MergeEntry(list, g)
    OBVIOUS
  <2>6. m \in Seq(Items) /\ DOMAIN m = DOMAIN list /\ m[n] = list[n]
    BY <2>1, <2>3, <2>4, <2>5 DEF Replaced, HasIt
  <2>7. \A j \in DOMAIN list : m[j] = list[j]
    BY <2>3, <2>5, <2>6 DEF Replaced
  <2>8. m = list
    <3>1. Len(m) = Len(list) /\ DOMAIN list = 1 .. Len(list)
      BY <2>6
    <3> QED
      BY <2>6, <2>7, <3>1
  <2> QED
    BY <2>5, <2>8
<1> QED
  BY <1>1, <1>2 DEF Settled

SettledIn(list, generated, k) == \A n \in 1 .. k : Settled(list, generated[n])

LEMMA MergedSettles ==
  ASSUME Apart, NoKeyTwice, NEW list \in Seq(Items), NEW v \in Versions
  PROVE  SettledIn(Merged(list, Entries[v]), Entries[v], Len(Entries[v]))
<1> PICK E : E = Entries[v]
  OBVIOUS
<1> PICK f : f = MergedUpTo(list, E)
  OBVIOUS
<1> DEFINE N == Len(E)
           U == {k \in 0 .. N : SettledIn(f[k], E, k)}
<1>1. E \in Seq(Items) /\ N \in Nat /\ DOMAIN E = 1 .. N
  BY VersionsAre
<1>2. 0 \in U
  BY <1>1 DEF SettledIn
<1>3. ASSUME NEW k \in 0 .. N - 1, k \in U PROVE k + 1 \in U
  <2>1. PICK j : j = k + 1
    OBVIOUS
  <2>2. j \in 1 .. N /\ j - 1 = k /\ j \in 0 .. N /\ \A n \in 1 .. j : n = j \/ n \in 1 .. k
    BY <1>1, <2>1
  <2>3. f[j] = MergeEntry(f[k], E[j]) /\ f[k] \in Seq(Items)
    <3>1. \A i \in 1 .. N : f[i] = MergeEntry(f[i - 1], E[i])
      BY <1>1, MergesInTurn
    <3>2. f[j] = MergeEntry(f[j - 1], E[j])
      BY <2>2, <3>1
    <3>3. f \in [0 .. N -> Seq(Items)] /\ k \in 0 .. N
      BY <1>1, <2>2, MergesInTurn
    <3> QED
      BY <2>2, <3>2, <3>3
  <2>4. ASSUME NEW n \in 1 .. j PROVE Settled(f[j], E[n])
    <3>1. E[j] \in Generated /\ E[j] \in Items /\ n \in DOMAIN E /\ j \in DOMAIN E
      BY <1>1, <2>2, VersionsAre
    <3>2. CASE n = j
      BY <2>3, <3>1, <3>2, SettledBy
    <3>3. CASE n # j
      <4>1. n \in 1 .. k /\ E[n] \in Generated
        BY <1>1, <2>2, <3>1, <3>3, VersionsAre
      <4>2. Settled(f[k], E[n])
        BY <1>3, <4>1 DEF SettledIn
      <4>3. EntryKey(E[j]) = <<>> \/ EntryKey(E[j]) # EntryKey(E[n])
        BY <3>1, <3>3 DEF NoKeyTwice
      <4> QED
        BY <2>3, <3>1, <4>1, <4>2, <4>3, SettledStays
    <3> QED
      BY <3>2, <3>3
  <2> QED
    BY <2>1, <2>2, <2>4 DEF SettledIn
<1>4. 0 .. N \subseteq U
  <2> HIDE DEF U, N
  <2> QED
    BY <1>1, <1>2, <1>3, InductionOn
<1>5. N \in U
  BY <1>1, <1>4
<1> QED
  BY <1>5 DEF Merged

\* What is generated is settled in itself.
LEMMA GeneratedSettles ==
  ASSUME NoKeyTwice, NEW v \in Versions
  PROVE  SettledIn(Entries[v], Entries[v], Len(Entries[v]))
<1> PICK E : E = Entries[v]
  OBVIOUS
<1>1. E \in Seq(Items) /\ DOMAIN E = 1 .. Len(E) /\ \A n \in DOMAIN E : E[n] \in Items
  BY VersionsAre
<1>2. ASSUME NEW n \in DOMAIN E PROVE Settled(E, E[n])
  <2>1. CASE EntryKey(E[n]) = <<>>
    BY <2>1 DEF Settled, InList
  <2>2. CASE EntryKey(E[n]) # <<>>
    <3>1. n <= n
      BY <1>1
    <3>2. FirstHit(E, n, E[n])
      BY <2>2, <3>1 DEF FirstHit, NoKeyTwice
    <3>3. Over(E[n], E[n]) = E[n]
      BY <1>1, OverItself
    <3> QED
      BY <2>2, <3>2, <3>3 DEF Settled, HasIt
  <2> QED
    BY <2>1, <2>2
<1> QED
  BY <1>1, <1>2 DEF SettledIn

\* A list in which a version is settled is not changed by it, but for shadows.
LEMMA MergedAgain ==
  ASSUME NEW v \in Versions, NEW list \in Seq(Items),
         SettledIn(list, Entries[v], Len(Entries[v])),
         \A g \in Generated : ~ShadowedBy(list, g)
  PROVE  Merged(list, Entries[v]) = list
<1>1. Entries[v] \in Seq(Items) /\ DOMAIN Entries[v] = 1 .. Len(Entries[v])
  BY VersionsAre
<1>2. ASSUME NEW m \in Seq(Items), NEW n \in DOMAIN Entries[v], m \in {list}
      PROVE  MergeEntry(m, Entries[v][n]) \in {list}
  <2>1. Entries[v][n] \in Generated /\ Entries[v][n] \in Items
    BY VersionsAre
  <2>2. Settled(list, Entries[v][n])
    BY <1>1 DEF SettledIn
  <2> QED
    BY <1>2, <2>1, <2>2, SettledMerges
<1>3. Merged(list, Entries[v]) \in {list}
  BY <1>1, <1>2, MergesWithin
<1> QED
  BY <1>3

-----------------------------------------------------------------------------
(***************************************************************************)
(* Automations: what is in the files.                                      *)
(***************************************************************************)
LEMMA ShapeOf ==
  ASSUME NEW f \in BundleFiles
  PROVE  /\ Form[f] \in {"script", "notes", "config"}
         /\ Form[f] = "script" => /\ FileContents(f) = {NotThere, Shreds, LocalText} \cup Versions
                                  /\ CutOff(f) = Shreds
         /\ Form[f] = "notes" => /\ FileContents(f) = {NotThere} \cup Instructions
                                 /\ CutOff(f) = Text(Shreds, 0)
         /\ Form[f] = "config" => /\ FileContents(f) = {NotThere, Shreds} \cup JsonFiles
                                  /\ CutOff(f) = Shreds
<1>1. Form[f] \in {"script", "notes", "config"}
  BY BundleShape
<1>2. Form[f] = "script" => /\ FileContents(f) = {NotThere, Shreds, LocalText} \cup Versions
                            /\ CutOff(f) = Shreds
  BY DEF FileContents, CutOff
<1>3. ASSUME Form[f] = "notes"
      PROVE  FileContents(f) = {NotThere} \cup Instructions /\ CutOff(f) = Text(Shreds, 0)
  <2>1. CutOff(f) = Text(Shreds, 0)
    BY <1>3 DEF CutOff
  <2>2. Text(Shreds, 0) \in Instructions
    BY DEF Text, Instructions, Sections
  <2>3. FileContents(f) = {NotThere, Text(Shreds, 0)} \cup Instructions
    BY <1>3, <2>1 DEF FileContents
  <2> QED
    BY <2>1, <2>2, <2>3
<1>4. Form[f] = "config" => /\ FileContents(f) = {NotThere, Shreds} \cup JsonFiles
                            /\ CutOff(f) = Shreds
  BY DEF FileContents, CutOff
<1> QED
  BY <1>1, <1>2, <1>3, <1>4

\* A text of instructions by its parts.
LEMMA TextsAre ==
  /\ \A a, s : Text(a, s).own = a /\ Text(a, s).section = s
  /\ \A a, s, b, t : Text(a, s) = Text(b, t) => a = b /\ s = t
  /\ \A c \in Instructions : /\ c.own \in {0, Shreds, LocalText} \cup Versions
                             /\ c = Text(c.own, c.section)
  /\ \A a \in {0, Shreds, LocalText} \cup Versions, s \in Sections : Text(a, s) \in Instructions
BY DEF Text, Instructions

\* What a section may hold.
LEMMA SectionsAre ==
  /\ 0 \in Sections
  /\ \A v \in Versions : /\ v \in Sections /\ Undollared(v) \in Sections
                          /\ v # 0 /\ Undollared(v) # 0 /\ Undollared(v) # v
<1>1. MaxVersion \in Nat \ {0}
  BY BundleShape
<1>2. \A v \in Versions : v # 0 /\ Undollared(v) # 0 /\ Undollared(v) # v
  BY <1>1 DEF Versions, Undollared
<1> QED
  BY <1>2 DEF Sections

\* A configuration by its parts.
LEMMA JsonFilesAre ==
  /\ \A c \in JsonFiles : c.list \in Seq(Items) /\ c.layout \in {"printed", "other"}
  /\ \A list \in Seq(Items), layout \in {"printed", "other"} :
       [list |-> list, layout |-> layout] \in JsonFiles
BY DEF JsonFiles

\* Marks that are no content.
LEMMA Distinct ==
  /\ Versions \subseteq Nat /\ 0 \notin Versions /\ 1 \in Versions
  /\ LocalText \notin Versions /\ Shreds \notin Versions /\ NotThere \notin Versions
  /\ LocalText # Shreds /\ LocalText # NotThere /\ NotThere # Shreds
  /\ LocalText # 0 /\ Shreds # 0
  /\ NotThere \notin Instructions /\ NotThere \notin JsonFiles /\ Shreds \notin JsonFiles
  /\ Unmanaged # LocalText
<1>1. Versions \subseteq Nat /\ 0 \notin Versions /\ 1 \in Versions
  BY BundleShape DEF Versions
<1>2. /\ LocalText # Shreds /\ {LocalText, Shreds} \cap Nat = {}
      /\ NotThere \notin {LocalText, Shreds, Unmanaged} \cup Nat \cup Instructions \cup JsonFiles
      /\ Unmanaged \notin {LocalText} \cup Nat
      /\ Shreds \notin JsonFiles
  BY BundleShape
<1> QED
  BY <1>1, <1>2

\* What is planned of instructions.
LEMMA NotesAre ==
  ASSUME NEW f \in BundleFiles, NEW v \in Versions, NEW c, Form[f] = "notes"
  PROVE  /\ c = NotThere => Planned(f, v, c) = Text(0, v)
         /\ c # NotThere /\ c = Text(v, 0) => Planned(f, v, c) = c
         /\ c # NotThere /\ c # Text(v, 0) =>
              \/ /\ c.section # 0 /\ v \in Dollars
                 /\ Planned(f, v, c) = Text(c.own, Undollared(v))
              \/ /\ ~(c.section # 0 /\ v \in Dollars)
                 /\ Planned(f, v, c) = Text(c.own, v)
BY DEF Planned, MergedNotes

\* What is planned of a configuration.
LEMMA ConfigsAre ==
  ASSUME NEW f \in BundleFiles, NEW v \in Versions, NEW c, Form[f] = "config"
  PROVE  /\ Parses(f, c) =>
              Planned(f, v, c) = [list |-> Merged(c.list, Entries[v]), layout |-> "printed"]
         /\ ~Parses(f, c) => Planned(f, v, c) = AsServed(v)
         /\ AsServed(v).list = Entries[v] /\ AsServed(v).layout \in {"printed", "other"}
         /\ AsServed(v) \in JsonFiles
<1>1. Planned(f, v, c) = IF Parses(f, c) THEN MergedConfig(c, v) ELSE AsServed(v)
  BY DEF Planned
<1>2. Parses(f, c) =>
        Planned(f, v, c) = [list |-> Merged(c.list, Entries[v]), layout |-> "printed"]
  BY <1>1 DEF MergedConfig
<1>3. ~Parses(f, c) => Planned(f, v, c) = AsServed(v)
  BY <1>1
<1>4. /\ AsServed(v).list = Entries[v] /\ AsServed(v).layout \in {"printed", "other"}
      /\ AsServed(v) \in JsonFiles
  BY BundleShape DEF AsServed, JsonFiles
<1> QED
  BY <1>2, <1>3, <1>4

\* What is planned or written by an install.
Drawn(f, c) ==
  c \in FileContents(f) \ {NotThere, CutOff(f)} /\ (Form[f] = "script" => c # LocalText)

LEMMA PlannedIsDrawn ==
  ASSUME NEW f \in BundleFiles, NEW v \in Versions, NEW c \in FileContents(f)
  PROVE  Drawn(f, Planned(f, v, c))
<1>1. CASE Form[f] = "script"
  <2>1. Planned(f, v, c) = v
    BY <1>1 DEF Planned
  <2> QED
    BY <1>1, <2>1, ShapeOf, Distinct DEF Drawn
<1>2. CASE Form[f] = "notes"
  <2>1. c # NotThere => c.own \in {0, Shreds, LocalText} \cup Versions
    BY <1>2, ShapeOf, TextsAre
  <2>2. c # NotThere => c = Text(c.own, c.section)
    BY <1>2, ShapeOf, TextsAre
  <2>3. PICK a \in {0, Shreds, LocalText} \cup Versions, s \in Sections :
          Planned(f, v, c) = Text(a, s) /\ (s # 0 \/ a # Shreds)
    <3>1. CASE c = NotThere
      <4>1. Planned(f, v, c) = Text(0, v)
        BY <1>2, <3>1, NotesAre
      <4>2. 0 \in {0, Shreds, LocalText} \cup Versions /\ v \in Sections /\ v # 0
        BY SectionsAre
      <4> QED
        BY <4>1, <4>2
    <3>2. CASE c # NotThere /\ c = Text(v, 0)
      <4>1. Planned(f, v, c) = Text(v, 0)
        BY <1>2, <3>2, NotesAre
      <4>2. v \in {0, Shreds, LocalText} \cup Versions /\ 0 \in Sections /\ v # Shreds
        BY SectionsAre, Distinct
      <4> QED
        BY <4>1, <4>2
    <3>3. CASE c # NotThere /\ c # Text(v, 0)
      <4>1. \/ Planned(f, v, c) = Text(c.own, Undollared(v))
            \/ Planned(f, v, c) = Text(c.own, v)
        BY <1>2, <3>3, NotesAre
      <4>2. /\ v \in Sections /\ v # 0 /\ Undollared(v) \in Sections /\ Undollared(v) # 0
            /\ c.own \in {0, Shreds, LocalText} \cup Versions
        BY <2>1, <3>3, SectionsAre
      <4> QED
        BY <4>1, <4>2
    <3> QED
      BY <3>1, <3>2, <3>3
  <2>4. Planned(f, v, c) \in Instructions /\ Planned(f, v, c) # Text(Shreds, 0)
    BY <2>3, TextsAre
  <2> QED
    BY <1>2, <2>4, ShapeOf, Distinct DEF Drawn
<1>3. CASE Form[f] = "config"
  <2>1. Parses(f, c) => c \in JsonFiles
    BY <1>3, ShapeOf DEF Parses
  <2>2. Parses(f, c) => Merged(c.list, Entries[v]) \in Seq(Items)
    BY <2>1, JsonFilesAre, VersionsAre, MergedTypes
  <2>3. Planned(f, v, c) \in JsonFiles
    BY <1>3, <2>2, ConfigsAre, JsonFilesAre
  <2> QED
    BY <1>3, <2>3, ShapeOf, Distinct DEF Drawn
<1> QED
  BY <1>1, <1>2, <1>3, ShapeOf

-----------------------------------------------------------------------------
(* Types. *)

Stuff == UNION {FileContents(f) : f \in BundleFiles}

Plans == UNION {[S -> Stuff] : S \in SUBSET BundleFiles}

Jobs == [pc : {"ready", "filling", "listing"}, client : DOMAIN Bundle, version : Versions,
         content : Plans, todo : SUBSET BundleFiles, harms : SUBSET BundleFiles,
         alone : BOOLEAN]

JobTypes(i, newest) ==
  /\ i \in Jobs
  /\ i.version \in 1 .. newest
  /\ i.todo \subseteq FilesOf(i.client)
  /\ i.pc = "filling" => i.todo # {}
  /\ i.pc = "listing" => i.todo = {}
  /\ DOMAIN i.content = FilesOf(i.client)
  /\ \A f \in FilesOf(i.client) : Drawn(f, i.content[f])

AutoTypes ==
  /\ published \in Versions
  /\ disk \in [BundleFiles -> Stuff] /\ managed \in [BundleFiles -> Stuff \cup {Unmanaged}]
  /\ local \in [BundleFiles -> [content : Stuff, keep : BOOLEAN]]
  /\ \A f \in BundleFiles :
       /\ disk[f] \in FileContents(f) /\ local[f].content \in FileContents(f)
       /\ managed[f] \in FileContents(f) \cup {Unmanaged}
       /\ Form[f] = "script" => managed[f] # LocalText
  /\ installer \in [Installers -> Jobs \cup {Elsewhere}]
  /\ \A p \in Installers : installer[p] # Elsewhere => JobTypes(installer[p], published)
  /\ autoLog \in [events : Nat, settled : {<<>>} \cup (DOMAIN Bundle) \X Versions]

LEMMA JobsAre ==
  ASSUME NEW i \in Jobs
  PROVE  /\ i.pc \in {"ready", "filling", "listing"} /\ i # Elsewhere /\ i.pc # "elsewhere"
         /\ i.client \in DOMAIN Bundle /\ i.version \in Versions
         /\ i.todo \subseteq BundleFiles /\ i.harms \subseteq BundleFiles /\ i.alone \in BOOLEAN
         /\ i.content \in Plans
BY DEF Jobs, Elsewhere

LEMMA FilesAre == ASSUME NEW client \in DOMAIN Bundle PROVE FilesOf(client) \subseteq BundleFiles
BY BundleShape DEF FilesOf

LEMMA NextIsToDo ==
  ASSUME NEW i, i.client \in DOMAIN Bundle, i.todo \subseteq FilesOf(i.client), i.todo # {}
  PROVE  NextFile(i) \in i.todo
<1> PICK places : places = {n \in DOMAIN Bundle[i.client] : Bundle[i.client][n] \in i.todo}
  OBVIOUS
<1>1. places \in SUBSET Nat /\ places # {}
  BY BundleShape DEF FilesOf
<1>2. \E n \in places : \A m \in places : n <= m
  BY <1>1, NatMin
<1>3. PICK n : n = CHOOSE k \in places : \A m \in places : k <= m
  OBVIOUS
<1>4. n \in places
  BY <1>2, <1>3
<1> QED
  BY <1>3, <1>4 DEF NextFile

LEMMA NextSame ==
  ASSUME NEW i, NEW j, i.client = j.client, i.todo = j.todo
  PROVE  NextFile(i) = NextFile(j)
BY DEF NextFile

\* An installer at work.
LEMMA AtWork ==
  ASSUME AutoTypes, NEW p \in Installers
  PROVE  /\ installer[p].pc # "elsewhere" <=> installer[p] # Elsewhere
         /\ installer[p].pc = "elsewhere" <=> installer[p] = Elsewhere
         /\ installer[p] # Elsewhere => installer[p] \in Jobs /\ JobTypes(installer[p], published)
<1>1. installer[p] \in Jobs \cup {Elsewhere}
  BY DEF AutoTypes
<1>2. Elsewhere.pc = "elsewhere"
  BY DEF Elsewhere
<1> QED
  BY <1>1, <1>2, JobsAre DEF AutoTypes

LEMMA OneInstaller ==
  ASSUME AutoTypes, NEW p \in Installers, NEW x, installer' = [installer EXCEPT ![p] = x]
  PROVE  /\ installer'[p] = x /\ \A q \in Installers : q # p => installer'[q] = installer[q]
         /\ x \in Jobs \cup {Elsewhere} => installer' \in [Installers -> Jobs \cup {Elsewhere}]
BY DEF AutoTypes

\* The same work, but for whether it is alone and what was edited meanwhile.
SameWork(i, j) ==
  /\ j \in Jobs
  /\ j.pc = i.pc /\ j.client = i.client /\ j.version = i.version /\ j.content = i.content
  /\ j.todo = i.todo /\ i.harms \subseteq j.harms

LEMMA DisturbedAre ==
  ASSUME AutoTypes
  PROVE  /\ Disturbed \in [Installers -> Jobs \cup {Elsewhere}]
         /\ \A p \in Installers :
              /\ installer[p] = Elsewhere => Disturbed[p] = Elsewhere
              /\ installer[p] # Elsewhere =>
                   /\ SameWork(installer[p], Disturbed[p])
                   /\ ~Disturbed[p].alone /\ Disturbed[p].harms = installer[p].harms
<1>1. ASSUME NEW p \in Installers, installer[p] # Elsewhere
      PROVE  /\ Disturbed[p] = [installer[p] EXCEPT !.alone = FALSE]
             /\ SameWork(installer[p], Disturbed[p])
             /\ ~Disturbed[p].alone /\ Disturbed[p].harms = installer[p].harms
  <2>1. installer[p] \in Jobs
    BY <1>1, AtWork
  <2>2. Disturbed[p] = [installer[p] EXCEPT !.alone = FALSE]
    BY <1>1 DEF Disturbed
  <2> QED
    BY <2>1, <2>2 DEF Jobs, SameWork
<1>2. ASSUME NEW p \in Installers, installer[p] = Elsewhere PROVE Disturbed[p] = Elsewhere
  BY <1>2 DEF Disturbed
<1>3. Disturbed = [p \in Installers |-> Disturbed[p]]
  BY DEF Disturbed
<1>4. \A p \in Installers : Disturbed[p] \in Jobs \cup {Elsewhere}
  BY <1>1, <1>2 DEF SameWork
<1> QED
  BY <1>1, <1>2, <1>3, <1>4

LEMMA SameTypes ==
  ASSUME NEW i, NEW j, NEW newest, SameWork(i, j), JobTypes(i, newest)
  PROVE  JobTypes(j, newest)
BY DEF SameWork, JobTypes

LEMMA LocalIs ==
  ASSUME NEW f \in BundleFiles, NEW text \in LocalTexts, NEW list \in LocalEntries
  PROVE  LocalContent(f, text, list) \in FileContents(f) \ {CutOff(f)}
<1>1. text \in {LocalText, 1} /\ text \in {0, Shreds, LocalText} \cup Versions /\ text # Shreds
  BY Distinct DEF LocalTexts
<1>2. list \in JsonFiles
  BY BundleShape
<1>3. CASE Form[f] = "script"
  BY <1>1, <1>3, ShapeOf, Distinct DEF LocalContent
<1>4. CASE Form[f] = "notes"
  <2>1. LocalContent(f, text, list) = Text(text, 0)
    BY <1>4 DEF LocalContent
  <2>2. Text(text, 0) \in Instructions /\ Text(text, 0) # Text(Shreds, 0)
    BY <1>1, TextsAre, SectionsAre
  <2> QED
    BY <1>4, <2>1, <2>2, ShapeOf
<1>5. CASE Form[f] = "config"
  BY <1>2, <1>5, ShapeOf, Distinct DEF LocalContent
<1> QED
  BY <1>3, <1>4, <1>5, ShapeOf

FirstInstalled(f) == CASE Form[f] = "script" -> 1
                       [] Form[f] = "notes"  -> Text(0, 1)
                       [] Form[f] = "config" -> AsServed(1)

LEMMA FirstIs ==
  ASSUME NEW f \in BundleFiles
  PROVE  Drawn(f, FirstInstalled(f))
<1>1. CASE Form[f] = "script"
  BY <1>1, ShapeOf, Distinct DEF FirstInstalled, Drawn
<1>2. CASE Form[f] = "notes"
  <2>1. Text(0, 1) \in Instructions /\ Text(0, 1) # Text(Shreds, 0)
    BY TextsAre, SectionsAre, Distinct
  <2> QED
    BY <1>2, <2>1, ShapeOf, Distinct DEF FirstInstalled, Drawn
<1>3. CASE Form[f] = "config"
  <2>1. AsServed(1) \in JsonFiles
    BY <1>3, ConfigsAre, Distinct
  <2> QED
    BY <1>3, <2>1, ShapeOf, Distinct DEF FirstInstalled, Drawn
<1> QED
  BY <1>1, <1>2, <1>3, ShapeOf

LEMMA NotThereIs ==
  ASSUME NEW f \in BundleFiles
  PROVE  NotThere \in FileContents(f) \ {CutOff(f)} /\ CutOff(f) \in FileContents(f)
<1>1. NotThere # Text(Shreds, 0)
  <2>1. Text(Shreds, 0) \in Instructions
    BY TextsAre, SectionsAre
  <2> QED
    BY <2>1, Distinct
<1> QED
  BY <1>1, ShapeOf, Distinct DEF FileContents

LEMMA AutoStarts == AutoInit => AutoTypes
<1> SUFFICES ASSUME AutoInit PROVE AutoTypes
  OBVIOUS
<1>1. published \in Versions
  BY Distinct DEF AutoInit
<1>2. /\ installer \in [Installers -> Jobs \cup {Elsewhere}]
      /\ \A p \in Installers : installer[p] = Elsewhere
  BY DEF AutoInit
<1>3. autoLog \in [events : Nat, settled : {<<>>} \cup (DOMAIN Bundle) \X Versions]
  BY DEF AutoInit
<1>4. ASSUME NEW there \in {{}, BundleFiles}, NEW text \in LocalTexts, NEW list \in LocalEntries,
             disk = [f \in BundleFiles |->
                      IF f \in there THEN LocalContent(f, text, list) ELSE NotThere],
             managed = [f \in BundleFiles |-> Unmanaged],
             local = [f \in BundleFiles |-> [content |-> disk[f], keep |-> TRUE]]
      PROVE  AutoTypes
  <2>1. ASSUME NEW f \in BundleFiles
        PROVE  /\ disk[f] \in FileContents(f) /\ disk[f] \in Stuff
               /\ managed[f] = Unmanaged
               /\ local[f] = [content |-> disk[f], keep |-> TRUE]
    <3>1. disk[f] \in FileContents(f)
      BY <1>4, LocalIs, NotThereIs
    <3> QED
      BY <1>4, <3>1 DEF Stuff
  <2>2. disk \in [BundleFiles -> Stuff]
    BY <1>4, <2>1
  <2>3. managed \in [BundleFiles -> Stuff \cup {Unmanaged}]
    BY <1>4
  <2>4. local \in [BundleFiles -> [content : Stuff, keep : BOOLEAN]]
    BY <1>4, <2>1
  <2>5. Unmanaged # LocalText
    BY Distinct
  <2>6. \A f \in BundleFiles : local[f].content = disk[f]
    BY <1>4
  <2> HIDE DEF Stuff, Jobs
  <2> QED
    BY <1>1, <1>2, <1>3, <2>1, <2>2, <2>3, <2>4, <2>5, <2>6 DEF AutoTypes
<1>5. ASSUME disk = [f \in BundleFiles |-> FirstInstalled(f)],
             managed = disk,
             local = [f \in BundleFiles |-> [content |-> NotThere, keep |-> TRUE]]
      PROVE  AutoTypes
  <2>1. ASSUME NEW f \in BundleFiles
        PROVE  /\ disk[f] \in FileContents(f) /\ disk[f] \in Stuff /\ NotThere \in Stuff
               /\ Form[f] = "script" => disk[f] # LocalText
               /\ NotThere \in FileContents(f)
    <3>1. Drawn(f, disk[f])
      BY <1>5, FirstIs
    <3>2. NotThere \in FileContents(f)
      BY NotThereIs
    <3> QED
      BY <3>1, <3>2 DEF Drawn, Stuff
  <2>2. disk \in [BundleFiles -> Stuff]
    BY <1>5, <2>1
  <2>3. managed \in [BundleFiles -> Stuff \cup {Unmanaged}]
    BY <1>5, <2>2
  <2>4. local \in [BundleFiles -> [content : Stuff, keep : BOOLEAN]]
    BY <1>5, <2>1
  <2>5. \A f \in BundleFiles : local[f].content = NotThere
    BY <1>5
  <2> QED
    BY <1>1, <1>2, <1>3, <1>5, <2>1, <2>2, <2>3, <2>4, <2>5 DEF AutoTypes
<1>6. CASE /\ \E there \in {{}, BundleFiles}, text \in LocalTexts, list \in LocalEntries :
                disk = [f \in BundleFiles |->
                          IF f \in there THEN LocalContent(f, text, list) ELSE NotThere]
           /\ managed = [f \in BundleFiles |-> Unmanaged]
           /\ local = [f \in BundleFiles |-> [content |-> disk[f], keep |-> TRUE]]
  <2>1. PICK there \in {{}, BundleFiles}, text \in LocalTexts, list \in LocalEntries :
          disk = [f \in BundleFiles |->
                    IF f \in there THEN LocalContent(f, text, list) ELSE NotThere]
    BY <1>6
  <2> QED
    BY <1>4, <1>6, <2>1
<1>7. CASE /\ disk = [f \in BundleFiles |-> FirstInstalled(f)]
           /\ managed = disk
           /\ local = [f \in BundleFiles |-> [content |-> NotThere, keep |-> TRUE]]
  BY <1>5, <1>7
<1> QED
  BY <1>6, <1>7 DEF AutoInit, FirstInstalled

\* A file that is written.
LEMMA FileWritten ==
  ASSUME AutoTypes, NEW f \in BundleFiles, NEW c \in FileContents(f), disk' = [disk EXCEPT ![f] = c]
  PROVE  /\ disk' \in [BundleFiles -> Stuff]
         /\ \A g \in BundleFiles : disk'[g] \in FileContents(g)
         /\ disk'[f] = c /\ \A g \in BundleFiles : g # f => disk'[g] = disk[g]
<1>1. c \in Stuff
  BY DEF Stuff
<1> QED
  BY <1>1 DEF AutoTypes

\* Whether a file must be kept is settled anew.
LEMMA KeepChanges ==
  ASSUME AutoTypes, NEW f \in BundleFiles, NEW k \in BOOLEAN, local' = [local EXCEPT ![f].keep = k]
  PROVE  /\ local' \in [BundleFiles -> [content : Stuff, keep : BOOLEAN]]
         /\ \A g \in BundleFiles : local'[g].content = local[g].content
         /\ local'[f].keep = k /\ \A g \in BundleFiles : g # f => local'[g] = local[g]
BY DEF AutoTypes

\* The parts of AutoTypes that a step may change.
LEMMA TypesKept ==
  ASSUME AutoTypes,
         published' \in Versions /\ published <= published',
         disk' \in [BundleFiles -> Stuff],
         managed' \in [BundleFiles -> Stuff \cup {Unmanaged}],
         local' \in [BundleFiles -> [content : Stuff, keep : BOOLEAN]],
         \A f \in BundleFiles :
           /\ disk'[f] \in FileContents(f) /\ local'[f].content \in FileContents(f)
           /\ managed'[f] \in FileContents(f) \cup {Unmanaged}
           /\ Form[f] = "script" => managed'[f] # LocalText,
         installer' \in [Installers -> Jobs \cup {Elsewhere}],
         \A p \in Installers : installer'[p] # Elsewhere =>
           \/ JobTypes(installer'[p], published) \/ JobTypes(installer'[p], published'),
         autoLog' \in [events : Nat, settled : {<<>>} \cup (DOMAIN Bundle) \X Versions]
  PROVE  AutoTypes'
<1>1. ASSUME NEW i, JobTypes(i, published) PROVE JobTypes(i, published')
  <2>1. published \in Nat /\ published' \in Nat
    BY Distinct DEF AutoTypes
  <2>2. 1 .. published \subseteq 1 .. published'
    BY <2>1
  <2> QED
    BY <1>1, <2>2 DEF JobTypes
<1>2. \A p \in Installers : installer'[p] # Elsewhere => JobTypes(installer'[p], published')
  BY <1>1
<1> QED
  BY <1>2 DEF AutoTypes

LEMMA InstallTypes ==
  ASSUME AutoTypes, NEW p \in Installers, NEW client \in DOMAIN Bundle, NEW force \in BOOLEAN,
         NEW version \in 1 .. published, Install(p, client, force, version)
  PROVE  AutoTypes'
<1> PICK files : files = FilesOf(client)
  OBVIOUS
<1> PICK content : content = [f \in files |-> Planned(f, version, disk[f])]
  OBVIOUS
<1> PICK harms : harms = {f \in files : (force /\ ~Mergeable(f, disk[f])) \/ disk[f] = CutOff(f)}
  OBVIOUS
<1> PICK i : i = [pc |-> "ready", client |-> client, version |-> version, content |-> content,
                  todo |-> {f \in files : content[f] # disk[f]}, harms |-> harms,
                  alone |-> \A q \in Installers : installer[q] = Elsewhere]
  OBVIOUS
<1>1. /\ Event /\ installer[p] = Elsewhere
      /\ installer' = [Disturbed EXCEPT ![p] = i]
      /\ UNCHANGED <<disk, managed, published, local>>
  BY DEF Install
<1>2. version \in Versions /\ version \in 1 .. published /\ published <= published'
  BY <1>1, BundleShape DEF AutoTypes, Versions
<1>3. files \subseteq BundleFiles
  BY FilesAre
<1>4. \A f \in files : Drawn(f, content[f]) /\ content[f] \in Stuff
  <2>1. ASSUME NEW f \in files PROVE Drawn(f, content[f])
    <3>1. f \in BundleFiles /\ disk[f] \in FileContents(f)
      BY <1>3 DEF AutoTypes
    <3> QED
      BY <1>2, <3>1, PlannedIsDrawn
  <2> QED
    BY <1>3, <2>1 DEF Drawn, Stuff
<1>5. content \in Plans
  <2>1. content \in [files -> Stuff]
    BY <1>4
  <2> QED
    BY <1>3, <2>1 DEF Plans
<1>6. harms \subseteq BundleFiles
  BY <1>3
<1>7. i \in Jobs
  BY <1>2, <1>3, <1>5, <1>6 DEF Jobs
<1>8. JobTypes(i, published)
  BY <1>2, <1>4, <1>7 DEF JobTypes
<1>9. installer' \in [Installers -> Jobs \cup {Elsewhere}]
  BY <1>1, <1>7, DisturbedAre
<1>10. ASSUME NEW q \in Installers, installer'[q] # Elsewhere PROVE JobTypes(installer'[q], published)
  <2>1. CASE q = p
    BY <1>1, <1>8, <2>1, DisturbedAre
  <2>2. CASE q # p
    <3>1. installer'[q] = Disturbed[q]
      BY <1>1, <2>2, DisturbedAre
    <3>2. installer[q] # Elsewhere
      BY <1>10, <3>1, DisturbedAre
    <3> QED
      BY <3>1, <3>2, DisturbedAre, AtWork, SameTypes
  <2> QED
    BY <2>1, <2>2
<1>11. autoLog' \in [events : Nat, settled : {<<>>} \cup (DOMAIN Bundle) \X Versions]
  BY <1>1 DEF AutoTypes, Event
<1> QED
  BY <1>1, <1>2, <1>9, <1>10, <1>11, TypesKept DEF AutoTypes

LEMMA CutTypes == ASSUME AutoTypes, NEW p \in Installers, CutFile(p) PROVE AutoTypes'
<1> PICK i : i = installer[p]
  OBVIOUS
<1> PICK j : j = [i EXCEPT !.pc = "filling"]
  OBVIOUS
<1>1. /\ i.pc = "ready" /\ i.todo # {} /\ installer' = [installer EXCEPT ![p] = j]
      /\ disk' = [disk EXCEPT ![NextFile(i)] = CutOff(NextFile(i))]
      /\ UNCHANGED <<managed, published, local, autoLog>>
  BY DEF CutFile, Transit
<1>2. i \in Jobs /\ JobTypes(i, published) /\ i # Elsewhere
  BY <1>1, AtWork DEF Elsewhere
<1>3. j \in Jobs /\ JobTypes(j, published)
  BY <1>1, <1>2 DEF Jobs, JobTypes
<1>4. NextFile(i) \in BundleFiles
  BY <1>1, <1>2, NextIsToDo, JobsAre DEF JobTypes
<1>5. published <= published'
  BY <1>1, Distinct DEF AutoTypes
<1>6. \A q \in Installers : installer'[q] # Elsewhere => JobTypes(installer'[q], published)
  BY <1>1, <1>3, OneInstaller, AtWork
<1> QED
  BY <1>1, <1>3, <1>4, <1>5, <1>6, NotThereIs, FileWritten, OneInstaller, TypesKept DEF AutoTypes

LEMMA FillTypes == ASSUME AutoTypes, NEW p \in Installers, FillFile(p) PROVE AutoTypes'
<1> PICK i : i = installer[p]
  OBVIOUS
<1> PICK f : f = NextFile(i)
  OBVIOUS
<1> PICK j : j = [i EXCEPT !.pc = "ready", !.todo = @ \ {f}]
  OBVIOUS
<1>1. /\ i.pc = "filling" /\ installer' = [installer EXCEPT ![p] = j]
      /\ disk' = [disk EXCEPT ![f] = i.content[f]]
      /\ local' = [local EXCEPT ![f].keep = @ /\ f \notin i.harms]
      /\ UNCHANGED <<managed, published, autoLog>>
  BY DEF FillFile, Transit
<1>2. i \in Jobs /\ JobTypes(i, published) /\ i # Elsewhere
  BY <1>1, AtWork DEF Elsewhere
<1>3. j \in Jobs /\ JobTypes(j, published)
  BY <1>1, <1>2 DEF Jobs, JobTypes
<1>4. f \in BundleFiles /\ f \in i.todo /\ f \in FilesOf(i.client)
  BY <1>1, <1>2, NextIsToDo, JobsAre DEF JobTypes
<1>5. published <= published'
  BY <1>1, Distinct DEF AutoTypes
<1>6. \A q \in Installers : installer'[q] # Elsewhere => JobTypes(installer'[q], published)
  BY <1>1, <1>3, OneInstaller, AtWork
<1>7. i.content[f] \in FileContents(f)
  BY <1>2, <1>4 DEF JobTypes, Drawn
<1>8. PICK k \in BOOLEAN : k = (local[f].keep /\ f \notin i.harms)
  OBVIOUS
<1>9. local' = [local EXCEPT ![f].keep = k]
  BY <1>1, <1>8
<1>10. disk' \in [BundleFiles -> Stuff] /\ \A g \in BundleFiles : disk'[g] \in FileContents(g)
  BY <1>1, <1>4, <1>7, FileWritten
<1>11. /\ local' \in [BundleFiles -> [content : Stuff, keep : BOOLEAN]]
       /\ \A g \in BundleFiles : local'[g].content = local[g].content
  BY <1>4, <1>8, <1>9, KeepChanges
<1> QED
  BY <1>1, <1>3, <1>5, <1>6, <1>10, <1>11, OneInstaller, TypesKept DEF AutoTypes

LEMMA ManifestTypes ==
  ASSUME AutoTypes, NEW p \in Installers, CutManifestFile(p) \/ FillManifestFile(p)
  PROVE  AutoTypes'
<1> PICK i : i = installer[p]
  OBVIOUS
<1>1. i \in Jobs /\ JobTypes(i, published) /\ i # Elsewhere
  BY AtWork DEF Elsewhere, CutManifestFile, FillManifestFile, Transit
<1>2. UNCHANGED <<disk, local, published>> /\ published <= published'
  BY Distinct DEF AutoTypes, CutManifestFile, FillManifestFile
<1>3. CASE CutManifestFile(p)
  <2> PICK j : j = [i EXCEPT !.pc = "listing"]
    OBVIOUS
  <2>1. /\ i.todo = {} /\ installer' = [installer EXCEPT ![p] = j]
        /\ managed' = [f \in BundleFiles |-> Unmanaged] /\ autoLog' = autoLog
    BY <1>3 DEF CutManifestFile, Transit
  <2>2. j \in Jobs /\ JobTypes(j, published)
    BY <1>1, <2>1 DEF Jobs, JobTypes
  <2>3. \A q \in Installers : installer'[q] # Elsewhere => JobTypes(installer'[q], published)
    BY <2>1, <2>2, OneInstaller, AtWork
  <2>4. managed' \in [BundleFiles -> Stuff \cup {Unmanaged}]
    BY <2>1
  <2> QED
    BY <1>2, <2>1, <2>2, <2>3, <2>4, Distinct, OneInstaller, TypesKept DEF AutoTypes
<1>4. CASE FillManifestFile(p)
  <2>1. /\ installer' = [installer EXCEPT ![p] = Elsewhere] /\ managed' = ManifestOf(i)
        /\ autoLog' = [autoLog EXCEPT !.settled = IF i.alone THEN <<i.client, i.version>> ELSE @]
    BY <1>4 DEF FillManifestFile, Transit
  <2>2. \A q \in Installers : installer'[q] # Elsewhere => JobTypes(installer'[q], published)
    BY <2>1, OneInstaller, AtWork
  <2>3. ASSUME NEW f \in BundleFiles
        PROVE  /\ managed'[f] \in FileContents(f) \cup {Unmanaged} /\ managed'[f] \in Stuff \cup {Unmanaged}
               /\ Form[f] = "script" => managed'[f] # LocalText
    <3>1. managed'[f] = IF f \in DOMAIN i.content THEN i.content[f] ELSE Unmanaged
      BY <2>1 DEF ManifestOf
    <3>2. f \in DOMAIN i.content => Drawn(f, i.content[f])
      BY <1>1 DEF JobTypes
    <3> QED
      BY <3>1, <3>2, Distinct DEF Drawn, Stuff
  <2>4. managed' \in [BundleFiles -> Stuff \cup {Unmanaged}]
    BY <2>1, <2>3 DEF ManifestOf
  <2>5. autoLog' \in [events : Nat, settled : {<<>>} \cup (DOMAIN Bundle) \X Versions]
    <3>1. <<i.client, i.version>> \in (DOMAIN Bundle) \X Versions
      BY <1>1, JobsAre
    <3> QED
      BY <2>1, <3>1 DEF AutoTypes
  <2> QED
    BY <1>2, <2>1, <2>2, <2>3, <2>4, <2>5, OneInstaller, TypesKept DEF AutoTypes
<1> QED
  BY <1>3, <1>4

LEMMA KillTypes == ASSUME AutoTypes, NEW p \in Installers, KillInstall(p) PROVE AutoTypes'
<1> PICK i : i = installer[p]
  OBVIOUS
<1>1. /\ i # Elsewhere /\ installer' = [installer EXCEPT ![p] = Elsewhere]
      /\ local' = IF i.pc = "filling" THEN [local EXCEPT ![NextFile(i)].keep = FALSE] ELSE local
      /\ UNCHANGED <<disk, managed, published, autoLog>>
  BY DEF KillInstall
<1>2. i \in Jobs /\ JobTypes(i, published)
  BY <1>1, AtWork
<1>3. published <= published'
  BY <1>1, Distinct DEF AutoTypes
<1>4. \A q \in Installers : installer'[q] # Elsewhere => JobTypes(installer'[q], published)
  BY <1>1, OneInstaller, AtWork
<1>5. /\ local' \in [BundleFiles -> [content : Stuff, keep : BOOLEAN]]
      /\ \A g \in BundleFiles : local'[g].content = local[g].content
  <2>1. CASE i.pc = "filling"
    <3>1. NextFile(i) \in BundleFiles
      BY <1>2, <2>1, NextIsToDo, JobsAre DEF JobTypes
    <3> QED
      BY <1>1, <2>1, <3>1, KeepChanges
  <2>2. CASE i.pc # "filling"
    BY <1>1, <2>2 DEF AutoTypes
  <2> QED
    BY <2>1, <2>2
<1> QED
  BY <1>1, <1>3, <1>4, <1>5, OneInstaller, TypesKept DEF AutoTypes

\* What an edit does to those at work.
LEMMA EditTold ==
  ASSUME AutoTypes, NEW f \in BundleFiles, NEW c \in FileContents(f), EditFile(f, c)
  PROVE  /\ installer' \in [Installers -> Jobs \cup {Elsewhere}]
         /\ \A p \in Installers :
              /\ installer[p] = Elsewhere => installer'[p] = Elsewhere
              /\ installer[p] # Elsewhere =>
                   /\ SameWork(installer[p], installer'[p])
                   /\ ~installer'[p].alone /\ f \in installer'[p].harms
<1>1. installer' = [p \in Installers |->
        IF installer[p] = Elsewhere THEN Elsewhere ELSE [Disturbed[p] EXCEPT !.harms = @ \cup {f}]]
  BY DEF EditFile
<1>2. ASSUME NEW p \in Installers, installer[p] # Elsewhere
      PROVE  /\ SameWork(installer[p], installer'[p])
             /\ ~installer'[p].alone /\ f \in installer'[p].harms
  <2>1. installer'[p] = [Disturbed[p] EXCEPT !.harms = @ \cup {f}]
    BY <1>1, <1>2
  <2>2. /\ SameWork(installer[p], Disturbed[p])
        /\ ~Disturbed[p].alone /\ Disturbed[p].harms = installer[p].harms
    BY <1>2, DisturbedAre
  <2> QED
    BY <2>1, <2>2 DEF SameWork, Jobs
<1>3. \A p \in Installers : installer'[p] \in Jobs \cup {Elsewhere}
  BY <1>1, <1>2 DEF SameWork
<1> QED
  BY <1>1, <1>2, <1>3

LEMMA EditTypes ==
  ASSUME AutoTypes, NEW f \in BundleFiles, NEW c \in FileContents(f), EditFile(f, c)
  PROVE  AutoTypes'
<1>1. /\ Event /\ disk' = [disk EXCEPT ![f] = c]
      /\ local' = [local EXCEPT ![f] = [content |-> c, keep |-> TRUE]]
      /\ UNCHANGED <<managed, published>>
  BY DEF EditFile
<1>2. \A q \in Installers : installer'[q] # Elsewhere => JobTypes(installer'[q], published)
  BY EditTold, AtWork, SameTypes
<1>3. published <= published'
  BY <1>1, Distinct DEF AutoTypes
<1>4. autoLog' \in [events : Nat, settled : {<<>>} \cup (DOMAIN Bundle) \X Versions]
  BY <1>1 DEF AutoTypes, Event
<1>5. c \in Stuff
  BY DEF Stuff
<1>6. local' \in [BundleFiles -> [content : Stuff, keep : BOOLEAN]]
  BY <1>1, <1>5 DEF AutoTypes
<1>7. \A g \in BundleFiles : local'[g].content \in FileContents(g)
  BY <1>1 DEF AutoTypes
<1> QED
  BY <1>1, <1>2, <1>3, <1>4, <1>6, <1>7, EditTold, FileWritten, TypesKept DEF AutoTypes

LEMMA PublishTypes == ASSUME AutoTypes, Publish PROVE AutoTypes'
<1>1. /\ published < MaxVersion /\ Event /\ published' = published + 1
      /\ UNCHANGED <<disk, managed, installer, local>>
  BY DEF Publish
<1>2. published' \in Versions /\ published <= published'
  BY <1>1, BundleShape DEF AutoTypes, Versions
<1>3. autoLog' \in [events : Nat, settled : {<<>>} \cup (DOMAIN Bundle) \X Versions]
  BY <1>1 DEF AutoTypes, Event
<1> QED
  BY <1>1, <1>2, <1>3, TypesKept DEF AutoTypes

\* The edits of a user: never a file that was cut short.
EditOf(f, c) == f \in BundleFiles /\ c \in FileContents(f) \ {CutOff(f)} /\ EditFile(f, c)

LEMMA EditsAre ==
  ASSUME AutoTypes, NEW f \in BundleFiles,
         \/ EditFile(f, NotThere)
         \/ \E text \in LocalTexts, list \in LocalEntries : EditFile(f, LocalContent(f, text, list))
         \/ /\ Form[f] = "notes" /\ disk[f] # NotThere
            /\ EditFile(f, [disk[f] EXCEPT !.own = LocalText])
  PROVE  \E c : EditOf(f, c)
<1>1. CASE EditFile(f, NotThere)
  BY <1>1, NotThereIs DEF EditOf
<1>2. CASE \E text \in LocalTexts, list \in LocalEntries : EditFile(f, LocalContent(f, text, list))
  BY <1>2, LocalIs DEF EditOf
<1>3. CASE /\ Form[f] = "notes" /\ disk[f] # NotThere
           /\ EditFile(f, [disk[f] EXCEPT !.own = LocalText])
  <2>1. disk[f] \in Instructions
    BY <1>3, ShapeOf DEF AutoTypes
  <2>2. PICK c : c = [disk[f] EXCEPT !.own = LocalText]
    OBVIOUS
  <2>3. c \in Instructions /\ c.own = LocalText
    BY <2>1, <2>2 DEF Instructions
  <2>4. c # Text(Shreds, 0)
    BY <2>3, TextsAre, Distinct
  <2> QED
    BY <1>3, <2>2, <2>3, <2>4, ShapeOf DEF EditOf
<1> QED
  BY <1>1, <1>2, <1>3

LEMMA AutoTypesStay == AutoTypes /\ [AutoNext]_autoVars => AutoTypes'
<1> SUFFICES ASSUME AutoTypes, [AutoNext]_autoVars PROVE AutoTypes'
  OBVIOUS
<1>1. CASE UNCHANGED autoVars
  BY <1>1 DEF autoVars, AutoTypes
<1>2. ASSUME NEW p \in Installers, NEW client \in DOMAIN Bundle, NEW force \in BOOLEAN,
             NEW version \in 1 .. published, Install(p, client, force, version)
      PROVE  AutoTypes'
  BY <1>2, InstallTypes
<1>3. ASSUME NEW p \in Installers, CutFile(p) PROVE AutoTypes'
  BY <1>3, CutTypes
<1>4. ASSUME NEW p \in Installers, FillFile(p) PROVE AutoTypes'
  BY <1>4, FillTypes
<1>5. ASSUME NEW p \in Installers, CutManifestFile(p) \/ FillManifestFile(p) PROVE AutoTypes'
  BY <1>5, ManifestTypes
<1>6. ASSUME NEW p \in Installers, KillInstall(p) PROVE AutoTypes'
  BY <1>6, KillTypes
<1>7. ASSUME NEW f \in BundleFiles, NEW c, EditOf(f, c) PROVE AutoTypes'
  BY <1>7, EditTypes DEF EditOf
<1>8. CASE Publish
  BY <1>8, PublishTypes
<1> QED
  BY <1>1, <1>2, <1>3, <1>4, <1>5, <1>6, <1>7, <1>8, EditsAre DEF AutoNext

LEMMA AutoTypesHold == AutoSpec => []AutoTypes
BY AutoStarts, AutoTypesStay, PTL DEF AutoSpec

LEMMA TypesImplied == AutoTypes => AutoTypeOK
<1> SUFFICES ASSUME AutoTypes PROVE AutoTypeOK
  OBVIOUS
<1>1. ASSUME NEW p \in Installers, installer[p].pc # "elsewhere"
      PROVE  LET i == installer[p]
             IN  /\ i.client \in DOMAIN Bundle /\ i.version \in 1 .. published
                 /\ i.todo \subseteq FilesOf(i.client)
                 /\ i.pc = "filling" => i.todo # {}
                 /\ i.pc = "listing" => i.todo = {}
                 /\ \A f \in FilesOf(i.client) : i.content[f] \in FileContents(f)
  BY <1>1, AtWork, JobsAre DEF JobTypes, Drawn
<1> QED
  BY <1>1 DEF AutoTypes, AutoTypeOK

-----------------------------------------------------------------------------
(***************************************************************************)
(* Automations: what the user wrote stays.                                 *)
(***************************************************************************)
\* Preserved, and what it takes to stay so through further installs.
Keeps(f, before, after) ==
  /\ Form[f] = "script" => (before = LocalText => after = before)
  /\ Form[f] = "notes" => (before # NotThere => after # NotThere /\ after.own = before.own)
  /\ Form[f] = "config" =>
       (Parses(f, before) => Parses(f, after) /\ KeptList(before.list, after.list))

LEMMA KeepsPreserves ==
  ASSUME NEW f \in BundleFiles, NEW before, NEW after, Keeps(f, before, after)
  PROVE  Preserved(f, before, after)
<1>1. CASE Form[f] = "script"
  BY <1>1 DEF Keeps, Preserved
<1>2. CASE Form[f] = "notes"
  BY <1>2 DEF Keeps, Preserved
<1>3. CASE Form[f] = "config"
  BY <1>3 DEF Keeps, Preserved, KeptList, KeptEntry
<1> QED
  BY <1>1, <1>2, <1>3, ShapeOf

LEMMA KeepsItself == ASSUME NEW f, NEW c PROVE Keeps(f, c, c)
BY DEF Keeps, KeptList, KeptEntry

LEMMA NothingToKeep ==
  ASSUME NEW f \in BundleFiles, NEW c
  PROVE  Keeps(f, NotThere, c)
BY Distinct DEF Keeps, Parses

LEMMA PlannedKeeps ==
  ASSUME Apart, NEW f \in BundleFiles, NEW v \in Versions, NEW before,
         NEW c \in FileContents(f) \ {CutOff(f)},
         Form[f] = "script" => c # LocalText, Keeps(f, before, c)
  PROVE  Keeps(f, before, Planned(f, v, c))
<1>1. CASE Form[f] = "script"
  BY <1>1 DEF Keeps
<1>2. CASE Form[f] = "notes"
  <2>2. before # NotThere => c # NotThere /\ c.own = before.own
    BY <1>2 DEF Keeps
  <2>3. c # NotThere => Planned(f, v, c).own = c.own
    BY <1>2, NotesAre, TextsAre
  <2>4. Planned(f, v, c) # NotThere
    BY PlannedIsDrawn DEF Drawn
  <2> QED
    BY <1>2, <2>2, <2>3, <2>4 DEF Keeps
<1>3. CASE Form[f] = "config"
  <2>1. ASSUME Parses(f, before)
        PROVE  Parses(f, Planned(f, v, c)) /\ KeptList(before.list, Planned(f, v, c).list)
    <3>1. Parses(f, c) /\ KeptList(before.list, c.list)
      BY <1>3, <2>1 DEF Keeps
    <3>2. c.list \in Seq(Items)
      BY <1>3, <3>1, ShapeOf, JsonFilesAre DEF Parses
    <3>3. KeptList(before.list, Merged(c.list, Entries[v]))
      BY <3>1, <3>2, MergedKeeps
    <3>4. Parses(f, Planned(f, v, c))
      BY PlannedIsDrawn DEF Drawn, Parses
    <3> QED
      BY <1>3, <3>1, <3>3, <3>4, ConfigsAre
  <2> QED
    BY <1>3, <2>1 DEF Keeps
<1> QED
  BY <1>1, <1>2, <1>3, ShapeOf

Fills(p, f) == installer[p].pc = "filling" /\ NextFile(installer[p]) = f

\* A file that must be kept is, unless it is cut short because it is being written;
KeptFile(f) ==
  local[f].keep =>
    IF disk[f] = CutOff(f) THEN \E p \in Installers : Fills(p, f)
    ELSE Keeps(f, local[f].content, disk[f])

\* and what is still to be written keeps it.
KeptByPlan(p) ==
  installer[p] # Elsewhere =>
    \A f \in installer[p].todo \ installer[p].harms :
      local[f].keep => Keeps(f, local[f].content, installer[p].content[f])

KeptInv ==
  /\ \A f \in BundleFiles : KeptFile(f)
  /\ \A p \in Installers : KeptByPlan(p)

LEMMA KeptStarts == AutoInit => KeptInv
<1> SUFFICES ASSUME AutoInit PROVE KeptInv
  OBVIOUS
<1>1. \A p \in Installers : installer[p] = Elsewhere
  BY DEF AutoInit
<1>2. ASSUME NEW there \in {{}, BundleFiles}, NEW text \in LocalTexts, NEW list \in LocalEntries,
             disk = [f \in BundleFiles |->
                      IF f \in there THEN LocalContent(f, text, list) ELSE NotThere],
             local = [f \in BundleFiles |-> [content |-> disk[f], keep |-> TRUE]]
      PROVE  \A f \in BundleFiles : KeptFile(f)
  <2>1. ASSUME NEW f \in BundleFiles PROVE KeptFile(f)
    <3>1. disk[f] # CutOff(f)
      BY <1>2, LocalIs, NotThereIs
    <3>2. local[f].content = disk[f]
      BY <1>2
    <3> QED
      BY <3>1, <3>2, KeepsItself DEF KeptFile
  <2> QED
    BY <2>1
<1>3. ASSUME disk = [f \in BundleFiles |-> FirstInstalled(f)],
             local = [f \in BundleFiles |-> [content |-> NotThere, keep |-> TRUE]]
      PROVE  \A f \in BundleFiles : KeptFile(f)
  <2>1. ASSUME NEW f \in BundleFiles PROVE KeptFile(f)
    <3>1. disk[f] # CutOff(f)
      BY <1>3, FirstIs DEF Drawn
    <3>2. local[f].content = NotThere
      BY <1>3
    <3> QED
      BY <3>1, <3>2, NothingToKeep DEF KeptFile
  <2> QED
    BY <2>1
<1>4. CASE /\ \E there \in {{}, BundleFiles}, text \in LocalTexts, list \in LocalEntries :
                disk = [f \in BundleFiles |->
                          IF f \in there THEN LocalContent(f, text, list) ELSE NotThere]
           /\ managed = [f \in BundleFiles |-> Unmanaged]
           /\ local = [f \in BundleFiles |-> [content |-> disk[f], keep |-> TRUE]]
  <2>1. PICK there \in {{}, BundleFiles}, text \in LocalTexts, list \in LocalEntries :
          disk = [f \in BundleFiles |->
                    IF f \in there THEN LocalContent(f, text, list) ELSE NotThere]
    BY <1>4
  <2> QED
    BY <1>1, <1>2, <1>4, <2>1 DEF KeptInv, KeptByPlan
<1>5. CASE /\ disk = [f \in BundleFiles |-> FirstInstalled(f)]
           /\ managed = disk
           /\ local = [f \in BundleFiles |-> [content |-> NotThere, keep |-> TRUE]]
  BY <1>1, <1>3, <1>5 DEF KeptInv, KeptByPlan
<1> QED
  BY <1>4, <1>5 DEF AutoInit, FirstInstalled

LEMMA SameWorkFills ==
  ASSUME NEW i, NEW j, SameWork(i, j)
  PROVE  j.pc = i.pc /\ NextFile(j) = NextFile(i)
BY NextSame DEF SameWork

LEMMA InstallKeeps ==
  ASSUME Apart, AutoTypes, KeptInv, NEW p \in Installers, NEW client \in DOMAIN Bundle,
         NEW force \in BOOLEAN, NEW version \in 1 .. published, Install(p, client, force, version)
  PROVE  KeptInv'
<1> PICK files : files = FilesOf(client)
  OBVIOUS
<1> PICK content : content = [f \in files |-> Planned(f, version, disk[f])]
  OBVIOUS
<1> PICK todo : todo = {f \in files : content[f] # disk[f]}
  OBVIOUS
<1> PICK harms : harms = {f \in files : (force /\ ~Mergeable(f, disk[f])) \/ disk[f] = CutOff(f)}
  OBVIOUS
<1> PICK i : i = [pc |-> "ready", client |-> client, version |-> version, content |-> content,
                  todo |-> todo, harms |-> harms,
                  alone |-> \A q \in Installers : installer[q] = Elsewhere]
  OBVIOUS
<1>1. /\ installer[p] = Elsewhere /\ \A f \in files : ~Conflicts(f, version, force)
      /\ installer' = [Disturbed EXCEPT ![p] = i]
      /\ UNCHANGED <<disk, managed, published, local>>
  BY DEF Install
<1>2. version \in Versions
  BY BundleShape DEF AutoTypes, Versions
<1>3. files \subseteq BundleFiles
  BY FilesAre
<1>4. installer'[p] = i /\ \A q \in Installers : q # p => installer'[q] = Disturbed[q]
  BY <1>1, DisturbedAre
<1>5. ASSUME NEW f \in todo \ harms, local[f].keep PROVE Keeps(f, local[f].content, content[f])
  <2>1. /\ f \in files /\ f \in BundleFiles /\ content[f] # disk[f] /\ disk[f] # CutOff(f)
        /\ ~(force /\ ~Mergeable(f, disk[f])) /\ content[f] = Planned(f, version, disk[f])
    BY <1>3, <1>5
  <2>2. Keeps(f, local[f].content, disk[f])
    BY <1>5, <2>1 DEF KeptInv, KeptFile
  <2>3. disk[f] \in FileContents(f) \ {CutOff(f)}
    BY <2>1 DEF AutoTypes
  <2>4. ASSUME Form[f] = "script", disk[f] = LocalText PROVE FALSE
    <3>1. ~Mergeable(f, disk[f])
      BY <2>4 DEF Mergeable
    <3>2. disk[f] # managed[f]
      BY <2>1, <2>4 DEF AutoTypes
    <3>3. disk[f] # NotThere
      BY <2>4, Distinct
    <3> QED
      BY <1>1, <2>1, <3>1, <3>2, <3>3 DEF Conflicts
  <2> QED
    BY <1>2, <2>1, <2>2, <2>3, <2>4, PlannedKeeps
<1>6. ASSUME NEW q \in Installers PROVE KeptByPlan(q)'
  <2>1. CASE q = p
    <3>1. i.todo = todo /\ i.harms = harms /\ i.content = content
      OBVIOUS
    <3> QED
      BY <1>1, <1>4, <1>5, <2>1, <3>1 DEF KeptByPlan
  <2>2. CASE q # p /\ installer[q] = Elsewhere
    BY <1>4, <2>2, DisturbedAre DEF KeptByPlan
  <2>3. CASE q # p /\ installer[q] # Elsewhere
    <3>1. /\ installer'[q].todo = installer[q].todo /\ installer'[q].harms = installer[q].harms
          /\ installer'[q].content = installer[q].content
      BY <1>4, <2>3, DisturbedAre DEF SameWork
    <3> QED
      BY <1>1, <2>3, <3>1 DEF KeptInv, KeptByPlan
  <2> QED
    BY <2>1, <2>2, <2>3
<1>7. ASSUME NEW f \in BundleFiles PROVE KeptFile(f)'
  <2>1. ASSUME NEW q \in Installers, Fills(q, f) PROVE Fills(q, f)'
    <3>1. installer[q] # Elsewhere
      BY <2>1 DEF Fills, Elsewhere
    <3>2. q # p
      BY <1>1, <3>1
    <3>3. SameWork(installer[q], installer'[q])
      BY <1>4, <3>1, <3>2, DisturbedAre
    <3> QED
      BY <2>1, <3>3, SameWorkFills DEF Fills, NextFile
  <2>2. KeptFile(f)
    BY DEF KeptInv
  <2> QED
    BY <1>1, <2>1, <2>2 DEF KeptFile, CutOff
<1> QED
  BY <1>6, <1>7 DEF KeptInv

LEMMA CutKeeps ==
  ASSUME AutoTypes, KeptInv, NEW p \in Installers, CutFile(p)
  PROVE  KeptInv'
<1> PICK i : i = installer[p]
  OBVIOUS
<1> PICK j : j = [i EXCEPT !.pc = "filling"]
  OBVIOUS
<1> PICK f : f = NextFile(i)
  OBVIOUS
<1>1. /\ i.pc = "ready" /\ i.todo # {} /\ installer' = [installer EXCEPT ![p] = j]
      /\ disk' = [disk EXCEPT ![f] = CutOff(f)]
      /\ local' = local
  BY DEF CutFile, Transit
<1>2. i \in Jobs /\ JobTypes(i, published) /\ i # Elsewhere
  BY <1>1, AtWork DEF Elsewhere
<1>3. /\ j \in Jobs /\ j.pc = "filling" /\ j.client = i.client /\ j.todo = i.todo
      /\ j.harms = i.harms /\ j.content = i.content
  BY <1>2 DEF Jobs
<1>4. f \in BundleFiles
  BY <1>1, <1>2, NextIsToDo, JobsAre DEF JobTypes
<1>5. installer'[p] = j /\ \A q \in Installers : q # p => installer'[q] = installer[q]
  BY <1>1, OneInstaller
<1>6. \A q \in Installers : KeptByPlan(q)'
  BY <1>1, <1>2, <1>3, <1>5 DEF KeptInv, KeptByPlan
<1>7. disk'[f] = CutOff(f) /\ \A g \in BundleFiles : g # f => disk'[g] = disk[g]
  BY <1>1, <1>4, NotThereIs, FileWritten
<1>8. Fills(p, f)'
  BY <1>3, <1>5, NextSame DEF Fills, NextFile
<1>9. ASSUME NEW g \in BundleFiles, g # f PROVE KeptFile(g)'
  <2>1. ASSUME NEW q \in Installers, Fills(q, g) PROVE Fills(q, g)'
    <3>1. q # p
      BY <1>1, <2>1 DEF Fills
    <3> QED
      BY <1>5, <2>1, <3>1 DEF Fills, NextFile
  <2>2. KeptFile(g)
    BY DEF KeptInv
  <2> QED
    BY <1>1, <1>7, <1>9, <2>1, <2>2 DEF KeptFile, CutOff
<1>10. KeptFile(f)'
  BY <1>7, <1>8 DEF KeptFile, CutOff
<1> QED
  BY <1>6, <1>9, <1>10 DEF KeptInv

LEMMA FillKeeps ==
  ASSUME AutoTypes, KeptInv, NEW p \in Installers, FillFile(p)
  PROVE  KeptInv'
<1> PICK i : i = installer[p]
  OBVIOUS
<1> PICK f : f = NextFile(i)
  OBVIOUS
<1> PICK j : j = [i EXCEPT !.pc = "ready", !.todo = @ \ {f}]
  OBVIOUS
<1> PICK k : k = (local[f].keep /\ f \notin i.harms)
  OBVIOUS
<1>1. /\ i.pc = "filling" /\ installer' = [installer EXCEPT ![p] = j]
      /\ disk' = [disk EXCEPT ![f] = i.content[f]]
      /\ local' = [local EXCEPT ![f].keep = k]
  BY DEF FillFile, Transit
<1>2. i \in Jobs /\ JobTypes(i, published) /\ i # Elsewhere
  BY <1>1, AtWork DEF Elsewhere
<1>3. /\ j \in Jobs /\ j.pc = "ready" /\ j.todo = i.todo \ {f}
      /\ j.harms = i.harms /\ j.content = i.content
  BY <1>2 DEF Jobs
<1>4. f \in BundleFiles /\ f \in i.todo /\ f \in FilesOf(i.client)
  BY <1>1, <1>2, NextIsToDo, JobsAre DEF JobTypes
<1>5. installer'[p] = j /\ \A q \in Installers : q # p => installer'[q] = installer[q]
  BY <1>1, OneInstaller
<1>6. Drawn(f, i.content[f])
  BY <1>2, <1>4 DEF JobTypes
<1>7. disk'[f] = i.content[f] /\ \A g \in BundleFiles : g # f => disk'[g] = disk[g]
  BY <1>1, <1>4, <1>6, FileWritten DEF Drawn
<1>8. k \in BOOLEAN
  OBVIOUS
<1>9. /\ \A g \in BundleFiles : local'[g].content = local[g].content
      /\ local'[f].keep = k /\ \A g \in BundleFiles : g # f => local'[g] = local[g]
  BY <1>1, <1>4, <1>8, KeepChanges
<1>10. \A g \in BundleFiles : local'[g].keep => local[g].keep
  BY <1>9
<1>11. ASSUME NEW q \in Installers PROVE KeptByPlan(q)'
  <2>1. installer[q] # Elsewhere => installer[q].todo \subseteq BundleFiles
    BY AtWork, JobsAre
  <2>2. CASE q = p
    <3>1. KeptByPlan(p)
      BY DEF KeptInv
    <3>2. j.todo \ j.harms \subseteq i.todo \ i.harms
      BY <1>3
    <3>3. \A g \in i.todo : g \in BundleFiles
      BY <1>2, <2>1, <2>2
    <3>4. ASSUME NEW g \in j.todo \ j.harms, local'[g].keep
          PROVE  Keeps(g, local'[g].content, j.content[g])
      <4>1. g \in i.todo \ i.harms /\ g \in BundleFiles
        BY <3>2, <3>3, <3>4
      <4>2. local[g].keep /\ local'[g].content = local[g].content
        BY <1>9, <1>10, <3>4, <4>1
      <4>3. Keeps(g, local[g].content, i.content[g])
        BY <1>2, <3>1, <4>1, <4>2 DEF KeptByPlan
      <4> QED
        BY <1>3, <4>2, <4>3
    <3> QED
      BY <1>5, <2>2, <3>4 DEF KeptByPlan
  <2>3. CASE q # p
    BY <1>5, <1>9, <1>10, <2>1, <2>3 DEF KeptInv, KeptByPlan
  <2> QED
    BY <2>2, <2>3
<1>12. KeptFile(f)'
  <2>1. disk'[f] # CutOff(f)
    BY <1>6, <1>7 DEF Drawn
  <2>2. ASSUME local'[f].keep PROVE Keeps(f, local'[f].content, disk'[f])
    <3>1. local[f].keep /\ f \notin i.harms
      BY <1>9, <2>2
    <3> QED
      BY <1>2, <1>4, <1>7, <1>9, <3>1 DEF KeptInv, KeptByPlan
  <2> QED
    BY <2>1, <2>2 DEF KeptFile, CutOff, Keeps, KeptList, KeptEntry, Parses
<1>13. ASSUME NEW g \in BundleFiles, g # f PROVE KeptFile(g)'
  <2>1. ASSUME NEW q \in Installers, Fills(q, g) PROVE Fills(q, g)'
    <3>1. q # p
      BY <1>13, <2>1 DEF Fills
    <3> QED
      BY <1>5, <2>1, <3>1 DEF Fills, NextFile
  <2>2. KeptFile(g)
    BY DEF KeptInv
  <2> QED
    BY <1>7, <1>9, <1>13, <2>1, <2>2 DEF KeptFile, CutOff
<1> QED
  BY <1>11, <1>12, <1>13 DEF KeptInv

LEMMA ManifestKeeps ==
  ASSUME AutoTypes, KeptInv, NEW p \in Installers, CutManifestFile(p) \/ FillManifestFile(p)
  PROVE  KeptInv'
<1> PICK i : i = installer[p]
  OBVIOUS
<1>1. i.pc # "filling" /\ i \in Jobs /\ i # Elsewhere /\ UNCHANGED <<disk, local>>
  BY AtWork DEF Elsewhere, CutManifestFile, FillManifestFile, Transit
<1>2. PICK j : /\ installer' = [installer EXCEPT ![p] = j]
               /\ j = Elsewhere \/ j = [i EXCEPT !.pc = "listing"]
  BY DEF CutManifestFile, FillManifestFile, Transit
<1>3. installer'[p] = j /\ \A q \in Installers : q # p => installer'[q] = installer[q]
  BY <1>2, OneInstaller
<1>4. j # Elsewhere => j.todo = i.todo /\ j.harms = i.harms /\ j.content = i.content
  BY <1>1, <1>2 DEF Jobs
<1>5. \A q \in Installers : KeptByPlan(q)'
  BY <1>1, <1>3, <1>4 DEF KeptInv, KeptByPlan
<1>6. ASSUME NEW g \in BundleFiles PROVE KeptFile(g)'
  <2>1. ASSUME NEW q \in Installers, Fills(q, g) PROVE Fills(q, g)'
    <3>1. q # p
      BY <1>1, <2>1 DEF Fills
    <3> QED
      BY <1>3, <2>1, <3>1 DEF Fills, NextFile
  <2>2. KeptFile(g)
    BY DEF KeptInv
  <2> QED
    BY <1>1, <2>1, <2>2 DEF KeptFile, CutOff
<1> QED
  BY <1>5, <1>6 DEF KeptInv

LEMMA KillKeeps ==
  ASSUME AutoTypes, KeptInv, NEW p \in Installers, KillInstall(p)
  PROVE  KeptInv'
<1> PICK i : i = installer[p]
  OBVIOUS
<1>1. /\ i # Elsewhere /\ installer' = [installer EXCEPT ![p] = Elsewhere]
      /\ local' = IF i.pc = "filling" THEN [local EXCEPT ![NextFile(i)].keep = FALSE] ELSE local
      /\ disk' = disk
  BY DEF KillInstall
<1>2. i \in Jobs /\ JobTypes(i, published)
  BY <1>1, AtWork
<1>3. installer'[p] = Elsewhere /\ \A q \in Installers : q # p => installer'[q] = installer[q]
  BY <1>1, OneInstaller
<1>4. /\ \A g \in BundleFiles : local'[g].content = local[g].content /\ (local'[g].keep => local[g].keep)
      /\ \A g \in BundleFiles : Fills(p, g) => ~local'[g].keep
  <2>1. CASE i.pc = "filling"
    <3>1. NextFile(i) \in BundleFiles
      BY <1>2, <2>1, NextIsToDo, JobsAre DEF JobTypes
    <3>2. PICK f : f = NextFile(i)
      OBVIOUS
    <3>3. local' = [local EXCEPT ![f].keep = FALSE]
      BY <1>1, <2>1, <3>2
    <3>4. /\ \A g \in BundleFiles : local'[g].content = local[g].content
          /\ local'[f].keep = FALSE /\ \A g \in BundleFiles : g # f => local'[g] = local[g]
      BY <3>1, <3>2, <3>3, KeepChanges
    <3> QED
      BY <3>2, <3>4 DEF Fills
  <2>2. CASE i.pc # "filling"
    BY <1>1, <2>2 DEF Fills
  <2> QED
    BY <2>1, <2>2
<1>5. ASSUME NEW q \in Installers PROVE KeptByPlan(q)'
  <2>1. installer[q] # Elsewhere => installer[q].todo \subseteq BundleFiles
    BY AtWork, JobsAre
  <2> QED
    BY <1>3, <1>4, <2>1 DEF KeptInv, KeptByPlan
<1>6. ASSUME NEW g \in BundleFiles PROVE KeptFile(g)'
  <2>1. ASSUME NEW q \in Installers, Fills(q, g), local'[g].keep PROVE Fills(q, g)'
    <3>1. q # p
      BY <1>4, <2>1
    <3> QED
      BY <1>3, <2>1, <3>1 DEF Fills, NextFile
  <2>2. KeptFile(g)
    BY DEF KeptInv
  <2> QED
    BY <1>1, <1>4, <2>1, <2>2 DEF KeptFile, CutOff
<1> QED
  BY <1>5, <1>6 DEF KeptInv

LEMMA EditKeeps ==
  ASSUME AutoTypes, KeptInv, NEW f, NEW c, EditOf(f, c)
  PROVE  KeptInv'
<1>1. f \in BundleFiles /\ c \in FileContents(f) /\ c # CutOff(f) /\ EditFile(f, c)
  BY DEF EditOf
<1>2. /\ disk' = [disk EXCEPT ![f] = c]
      /\ local' = [local EXCEPT ![f] = [content |-> c, keep |-> TRUE]]
  BY <1>1 DEF EditFile
<1>3. /\ disk'[f] = c /\ \A g \in BundleFiles : g # f => disk'[g] = disk[g]
      /\ local'[f].content = c /\ \A g \in BundleFiles : g # f => local'[g] = local[g]
  BY <1>1, <1>2 DEF AutoTypes
<1>4. \A p \in Installers :
        /\ installer[p] = Elsewhere => installer'[p] = Elsewhere
        /\ installer[p] # Elsewhere =>
             SameWork(installer[p], installer'[p]) /\ f \in installer'[p].harms
  BY <1>1, EditTold
<1>5. ASSUME NEW q \in Installers PROVE KeptByPlan(q)'
  <2>1. CASE installer[q] = Elsewhere
    BY <1>4, <2>1 DEF KeptByPlan
  <2>2. CASE installer[q] # Elsewhere
    <3>1. /\ installer'[q].todo = installer[q].todo /\ installer'[q].content = installer[q].content
          /\ installer[q].harms \subseteq installer'[q].harms /\ f \in installer'[q].harms
      BY <1>4, <2>2 DEF SameWork
    <3>2. installer[q].todo \subseteq BundleFiles
      BY <2>2, AtWork, JobsAre
    <3> QED
      BY <1>3, <2>2, <3>1, <3>2 DEF KeptInv, KeptByPlan
  <2> QED
    BY <2>1, <2>2
<1>6. KeptFile(f)'
  <2>1. Keeps(f, c, c)
    BY KeepsItself
  <2> QED
    BY <1>1, <1>3, <2>1 DEF KeptFile, CutOff, Keeps, KeptList, KeptEntry, Parses
<1>7. ASSUME NEW g \in BundleFiles, g # f PROVE KeptFile(g)'
  <2>1. ASSUME NEW q \in Installers, Fills(q, g) PROVE Fills(q, g)'
    <3>1. installer[q] # Elsewhere
      BY <2>1 DEF Fills, Elsewhere
    <3> QED
      BY <1>4, <2>1, <3>1, SameWorkFills DEF Fills, NextFile
  <2>2. KeptFile(g)
    BY DEF KeptInv
  <2> QED
    BY <1>3, <1>7, <2>1, <2>2 DEF KeptFile, CutOff
<1> QED
  BY <1>5, <1>6, <1>7 DEF KeptInv

LEMMA QuietKeeps ==
  ASSUME KeptInv, UNCHANGED <<disk, local, installer>>
  PROVE  KeptInv'
<1>1. \A p \in Installers : KeptByPlan(p)'
  BY DEF KeptInv, KeptByPlan
<1>2. \A f \in BundleFiles : KeptFile(f)'
  BY DEF KeptInv, KeptFile, Fills, NextFile, CutOff
<1> QED
  BY <1>1, <1>2 DEF KeptInv

LEMMA KeptStays ==
  ASSUME Apart, AutoTypes, KeptInv, [AutoNext]_autoVars
  PROVE  KeptInv'
<1>1. CASE UNCHANGED autoVars \/ Publish
  BY <1>1, QuietKeeps DEF autoVars, Publish
<1>2. ASSUME NEW p \in Installers, NEW client \in DOMAIN Bundle, NEW force \in BOOLEAN,
             NEW version \in 1 .. published, Install(p, client, force, version)
      PROVE  KeptInv'
  BY <1>2, InstallKeeps
<1>3. ASSUME NEW p \in Installers, CutFile(p) PROVE KeptInv'
  BY <1>3, CutKeeps
<1>4. ASSUME NEW p \in Installers, FillFile(p) PROVE KeptInv'
  BY <1>4, FillKeeps
<1>5. ASSUME NEW p \in Installers, CutManifestFile(p) \/ FillManifestFile(p) PROVE KeptInv'
  BY <1>5, ManifestKeeps
<1>6. ASSUME NEW p \in Installers, KillInstall(p) PROVE KeptInv'
  BY <1>6, KillKeeps
<1>7. ASSUME NEW f \in BundleFiles, NEW c, EditOf(f, c) PROVE KeptInv'
  BY <1>7, EditKeeps
<1> QED
  BY <1>1, <1>2, <1>3, <1>4, <1>5, <1>6, <1>7, EditsAre DEF AutoNext

LEMMA KeptImplied == AutoTypes /\ KeptInv => LocalContentIsKept
<1> SUFFICES ASSUME AutoTypes, KeptInv, NEW f \in BundleFiles, local[f].keep,
                    \A p \in Installers : installer[p].pc = "filling" => NextFile(installer[p]) # f
             PROVE  Preserved(f, local[f].content, disk[f])
  BY DEF LocalContentIsKept
<1>1. KeptFile(f) /\ ~\E p \in Installers : Fills(p, f)
  BY DEF KeptInv, Fills
<1> QED
  BY <1>1, KeepsPreserves DEF KeptFile

\* What the user wrote stays, through any installs of any bundle, updates and
\* changes of client, for any number of commands that run at a time and are killed
\* anywhere (mergeJsonArray, buildAutomationInstallPlan, installAutomationBundle),
\* when nothing generated by name shares its type or command with a generated hook.
THEOREM LocalContentStays ==
  ASSUME Apart
  PROVE  AutoSpec => []LocalContentIsKept
<1>1. AutoTypes /\ KeptInv /\ [AutoNext]_autoVars => KeptInv'
  BY KeptStays
<1> QED
  BY <1>1, KeptStarts, AutoTypesHold, KeptImplied, PTL DEF AutoSpec

-----------------------------------------------------------------------------
(***************************************************************************)
(* Automations: an install that ran alone settles.                         *)
(***************************************************************************)
Shades(f, c) ==
  Form[f] = "config" /\ \E i \in DOMAIN c.list : \E g \in Generated :
    /\ "name" \in DOMAIN c.list[i] /\ "name" \in DOMAIN g
    /\ c.list[i]["name"] = g["name"] /\ EntryKey(c.list[i]) # EntryKey(g)

\* The same version again has nothing to write, or it spells what is there another
\* way and then has nothing to write.
Rests(f, v, c) ==
  LET next == Planned(f, v, c)
  IN  \/ Shades(f, c)
      \/ next = c
      \/ Respelled(f, v, c, next) /\ Planned(f, v, next) = next

LEMMA ShadowsShade ==
  ASSUME NEW f, Form[f] = "config", NEW c, NEW g \in Generated, ShadowedBy(c.list, g)
  PROVE  Shades(f, c)
<1>1. PICK i \in DOMAIN c.list :
        /\ Turned(g, c.list[i]) /\ "name" \in DOMAIN c.list[i]
        /\ c.list[i]["name"] = g["name"]
  BY DEF ShadowedBy
<1>2. ~NamesHook(g) /\ "name" \in DOMAIN g /\ NamesHook(c.list[i])
  BY <1>1 DEF Turned
<1>3. EntryKey(c.list[i]) # EntryKey(g)
  BY <1>2, SameName
<1> QED
  BY <1>1, <1>2, <1>3 DEF Shades

\* Instructions: what is put behind a text has its $$, what replaces it has not.
LEMMA NotesRest ==
  ASSUME NEW f \in BundleFiles, Form[f] = "notes", NEW v \in Versions, NEW c \in FileContents(f)
  PROVE  Rests(f, v, Planned(f, v, c))
<1> PICK d : d = Planned(f, v, c)
  OBVIOUS
<1>1. ASSUME NEW a, d = Text(a, Undollared(v)), v \in Dollars
      PROVE  Planned(f, v, d) = d
  <2>1. d # NotThere
    BY PlannedIsDrawn DEF Drawn
  <2>2. d.own = a /\ d.section # 0 /\ d # Text(v, 0)
    BY <1>1, TextsAre, SectionsAre
  <2> QED
    BY <1>1, <2>1, <2>2, NotesAre
<1>2. ASSUME NEW a, d = Text(a, v)
      PROVE  Rests(f, v, d)
  <2>1. d # NotThere
    BY PlannedIsDrawn DEF Drawn
  <2>2. d.own = a /\ d.section = v /\ d # Text(v, 0) /\ v # 0
    BY <1>2, TextsAre, SectionsAre
  <2>3. CASE v \notin Dollars
    <3>1. Planned(f, v, d) = d
      BY <1>2, <2>1, <2>2, <2>3, NotesAre
    <3> QED
      BY <3>1 DEF Rests
  <2>4. CASE v \in Dollars
    <3> PICK e : e = Text(a, Undollared(v))
      OBVIOUS
    <3>1. Planned(f, v, d) = e
      BY <2>1, <2>2, <2>4, NotesAre
    <3>2. e = [d EXCEPT !.section = Undollared(v)]
      BY <1>2 DEF Text
    <3>3. e # NotThere /\ e # Text(v, 0) /\ e.own = a /\ e.section # 0
      <4>1. d \in FileContents(f)
        BY PlannedIsDrawn DEF Drawn
      <4>2. e # NotThere
        BY <3>1, <4>1, PlannedIsDrawn DEF Drawn
      <4> QED
        BY <4>2, TextsAre, SectionsAre
    <3>4. Planned(f, v, e) = e
      BY <2>4, <3>3, NotesAre
    <3> QED
      BY <2>2, <3>1, <3>2, <3>4 DEF Rests, Respelled
  <2> QED
    BY <2>3, <2>4
<1>3. CASE c = NotThere
  BY <1>2, <1>3, NotesAre
<1>4. CASE c # NotThere /\ c = Text(v, 0)
  BY <1>4, NotesAre DEF Rests
<1>5. CASE c # NotThere /\ c # Text(v, 0)
  <2>1. \/ v \in Dollars /\ d = Text(c.own, Undollared(v))
        \/ d = Text(c.own, v)
    BY <1>5, NotesAre
  <2> QED
    BY <1>1, <1>2, <2>1 DEF Rests
<1> QED
  BY <1>3, <1>4, <1>5

\* A configuration: its entries are settled, and printing it once is enough.
LEMMA ConfigRests ==
  ASSUME Apart, NoKeyTwice, NEW f \in BundleFiles, Form[f] = "config", NEW v \in Versions,
         NEW c \in FileContents(f)
  PROVE  Rests(f, v, Planned(f, v, c))
<1> PICK d : d = Planned(f, v, c)
  OBVIOUS
<1> PICK E : E = Entries[v]
  OBVIOUS
<1>1. Drawn(f, d) /\ Parses(f, d) /\ d \in JsonFiles
  <2>1. Drawn(f, d)
    BY PlannedIsDrawn
  <2> QED
    BY <2>1, ShapeOf DEF Drawn, Parses
<1>2. /\ d.list \in Seq(Items) /\ d.layout \in {"printed", "other"}
      /\ d = [list |-> d.list, layout |-> d.layout]
  BY <1>1 DEF JsonFiles
<1>3. SettledIn(d.list, E, Len(E))
  <2>1. CASE Parses(f, c)
    <3>1. c.list \in Seq(Items)
      BY <2>1, ShapeOf, JsonFilesAre DEF Parses
    <3>2. d.list = Merged(c.list, E)
      BY <2>1, ConfigsAre
    <3> QED
      BY <3>1, <3>2, MergedSettles
  <2>2. CASE ~Parses(f, c)
    <3>1. d.list = E
      BY <2>2, ConfigsAre
    <3> QED
      BY <3>1, GeneratedSettles
  <2> QED
    BY <2>1, <2>2
<1>4. CASE \E g \in Generated : ShadowedBy(d.list, g)
  BY <1>4, ShadowsShade DEF Rests
<1>5. CASE ~\E g \in Generated : ShadowedBy(d.list, g)
  <2>1. Merged(d.list, E) = d.list
    BY <1>2, <1>3, <1>5, MergedAgain
  <2> PICK e : e = [list |-> d.list, layout |-> "printed"]
    OBVIOUS
  <2>2. Planned(f, v, d) = e
    BY <1>1, <2>1, ConfigsAre
  <2>3. CASE d.layout = "printed"
    BY <1>2, <2>2, <2>3 DEF Rests
  <2>4. CASE d.layout = "other"
    <3>1. e = [d EXCEPT !.layout = "printed"] /\ e.list = d.list
      BY <1>2
    <3>2. Parses(f, e)
      BY <1>1, <2>2, PlannedIsDrawn DEF Drawn, Parses
    <3>3. Planned(f, v, e) = e
      BY <2>1, <3>1, <3>2, ConfigsAre
    <3> QED
      BY <2>2, <2>4, <3>1, <3>3 DEF Rests, Respelled
  <2> QED
    BY <1>2, <2>3, <2>4
<1> QED
  BY <1>4, <1>5

LEMMA PlannedRests ==
  ASSUME Apart, NoKeyTwice, NEW f \in BundleFiles, NEW v \in Versions, NEW c \in FileContents(f)
  PROVE  Rests(f, v, Planned(f, v, c))
<1>1. CASE Form[f] = "script"
  BY <1>1 DEF Planned, Rests
<1> QED
  BY <1>1, NotesRest, ConfigRests, ShapeOf

\* Who runs alone has written what it has written.
WorksAlone(p) ==
  installer[p] # Elsewhere /\ installer[p].alone =>
    /\ \A q \in Installers : q # p => installer[q] = Elsewhere
    /\ \A f \in FilesOf(installer[p].client) :
         f \notin installer[p].todo => disk[f] = installer[p].content[f]

PlanRests(p) ==
  installer[p] # Elsewhere =>
    \A f \in FilesOf(installer[p].client) : Rests(f, installer[p].version, installer[p].content[f])

HasSettled ==
  autoLog.settled # <<>> =>
    /\ \A p \in Installers : installer[p] = Elsewhere
    /\ \A f \in FilesOf(autoLog.settled[1]) :
         managed[f] = disk[f] /\ Rests(f, autoLog.settled[2], disk[f])

SettleInv ==
  /\ \A p \in Installers : WorksAlone(p) /\ PlanRests(p)
  /\ HasSettled

LEMMA SettleStarts == AutoInit => SettleInv
BY DEF AutoInit, SettleInv, WorksAlone, PlanRests, HasSettled

LEMMA InstallSettling ==
  ASSUME Apart, NoKeyTwice, AutoTypes, SettleInv, NEW p \in Installers,
         NEW client \in DOMAIN Bundle, NEW force \in BOOLEAN, NEW version \in 1 .. published,
         Install(p, client, force, version)
  PROVE  SettleInv'
<1> PICK files : files = FilesOf(client)
  OBVIOUS
<1> PICK content : content = [f \in files |-> Planned(f, version, disk[f])]
  OBVIOUS
<1> PICK todo : todo = {f \in files : content[f] # disk[f]}
  OBVIOUS
<1> PICK harms : harms = {f \in files : (force /\ ~Mergeable(f, disk[f])) \/ disk[f] = CutOff(f)}
  OBVIOUS
<1> PICK alone : alone = \A q \in Installers : installer[q] = Elsewhere
  OBVIOUS
<1> PICK i : i = [pc |-> "ready", client |-> client, version |-> version, content |-> content,
                  todo |-> todo, harms |-> harms, alone |-> alone]
  OBVIOUS
<1>1. /\ Event /\ installer' = [Disturbed EXCEPT ![p] = i] /\ disk' = disk
  BY DEF Install
<1>2. version \in Versions /\ files \subseteq BundleFiles
  BY BundleShape, FilesAre DEF AutoTypes, Versions
<1>3. installer'[p] = i /\ \A q \in Installers : q # p => installer'[q] = Disturbed[q]
  BY <1>1, DisturbedAre
<1>4. /\ i.client = client /\ i.version = version /\ i.content = content /\ i.todo = todo
      /\ i.alone = alone
  OBVIOUS
<1>5. ASSUME NEW f \in files PROVE Rests(f, version, content[f])
  <2>1. f \in BundleFiles /\ disk[f] \in FileContents(f)
    BY <1>2 DEF AutoTypes
  <2> QED
    BY <1>2, <2>1, PlannedRests
<1>6. ASSUME NEW q \in Installers PROVE PlanRests(q)'
  <2>1. CASE q = p
    BY <1>3, <1>4, <1>5, <2>1 DEF PlanRests
  <2>2. CASE q # p /\ installer[q] = Elsewhere
    BY <1>3, <2>2, DisturbedAre DEF PlanRests
  <2>3. CASE q # p /\ installer[q] # Elsewhere
    <3>1. /\ installer'[q].client = installer[q].client /\ installer'[q].version = installer[q].version
          /\ installer'[q].content = installer[q].content
      BY <1>3, <2>3, DisturbedAre DEF SameWork
    <3> QED
      BY <2>3, <3>1 DEF SettleInv, PlanRests, FilesOf
  <2> QED
    BY <2>1, <2>2, <2>3
<1>7. ASSUME NEW q \in Installers, installer'[q] # Elsewhere, installer'[q].alone
      PROVE  /\ q = p /\ \A r \in Installers : r # p => installer'[r] = Elsewhere
             /\ \A f \in files : f \notin todo => disk'[f] = content[f]
  <2>1. q = p
    BY <1>3, <1>7, DisturbedAre
  <2>2. alone
    BY <1>3, <1>4, <1>7, <2>1
  <2>3. \A r \in Installers : r # p => installer'[r] = Elsewhere
    BY <1>3, <2>2, DisturbedAre
  <2> QED
    BY <1>1, <2>1, <2>3
<1>8. \A q \in Installers : WorksAlone(q)'
  BY <1>3, <1>4, <1>7 DEF WorksAlone
<1>9. HasSettled'
  <2>1. autoLog'.settled = <<>>
    BY <1>1 DEF Event
  <2> QED
    BY <2>1 DEF HasSettled
<1> QED
  BY <1>6, <1>8, <1>9 DEF SettleInv

\* Someone at work: nothing has settled.
LEMMA NotSettled ==
  ASSUME SettleInv, NEW p \in Installers, installer[p] # Elsewhere
  PROVE  autoLog.settled = <<>>
BY DEF SettleInv, HasSettled

\* A step of one installer, who is alone afterwards only when it was.
LEMMA WorkSettling ==
  ASSUME AutoTypes, SettleInv, NEW p \in Installers, NEW j \in Jobs, installer[p] # Elsewhere,
         installer' = [installer EXCEPT ![p] = j], autoLog' = autoLog,
         j.client = installer[p].client, j.version = installer[p].version,
         j.content = installer[p].content, j.alone = installer[p].alone,
         installer[p].alone => \A f \in FilesOf(j.client) : f \notin j.todo => disk'[f] = j.content[f],
         disk' = disk \/ \A q \in Installers : q # p => (installer[q] # Elsewhere => ~installer[q].alone)
  PROVE  SettleInv'
<1>1. installer'[p] = j /\ \A q \in Installers : q # p => installer'[q] = installer[q]
  BY OneInstaller
<1>2. \A q \in Installers : PlanRests(q)'
  BY <1>1 DEF SettleInv, PlanRests, FilesOf
<1>3. ASSUME NEW q \in Installers PROVE WorksAlone(q)'
  <2>1. CASE q = p
    <3>1. CASE j.alone
      <4>1. \A r \in Installers : r # p => installer[r] = Elsewhere
        BY <3>1 DEF SettleInv, WorksAlone
      <4>2. \A f \in FilesOf(j.client) : f \notin j.todo => disk'[f] = j.content[f]
        BY <3>1
      <4> QED
        BY <1>1, <2>1, <4>1, <4>2 DEF WorksAlone
    <3>2. CASE ~j.alone
      BY <1>1, <2>1, <3>2 DEF WorksAlone
    <3> QED
      BY <3>1, <3>2
  <2>2. CASE q # p
    BY <1>1, <2>2 DEF SettleInv, WorksAlone
  <2> QED
    BY <2>1, <2>2
<1>4. HasSettled'
  BY NotSettled DEF HasSettled
<1> QED
  BY <1>2, <1>3, <1>4 DEF SettleInv

LEMMA OthersNotAlone ==
  ASSUME SettleInv, NEW p \in Installers, installer[p] # Elsewhere
  PROVE  \A q \in Installers : q # p => (installer[q] # Elsewhere => ~installer[q].alone)
BY DEF SettleInv, WorksAlone

LEMMA CutSettling ==
  ASSUME AutoTypes, SettleInv, NEW p \in Installers, CutFile(p)
  PROVE  SettleInv'
<1> PICK i : i = installer[p]
  OBVIOUS
<1> PICK j : j = [i EXCEPT !.pc = "filling"]
  OBVIOUS
<1> PICK f : f = NextFile(i)
  OBVIOUS
<1>1. /\ i.pc = "ready" /\ i.todo # {} /\ installer' = [installer EXCEPT ![p] = j]
      /\ disk' = [disk EXCEPT ![f] = CutOff(f)] /\ autoLog' = autoLog
  BY DEF CutFile, Transit
<1>2. i \in Jobs /\ JobTypes(i, published) /\ i # Elsewhere
  BY <1>1, AtWork DEF Elsewhere
<1>3. /\ j \in Jobs /\ j.client = i.client /\ j.version = i.version /\ j.content = i.content
      /\ j.todo = i.todo /\ j.alone = i.alone
  BY <1>2 DEF Jobs
<1>4. f \in i.todo /\ f \in BundleFiles /\ FilesOf(i.client) \subseteq BundleFiles
  BY <1>1, <1>2, NextIsToDo, JobsAre, FilesAre DEF JobTypes
<1>5. \A g \in BundleFiles : g # f => disk'[g] = disk[g]
  BY <1>1, <1>4, NotThereIs, FileWritten
<1>6. i.alone => \A g \in FilesOf(j.client) : g \notin j.todo => disk'[g] = j.content[g]
  BY <1>2, <1>3, <1>4, <1>5 DEF SettleInv, WorksAlone
<1> QED
  BY <1>1, <1>2, <1>3, <1>6, OthersNotAlone, WorkSettling

LEMMA FillSettling ==
  ASSUME AutoTypes, SettleInv, NEW p \in Installers, FillFile(p)
  PROVE  SettleInv'
<1> PICK i : i = installer[p]
  OBVIOUS
<1> PICK f : f = NextFile(i)
  OBVIOUS
<1> PICK j : j = [i EXCEPT !.pc = "ready", !.todo = @ \ {f}]
  OBVIOUS
<1>1. /\ i.pc = "filling" /\ installer' = [installer EXCEPT ![p] = j]
      /\ disk' = [disk EXCEPT ![f] = i.content[f]] /\ autoLog' = autoLog
  BY DEF FillFile, Transit
<1>2. i \in Jobs /\ JobTypes(i, published) /\ i # Elsewhere
  BY <1>1, AtWork DEF Elsewhere
<1>3. /\ j \in Jobs /\ j.client = i.client /\ j.version = i.version /\ j.content = i.content
      /\ j.todo = i.todo \ {f} /\ j.alone = i.alone
  BY <1>2 DEF Jobs
<1>4. f \in i.todo /\ f \in BundleFiles /\ FilesOf(i.client) \subseteq BundleFiles /\ f \in FilesOf(i.client)
  BY <1>1, <1>2, NextIsToDo, JobsAre, FilesAre DEF JobTypes
<1>5. disk'[f] = i.content[f] /\ \A g \in BundleFiles : g # f => disk'[g] = disk[g]
  BY <1>1, <1>2, <1>4, FileWritten DEF JobTypes, Drawn
<1>6. i.alone => \A g \in FilesOf(j.client) : g \notin j.todo => disk'[g] = j.content[g]
  BY <1>2, <1>3, <1>4, <1>5 DEF SettleInv, WorksAlone
<1> QED
  BY <1>1, <1>2, <1>3, <1>6, OthersNotAlone, WorkSettling

LEMMA CutManifestSettling ==
  ASSUME AutoTypes, SettleInv, NEW p \in Installers, CutManifestFile(p)
  PROVE  SettleInv'
<1> PICK i : i = installer[p]
  OBVIOUS
<1> PICK j : j = [i EXCEPT !.pc = "listing"]
  OBVIOUS
<1>1. /\ i.pc = "ready" /\ installer' = [installer EXCEPT ![p] = j] /\ disk' = disk /\ autoLog' = autoLog
  BY DEF CutManifestFile, Transit
<1>2. i \in Jobs /\ i # Elsewhere
  BY <1>1, AtWork DEF Elsewhere
<1>3. /\ j \in Jobs /\ j.client = i.client /\ j.version = i.version /\ j.content = i.content
      /\ j.todo = i.todo /\ j.alone = i.alone
  BY <1>2 DEF Jobs
<1>4. i.alone => \A g \in FilesOf(j.client) : g \notin j.todo => disk'[g] = j.content[g]
  BY <1>1, <1>2, <1>3 DEF SettleInv, WorksAlone
<1> QED
  BY <1>1, <1>2, <1>3, <1>4, WorkSettling

\* An installer that ends.
LEMMA LeavingSettles ==
  ASSUME AutoTypes, SettleInv, NEW p \in Installers, installer' = [installer EXCEPT ![p] = Elsewhere],
         disk' = disk
  PROVE  \A q \in Installers : WorksAlone(q)' /\ PlanRests(q)'
<1>1. installer'[p] = Elsewhere /\ \A q \in Installers : q # p => installer'[q] = installer[q]
  BY OneInstaller
<1>2. \A q \in Installers : PlanRests(q)'
  BY <1>1 DEF SettleInv, PlanRests
<1>3. \A q \in Installers : WorksAlone(q)'
  BY <1>1 DEF SettleInv, WorksAlone
<1> QED
  BY <1>2, <1>3

LEMMA FillManifestSettling ==
  ASSUME AutoTypes, SettleInv, NEW p \in Installers, FillManifestFile(p)
  PROVE  SettleInv'
<1> PICK i : i = installer[p]
  OBVIOUS
<1>1. /\ i.pc = "listing" /\ installer' = [installer EXCEPT ![p] = Elsewhere] /\ disk' = disk
      /\ managed' = ManifestOf(i)
      /\ autoLog' = [autoLog EXCEPT !.settled = IF i.alone THEN <<i.client, i.version>> ELSE @]
  BY DEF FillManifestFile, Transit
<1>2. i \in Jobs /\ i # Elsewhere /\ JobTypes(i, published)
  BY <1>1, AtWork DEF Elsewhere
<1>3. HasSettled'
  <2>1. CASE ~i.alone
    <3>1. autoLog'.settled = <<>>
      BY <1>1, <1>2, <2>1, NotSettled DEF AutoTypes
    <3> QED
      BY <3>1 DEF HasSettled
  <2>2. CASE i.alone
    <3>1. autoLog'.settled[1] = i.client /\ autoLog'.settled[2] = i.version
      BY <1>1, <2>2 DEF AutoTypes
    <3>2. \A q \in Installers : installer'[q] = Elsewhere
      BY <1>1, <1>2, <2>2, OneInstaller DEF SettleInv, WorksAlone
    <3>3. ASSUME NEW f \in FilesOf(i.client)
          PROVE  managed'[f] = disk'[f] /\ Rests(f, i.version, disk'[f])
      <4>1. f \in BundleFiles /\ f \in DOMAIN i.content /\ f \notin i.todo
        BY <1>1, <1>2, FilesAre, JobsAre DEF JobTypes
      <4>2. disk'[f] = i.content[f]
        BY <1>1, <1>2, <2>2, <4>1 DEF SettleInv, WorksAlone
      <4>3. managed'[f] = i.content[f]
        BY <1>1, <4>1 DEF ManifestOf
      <4>4. Rests(f, i.version, i.content[f])
        BY <1>2 DEF SettleInv, PlanRests
      <4> QED
        BY <4>2, <4>3, <4>4
    <3> QED
      BY <3>1, <3>2, <3>3 DEF HasSettled, FilesOf
  <2> QED
    BY <2>1, <2>2
<1> QED
  BY <1>1, <1>3, LeavingSettles DEF SettleInv

LEMMA KillSettling ==
  ASSUME AutoTypes, SettleInv, NEW p \in Installers, KillInstall(p)
  PROVE  SettleInv'
<1>1. /\ installer[p] # Elsewhere /\ installer' = [installer EXCEPT ![p] = Elsewhere]
      /\ disk' = disk /\ autoLog' = autoLog
  BY DEF KillInstall
<1>2. HasSettled'
  BY <1>1, NotSettled DEF HasSettled
<1> QED
  BY <1>1, <1>2, LeavingSettles DEF SettleInv

LEMMA EditSettling ==
  ASSUME AutoTypes, SettleInv, NEW f, NEW c, EditOf(f, c)
  PROVE  SettleInv'
<1>1. f \in BundleFiles /\ c \in FileContents(f) /\ EditFile(f, c) /\ Event
  BY DEF EditOf, EditFile
<1>2. \A p \in Installers :
        /\ installer[p] = Elsewhere => installer'[p] = Elsewhere
        /\ installer[p] # Elsewhere => SameWork(installer[p], installer'[p]) /\ ~installer'[p].alone
  BY <1>1, EditTold
<1>3. \A p \in Installers : WorksAlone(p)'
  BY <1>2 DEF WorksAlone
<1>4. ASSUME NEW p \in Installers PROVE PlanRests(p)'
  <2>1. CASE installer[p] = Elsewhere
    BY <1>2, <2>1 DEF PlanRests
  <2>2. CASE installer[p] # Elsewhere
    <3>1. /\ installer'[p].client = installer[p].client /\ installer'[p].version = installer[p].version
          /\ installer'[p].content = installer[p].content
      BY <1>2, <2>2 DEF SameWork
    <3> QED
      BY <2>2, <3>1 DEF SettleInv, PlanRests, FilesOf
  <2> QED
    BY <2>1, <2>2
<1>5. HasSettled'
  <2>1. autoLog'.settled = <<>>
    BY <1>1 DEF Event
  <2> QED
    BY <2>1 DEF HasSettled
<1> QED
  BY <1>3, <1>4, <1>5 DEF SettleInv

LEMMA PublishSettling ==
  ASSUME AutoTypes, SettleInv, Publish
  PROVE  SettleInv'
<1>1. Event /\ UNCHANGED <<disk, installer>>
  BY DEF Publish
<1>2. autoLog'.settled = <<>>
  BY <1>1 DEF Event
<1> QED
  BY <1>1, <1>2 DEF SettleInv, WorksAlone, PlanRests, HasSettled, FilesOf

LEMMA SettleStays ==
  ASSUME Apart, NoKeyTwice, AutoTypes, SettleInv, [AutoNext]_autoVars
  PROVE  SettleInv'
<1>1. CASE UNCHANGED autoVars
  BY <1>1 DEF autoVars, SettleInv, WorksAlone, PlanRests, HasSettled, FilesOf
<1>2. ASSUME NEW p \in Installers, NEW client \in DOMAIN Bundle, NEW force \in BOOLEAN,
             NEW version \in 1 .. published, Install(p, client, force, version)
      PROVE  SettleInv'
  BY <1>2, InstallSettling
<1>3. ASSUME NEW p \in Installers, CutFile(p) PROVE SettleInv'
  BY <1>3, CutSettling
<1>4. ASSUME NEW p \in Installers, FillFile(p) PROVE SettleInv'
  BY <1>4, FillSettling
<1>5. ASSUME NEW p \in Installers, CutManifestFile(p) PROVE SettleInv'
  BY <1>5, CutManifestSettling
<1>6. ASSUME NEW p \in Installers, FillManifestFile(p) PROVE SettleInv'
  BY <1>6, FillManifestSettling
<1>7. ASSUME NEW p \in Installers, KillInstall(p) PROVE SettleInv'
  BY <1>7, KillSettling
<1>8. ASSUME NEW f \in BundleFiles, NEW c, EditOf(f, c) PROVE SettleInv'
  BY <1>8, EditSettling
<1>9. CASE Publish
  BY <1>9, PublishSettling
<1> QED
  BY <1>1, <1>2, <1>3, <1>4, <1>5, <1>6, <1>7, <1>8, <1>9, EditsAre DEF AutoNext

LEMMA SettleImplied == SettleInv => InstallSettles
<1> SUFFICES ASSUME SettleInv, autoLog.settled # <<>>, NEW f \in FilesOf(autoLog.settled[1])
             PROVE  LET version == autoLog.settled[2]  next == Planned(f, version, disk[f])
                    IN  /\ managed[f] = disk[f]
                        /\ \/ Shadowed(f)
                           \/ next = disk[f]
                           \/ Respelled(f, version, disk[f], next) /\ Planned(f, version, next) = next
  BY DEF InstallSettles
<1>1. managed[f] = disk[f] /\ Rests(f, autoLog.settled[2], disk[f])
  BY DEF SettleInv, HasSettled
<1>2. Shades(f, disk[f]) => Shadowed(f)
  BY DEF Shades, Shadowed
<1> QED
  BY <1>1, <1>2 DEF Rests

\* After an install that ran alone the manifest has its files as they are, and the
\* same install again writes nothing new: at most it prints a configuration that
\* was served in another layout, or drops a $ from instructions that have two, and
\* then there is nothing to write (manifestFromBundle, mergeJsonConfigContent,
\* mergeMarkdownInstructionContent).  A version has one entry for a key.
THEOREM InstallsSettle ==
  ASSUME Apart, NoKeyTwice
  PROVE  AutoSpec => []InstallSettles
<1>1. AutoTypes /\ SettleInv /\ [AutoNext]_autoVars => SettleInv'
  BY SettleStays
<1> QED
  BY <1>1, SettleStarts, AutoTypesHold, SettleImplied, PTL DEF AutoSpec

\* Files, manifest and plans are what their forms allow (installAutomationBundle).
THEOREM AutoTypesOK == AutoSpec => []AutoTypeOK
BY AutoTypesHold, TypesImplied, PTL
=============================================================================
