---------------------- MODULE ControlDependenceProofs ----------------------
(***************************************************************************)
(* The control dependences buildPDG.cpp finds are those of the textbook,   *)
(* for loops of any number of blocks and any order of the search.          *)
(***************************************************************************)
EXTENDS ControlDependence, BasicFacts, FiniteSetTheorems, FunctionTheorems, TLAPS

-----------------------------------------------------------------------------
(* What can be reached is the least set that holds the start and is closed  *)
(* under the edges.                                                         *)

Further(G, r) == r \cup UNION {G[c] : c \in r \cap DOMAIN G}

\* g holds what is reached in up to m steps.
Layers(G, b, m, g) == g = [n \in 0 .. m |-> IF n = 0 THEN {b} ELSE Further(G, g[n - 1])]

IsClosed(G, S) == \A c \in S \cap DOMAIN G : G[c] \subseteq S

LEMMA LayersExist == ASSUME NEW G, NEW b, NEW m \in Nat
                     PROVE  \E g : Layers(G, b, m, g)
<1> DEFINE Bad == {n \in Nat : ~ \E g : Layers(G, b, n, g)}
<1> SUFFICES ASSUME Bad # {} PROVE FALSE
  OBVIOUS
<1>1. PICK n \in Bad : \A k \in Bad : n <= k
  BY SmallestMember
<1>2. n # 0
  <2>1. Layers(G, b, 0, [k \in 0 .. 0 |-> {b}])
    BY DEF Layers
  <2> QED BY <2>1
<1>3. n - 1 \in Nat /\ n \in Nat
  BY <1>2
<1>4. PICK g : Layers(G, b, n - 1, g)
  BY <1>1, <1>3
<1> DEFINE h == [k \in 0 .. n |-> IF k = n THEN Further(G, g[n - 1]) ELSE g[k]]
<1>5. \A k \in 0 .. n - 1 : g[k] = IF k = 0 THEN {b} ELSE Further(G, g[k - 1])
  BY <1>3, <1>4 DEF Layers
<1>6. ASSUME NEW k \in 0 .. n
      PROVE  h[k] = IF k = 0 THEN {b} ELSE Further(G, h[k - 1])
  <2>1. k # 0 => k - 1 \in 0 .. n /\ k - 1 # n
    BY <1>3
  <2>2. k # 0 => h[k - 1] = g[k - 1]
    BY <2>1
  <2>3. CASE k = n
    BY <1>2, <2>2, <2>3
  <2>4. CASE k # n
    <3>1. k \in 0 .. n - 1 /\ h[k] = g[k]
      BY <1>3, <2>4
    <3> QED BY <1>5, <2>2, <3>1
  <2> QED BY <2>3, <2>4
<1>7. Layers(G, b, n, h)
  BY <1>6 DEF Layers
<1> QED BY <1>1, <1>7

LEMMA LayersFacts ==
  ASSUME NEW G, NEW b, NEW m \in Nat, NEW g, Layers(G, b, m, g)
  PROVE  /\ g[0] = {b}
         /\ \A n \in 0 .. m - 1 : g[n + 1] = Further(G, g[n])
<1>1. \A k \in 0 .. m : g[k] = IF k = 0 THEN {b} ELSE Further(G, g[k - 1])
  BY DEF Layers
<1>2. ASSUME NEW n \in 0 .. m - 1 PROVE g[n + 1] = Further(G, g[n])
  <2>1. n + 1 \in 0 .. m /\ n + 1 # 0 /\ (n + 1) - 1 = n
    OBVIOUS
  <2> QED BY <1>1, <2>1
<1> QED BY <1>1, <1>2

LEMMA ReachedIsLayer ==
  ASSUME NEW G, NEW b, Cardinality(DOMAIN G) \in Nat
  PROVE  \E g : /\ Layers(G, b, Cardinality(DOMAIN G), g)
                /\ Reached(G, b) = g[Cardinality(DOMAIN G)]
<1> DEFINE R == CHOOSE g : Layers(G, b, Cardinality(DOMAIN G), g)
<1>1. Layers(G, b, Cardinality(DOMAIN G), R)
  BY LayersExist
<1>2. Reached(G, b) = R[Cardinality(DOMAIN G)]
  BY DEF Reached, Layers, Further
<1> QED BY <1>1, <1>2

\* As long as a layer is not closed the next has a block more.
LEMMA LayersGrow ==
  ASSUME NEW G, NEW b, IsFiniteSet(DOMAIN G), NEW m \in Nat, NEW g, Layers(G, b, m, g)
  PROVE  \A n \in 0 .. m : \/ IsClosed(G, g[n])
                           \/ Cardinality(g[n] \cap DOMAIN G) >= n + 1
<1>0. g[0] = {b} /\ \A k \in 0 .. m - 1 : g[k + 1] = Further(G, g[k])
  BY LayersFacts
<1> DEFINE D == DOMAIN G
           Bad == {n \in 0 .. m : ~ \/ IsClosed(G, g[n])
                                    \/ Cardinality(g[n] \cap D) >= n + 1}
<1> SUFFICES ASSUME Bad # {} PROVE FALSE
  OBVIOUS
<1>1. PICK n \in Bad : \A k \in Bad : n <= k
  <2>1. Bad \subseteq Nat
    OBVIOUS
  <2> QED BY <2>1, SmallestMember
<1>2. \A S : /\ IsFiniteSet(S \cap D)
             /\ Cardinality(S \cap D) \in Nat
  <2> TAKE S
  <2>1. S \cap D \in SUBSET D
    OBVIOUS
  <2> QED BY <2>1, FS_Subset, FS_CardinalityType
<1>3. CASE n = 0
  <2>1. g[n] = {b}
    BY <1>0, <1>3
  <2>2. CASE b \in D
    <3>1. g[n] \cap D = {b}
      BY <2>1, <2>2
    <3>2. Cardinality(g[n] \cap D) = 1
      BY <3>1, FS_Singleton
    <3> QED BY <1>1, <1>3, <3>2
  <2>3. CASE b \notin D
    <3>1. IsClosed(G, g[n])
      BY <2>1, <2>3 DEF IsClosed
    <3> QED BY <1>1, <3>1
  <2> QED BY <2>2, <2>3
<1>4. CASE n # 0
  <2> DEFINE r == g[n - 1]
  <2>1. n - 1 \in 0 .. m /\ n - 1 \in 0 .. m - 1 /\ (n - 1) + 1 = n /\ n \in 1 .. m
    BY <1>1, <1>4
  <2>2. g[n] = Further(G, r)
    <3>1. g[(n - 1) + 1] = Further(G, g[n - 1])
      BY <1>0, <2>1
    <3> QED BY <2>1, <3>1
  <2>3. ~IsClosed(G, g[n]) /\ ~(Cardinality(g[n] \cap D) >= n + 1)
    BY <1>1
  <2>4. ~IsClosed(G, r)
    <3>1. IsClosed(G, r) => Further(G, r) = r
      BY DEF IsClosed, Further
    <3> QED BY <2>2, <2>3, <3>1
  <2>5. Cardinality(r \cap D) >= n
    <3>1. n - 1 \notin Bad
      BY <1>1, <2>1
    <3>2. Cardinality(r \cap D) >= (n - 1) + 1
      BY <2>1, <2>4, <3>1
    <3> QED BY <2>1, <3>2
  <2>6. r \cap D \subseteq g[n] \cap D
    BY <2>2 DEF Further
  <2>7. r \cap D # g[n] \cap D
    <3> SUFFICES ASSUME r \cap D = g[n] \cap D PROVE FALSE
      OBVIOUS
    <3>1. IsClosed(G, g[n])
      BY <2>2 DEF IsClosed, Further
    <3> QED BY <2>3, <3>1
  <2>8. /\ Cardinality(r \cap D) <= Cardinality(g[n] \cap D)
        /\ Cardinality(r \cap D) # Cardinality(g[n] \cap D)
    BY <1>2, <2>6, <2>7, FS_Subset
  <2>9. Cardinality(r \cap D) \in Nat /\ Cardinality(g[n] \cap D) \in Nat
    BY <1>2
  <2> QED BY <2>1, <2>3, <2>5, <2>8, <2>9
<1> QED BY <1>3, <1>4

LEMMA ReachedFacts ==
  ASSUME NEW G, NEW b, IsFiniteSet(DOMAIN G)
  PROVE  /\ b \in Reached(G, b)
         /\ IsClosed(G, Reached(G, b))
         /\ \A S : b \in S /\ IsClosed(G, S) => Reached(G, b) \subseteq S
<1> DEFINE m == Cardinality(DOMAIN G)
<1>1. m \in Nat
  BY FS_CardinalityType
<1>2. PICK g : Layers(G, b, m, g) /\ Reached(G, b) = g[m]
  BY <1>1, ReachedIsLayer
<1> HIDE DEF m
<1>3. g[0] = {b} /\ \A n \in 0 .. m - 1 : g[n + 1] = Further(G, g[n])
  BY <1>1, <1>2, LayersFacts
\* Two inductions over the layers at once.
<1>4. ASSUME NEW S, b \in S, IsClosed(G, S)
      PROVE  \A n \in 0 .. m : b \in g[n] /\ g[n] \subseteq S
  <2> DEFINE Bad == {n \in 0 .. m : ~ (b \in g[n] /\ g[n] \subseteq S)}
  <2> SUFFICES ASSUME Bad # {} PROVE FALSE
    OBVIOUS
  <2>1. PICK n \in Bad : \A k \in Bad : n <= k
    <3>1. Bad \subseteq Nat
      BY <1>1
    <3> QED BY <3>1, SmallestMember
  <2>2. n # 0
    BY <1>3, <1>4, <2>1
  <2>3. n - 1 \in 0 .. m /\ n - 1 \in 0 .. m - 1 /\ (n - 1) + 1 = n /\ n - 1 < n
    BY <1>1, <2>1, <2>2
  <2>4. n - 1 \notin Bad
    BY <2>1, <2>3
  <2>5. g[n] = Further(G, g[n - 1])
    BY <1>3, <2>3
  <2>6. b \in g[n - 1] /\ g[n - 1] \subseteq S
    BY <2>3, <2>4
  <2>7. b \in g[n] /\ g[n] \subseteq S
    BY <1>4, <2>5, <2>6 DEF Further, IsClosed
  <2> QED BY <2>1, <2>7
<1>5. m \in 0 .. m
  BY <1>1
<1>6. \A S : b \in S /\ IsClosed(G, S) => b \in g[m] /\ g[m] \subseteq S
  BY <1>4, <1>5
<1>7. b \in g[m]
  <2>1. IsClosed(G, {b} \cup UNION {G[c] : c \in DOMAIN G})
    BY DEF IsClosed
  <2> QED BY <1>6, <2>1
<1>8. IsClosed(G, g[m])
  <2>1. IsFiniteSet(g[m] \cap DOMAIN G) /\ Cardinality(g[m] \cap DOMAIN G) <= m
    BY FS_Subset DEF m
  <2>2. Cardinality(g[m] \cap DOMAIN G) \in Nat
    BY <2>1, FS_CardinalityType
  <2>3. ~(Cardinality(g[m] \cap DOMAIN G) >= m + 1)
    BY <1>1, <2>1, <2>2
  <2> QED BY <1>1, <1>2, <1>5, <2>3, LayersGrow
<1> QED BY <1>2, <1>6, <1>7, <1>8

-----------------------------------------------------------------------------
(* d is a post-dominator of b exactly when some set that holds b and not    *)
(* the exit is left by no edge but those of d: a barrier.                   *)

Barrier(G, e, d, S) == e \notin S /\ \A c \in S \cap DOMAIN G : c # d => G[c] \subseteq S

LEMMA BarrierMakes ==
  ASSUME NEW G, NEW e, NEW b, NEW d \in DOMAIN G, IsFiniteSet(DOMAIN G),
         NEW S, b \in S, Barrier(G, e, d, S)
  PROVE  d \in PostDominators(G, e, b)
<1> DEFINE H == [G EXCEPT ![d] = {}]
<1>1. DOMAIN H = DOMAIN G /\ \A c \in DOMAIN G : H[c] = IF c = d THEN {} ELSE G[c]
  OBVIOUS
<1>2. IsClosed(H, S)
  BY <1>1 DEF IsClosed, Barrier
<1> HIDE DEF H
<1>3. Reached(H, b) \subseteq S
  BY <1>1, <1>2, ReachedFacts
<1> QED BY <1>3 DEF PostDominators, Barrier, H

LEMMA BarrierThere ==
  ASSUME NEW G, NEW e, NEW b, IsFiniteSet(DOMAIN G), NEW d \in PostDominators(G, e, b)
  PROVE  /\ d \in DOMAIN G
         /\ \E S : b \in S /\ Barrier(G, e, d, S)
<1> DEFINE H == [G EXCEPT ![d] = {}]
           S == Reached(H, b)
<1>1. d \in DOMAIN G /\ e \notin S
  BY DEF PostDominators
<1>2. DOMAIN H = DOMAIN G /\ \A c \in DOMAIN G : H[c] = IF c = d THEN {} ELSE G[c]
  OBVIOUS
<1> HIDE DEF H
<1>3. b \in S /\ IsClosed(H, S)
  BY <1>2, ReachedFacts
<1> HIDE DEF S
<1>4. Barrier(G, e, d, S)
  BY <1>1, <1>2, <1>3 DEF Barrier, IsClosed
<1> QED BY <1>1, <1>3, <1>4

\* The exit has no post-dominators, and a block is one of its own.
LEMMA AtTheExit == ASSUME NEW G, NEW e, IsFiniteSet(DOMAIN G)
                   PROVE  PostDominators(G, e, e) = {}
  BY BarrierThere DEF Barrier

LEMMA OwnPostDominator ==
  ASSUME NEW G, NEW e, IsFiniteSet(DOMAIN G), NEW d \in DOMAIN G, d # e
  PROVE  d \in PostDominators(G, e, d)
<1>1. Barrier(G, e, d, {d})
  BY DEF Barrier
<1> QED BY <1>1, BarrierMakes

-----------------------------------------------------------------------------
(* The search and the climb, for any control flow graph.                    *)

AnyGraphs == [Blocks -> SUBSET (Blocks \cup {exit})]

SearchInv == /\ succs \in AnyGraphs
             /\ calls \in Seq(Blocks) /\ Distinct(calls)
             /\ bb_ordered \in Seq(Blocks) /\ Distinct(bb_ordered)
             /\ Listed(calls) \cap Listed(bb_ordered) = {}
             /\ vis = Listed(calls) \cup Listed(bb_ordered)
             /\ it \in 0 .. 2 * Len(bb_ordered)
             /\ it > 0 => calls = <<>> /\ vis = Blocks

\* The edges so far are those of the dummy blocks climbed from so far.
ClimbInv == /\ \A n \in 0 .. it - 1 : \A c \in Climbed(dummylist(n)) :
                  <<dummylist(n)[1], c[1]>> \in control
            /\ \A e \in control : \E n \in 0 .. it - 1 : \E c \in Climbed(dummylist(n)) :
                  e = <<dummylist(n)[1], c[1]>>

LEMMA VisSubset == SearchInv => vis \subseteq Blocks
  BY ElementOfSeq DEF SearchInv, Listed

LEMMA SearchStart == ASSUME NEW loops \in SUBSET AnyGraphs, BuildFrom(loops)
                     PROVE  SearchInv /\ ClimbInv
<1>1. /\ calls = <<>> /\ bb_ordered = <<>> /\ vis = {} /\ it = 0 /\ control = {}
      /\ succs \in AnyGraphs
  BY DEF BuildFrom
<1>2. SearchInv
  BY <1>1, EmptyFacts, EmptySeq DEF SearchInv
<1> QED BY <1>1, <1>2 DEF ClimbInv

LEMMA EnterKeeps == ASSUME SearchInv, ClimbInv, NEW b \in Blocks, Enter(b)
                    PROVE  SearchInv' /\ ClimbInv'
<1>1. /\ b \notin vis /\ vis' = vis \cup {b} /\ calls' = Append(calls, b)
      /\ UNCHANGED <<succs, bb_ordered, it, control>>
  BY DEF Enter
<1>2. it = 0
  BY <1>1 DEF SearchInv
<1>3. b \notin Listed(calls) /\ b \notin Listed(bb_ordered)
  BY <1>1 DEF SearchInv
<1>4. /\ calls' \in Seq(Blocks) /\ Distinct(calls')
      /\ Listed(calls') = Listed(calls) \cup {b}
  BY <1>1, <1>3, PushFacts DEF SearchInv
<1>5. SearchInv'
  BY <1>1, <1>2, <1>3, <1>4 DEF SearchInv
<1> QED BY <1>1, <1>2, <1>5 DEF ClimbInv

LEMMA LeaveKeeps == ASSUME SearchInv, ClimbInv, Leave
                    PROVE  SearchInv' /\ ClimbInv'
<1> DEFINE b == calls[Len(calls)]
<1>1. /\ calls # <<>> /\ calls' = SubSeq(calls, 1, Len(calls) - 1)
      /\ bb_ordered' = Append(bb_ordered, b)
      /\ UNCHANGED <<succs, vis, it, control>>
  BY DEF Leave
<1>2. it = 0
  BY <1>1 DEF SearchInv
<1>3. /\ calls' \in Seq(Blocks) /\ Distinct(calls')
      /\ b \in Blocks /\ b \in Listed(calls)
      /\ Listed(calls') = Listed(calls) \ {b}
  BY <1>1, PopFacts DEF SearchInv
<1> HIDE DEF b
<1>4. b \notin Listed(bb_ordered)
  BY <1>3 DEF SearchInv
<1>5. /\ bb_ordered' \in Seq(Blocks) /\ Distinct(bb_ordered')
      /\ Len(bb_ordered') = Len(bb_ordered) + 1
      /\ Listed(bb_ordered') = Listed(bb_ordered) \cup {b}
  BY <1>1, <1>3, <1>4, PushFacts DEF SearchInv
<1>6. Len(bb_ordered) \in Nat
  BY DEF SearchInv
<1>7. it' \in 0 .. 2 * Len(bb_ordered')
  BY <1>1, <1>2, <1>5, <1>6
<1>8. SearchInv'
  BY <1>1, <1>2, <1>3, <1>4, <1>5, <1>7 DEF SearchInv
<1> QED BY <1>1, <1>2, <1>8 DEF ClimbInv

LEMMA ClimbKeeps == ASSUME SearchInv, ClimbInv, Climb
                    PROVE  SearchInv' /\ ClimbInv'
<1>1. /\ calls = <<>> /\ vis = Blocks /\ it < 2 * Len(bb_ordered) /\ it' = it + 1
      /\ control' = control \cup {<<dummylist(it)[1], c[1]>> : c \in Climbed(dummylist(it))}
      /\ UNCHANGED <<succs, calls, vis, bb_ordered>>
  BY DEF Climb
<1>2. it \in Nat /\ Len(bb_ordered) \in Nat
  BY DEF SearchInv
<1>3. SearchInv'
  BY <1>1, <1>2 DEF SearchInv
<1>4. \A n : dummylist(n)' = dummylist(n)
  BY <1>1 DEF dummylist
<1>5. \A n : Climbed(dummylist(n))' = Climbed(dummylist(n))
  BY <1>1 DEF Climbed, ClimbToExit, Dummy, TopTarget, Earlier, instnum, dummylist
<1>6. 0 .. it' - 1 = (0 .. it - 1) \cup {it}
  BY <1>1, <1>2
<1>7. ASSUME NEW n \in 0 .. it' - 1, NEW c \in Climbed(dummylist(n))
      PROVE  <<dummylist(n)[1], c[1]>> \in control'
  BY <1>1, <1>6, <1>7 DEF ClimbInv
<1>8. ASSUME NEW e \in control'
      PROVE  \E n \in 0 .. it' - 1 : \E c \in Climbed(dummylist(n)) :
                e = <<dummylist(n)[1], c[1]>>
  <2>1. CASE e \in control
    BY <1>6, <2>1 DEF ClimbInv
  <2>2. CASE e \notin control
    BY <1>1, <1>6, <2>2
  <2> QED BY <2>1, <2>2
<1> QED BY <1>3, <1>4, <1>5, <1>7, <1>8 DEF ClimbInv

LEMMA BuildKeeps == SearchInv /\ ClimbInv /\ [BuildNext]_buildVars => SearchInv' /\ ClimbInv'
<1> SUFFICES ASSUME SearchInv, ClimbInv, [BuildNext]_buildVars
             PROVE  SearchInv' /\ ClimbInv'
  OBVIOUS
<1>1. CASE UNCHANGED buildVars
  <2>1. UNCHANGED <<succs, calls, vis, bb_ordered, it, control>>
    BY <1>1 DEF buildVars
  <2>2. /\ \A n : dummylist(n)' = dummylist(n)
        /\ \A n : Climbed(dummylist(n))' = Climbed(dummylist(n))
    BY <2>1 DEF Climbed, ClimbToExit, Dummy, TopTarget, Earlier, instnum, dummylist
  <2>3. SearchInv'
    BY <2>1 DEF SearchInv
  <2> QED BY <2>1, <2>2, <2>3 DEF ClimbInv
<1> QED BY <1>1, EnterKeeps, LeaveKeeps, ClimbKeeps DEF BuildNext

-----------------------------------------------------------------------------
(* Once it is built, the climb has started from every dummy block.          *)

\* The instructions are numbered, and the climb was from everywhere.
Complete == /\ succs \in AnyGraphs
            /\ instnum \in [Blocks -> Int]
            /\ \A d \in Dummies : \A c \in Climbed(d) : <<d[1], c[1]>> \in control
            /\ \A e \in control : \E d \in Dummies : \E c \in Climbed(d) : e = <<d[1], c[1]>>

LEMMA NotBuilt == it = 0 => ~Built
<1>1. Blocks # {} /\ IsFiniteSet(Blocks)
  BY LoopAssumption
<1>2. Cardinality(Blocks) \in Nat /\ Cardinality(Blocks) # 0
  BY <1>1, FS_CardinalityType, FS_EmptySet
<1> QED BY <1>2 DEF Built

LEMMA OrderFits == SearchInv => /\ Len(bb_ordered) \in Nat /\ Cardinality(Blocks) \in Nat
                                /\ Len(bb_ordered) <= Cardinality(Blocks)
<1> SUFFICES ASSUME SearchInv
             PROVE  /\ Len(bb_ordered) \in Nat /\ Cardinality(Blocks) \in Nat
                    /\ Len(bb_ordered) <= Cardinality(Blocks)
  OBVIOUS
<1> DEFINE n == Len(bb_ordered)
<1>1. n \in Nat /\ bb_ordered \in [1 .. n -> Blocks]
  BY DEF SearchInv
<1>2. bb_ordered \in Injection(1 .. n, Blocks)
  BY <1>1, Fun_IsInj DEF SearchInv, Distinct
<1>3. n <= Cardinality(Blocks)
  <2>1. Cardinality(1 .. n) = n
    BY <1>1, FS_Interval
  <2> HIDE DEF n
  <2> QED BY <1>2, <2>1, LoopAssumption, FS_Injection
<1> QED BY <1>1, <1>3, LoopAssumption, FS_CardinalityType

LEMMA AllOrdered == SearchInv /\ Built => /\ Listed(bb_ordered) = Blocks
                                          /\ it = 2 * Len(bb_ordered)
<1> SUFFICES ASSUME SearchInv, Built
             PROVE  Listed(bb_ordered) = Blocks /\ it = 2 * Len(bb_ordered)
  OBVIOUS
<1>1. calls = <<>> /\ vis = Blocks
  <2>1. it > 0
    BY NotBuilt DEF SearchInv
  <2> QED BY <2>1 DEF SearchInv
<1>2. Listed(bb_ordered) = Blocks
  BY <1>1, EmptyFacts DEF SearchInv
<1>3. it = 2 * Len(bb_ordered)
  BY OrderFits DEF SearchInv, Built
<1> QED BY <1>2, <1>3

LEMMA BuiltIsComplete == SearchInv /\ ClimbInv /\ Built => Complete
<1> SUFFICES ASSUME SearchInv, ClimbInv, Built PROVE Complete
  OBVIOUS
<1> DEFINE n == Len(bb_ordered)
<1>1. Listed(bb_ordered) = Blocks /\ it = 2 * n /\ n \in Nat
  BY AllOrdered DEF SearchInv
<1>2. bb_ordered \in [1 .. n -> Blocks]
  BY DEF SearchInv
<1>3. instnum \in [Blocks -> Int]
  <2>1. ASSUME NEW b \in Blocks
        PROVE  (CHOOSE k \in DOMAIN bb_ordered : bb_ordered[k] = b) \in 1 .. n
    <3>1. \E k \in DOMAIN bb_ordered : bb_ordered[k] = b
      BY <1>1, <1>2 DEF Listed
    <3> QED BY <1>2, <3>1
  <2> HIDE DEF n
  <2>2. \A b \in Blocks : n - (CHOOSE k \in DOMAIN bb_ordered : bb_ordered[k] = b) \in Int
    BY <1>1, <2>1
  <2> QED BY <2>2 DEF instnum, n
<1>4. ASSUME NEW d \in Dummies
      PROVE  \E k \in 0 .. it - 1 : dummylist(k) = d
  <2>1. PICK b \in Blocks, x \in {"top", "bottom"} : d = <<b, x>>
    BY DEF Dummies
  <2>2. PICK j \in 1 .. n : bb_ordered[j] = b
    BY <1>1 DEF Listed
  <2> DEFINE k == 2 * (n - j) + (IF x = "top" THEN 0 ELSE 1)
  <2>3. /\ k \in 0 .. it - 1 /\ k \div 2 = n - j
        /\ k % 2 = 0 <=> x = "top"
    BY <1>1, <2>2
  <2>4. n - (k \div 2) = j
    BY <1>1, <2>2, <2>3
  <2> HIDE DEF k
  <2>5. dummylist(k) = d
    BY <2>1, <2>2, <2>3, <2>4 DEF dummylist
  <2> QED BY <2>3, <2>5
<1>5. ASSUME NEW k \in 0 .. it - 1
      PROVE  dummylist(k) \in Dummies
  <2>1. n - (k \div 2) \in 1 .. n
    BY <1>1
  <2>2. bb_ordered[n - (k \div 2)] \in Blocks
    BY <1>2, <2>1
  <2> QED BY <2>2 DEF dummylist, Dummies
<1>6. \A d \in Dummies : \A c \in Climbed(d) : <<d[1], c[1]>> \in control
  BY <1>4 DEF ClimbInv
<1>7. \A e \in control : \E d \in Dummies : \E c \in Climbed(d) : e = <<d[1], c[1]>>
  BY <1>5 DEF ClimbInv
<1> QED BY <1>3, <1>6, <1>7 DEF Complete, SearchInv

-----------------------------------------------------------------------------
(* Every dependence across iterations is found, on any graph: a barrier of  *)
(* the loop is one of the dummy function's bottom half.                     *)

Bottom(S) == {<<b, "bottom">> : b \in S \cap Blocks}
Tops(S) == {<<b, "top">> : b \in S \cap Blocks}

LEMMA DummyFacts ==
  /\ DOMAIN Dummy = Dummies
  /\ IsFiniteSet(Dummies) /\ IsFiniteSet(Blocks)
  /\ exit \notin Dummies /\ exit \notin Blocks
  /\ \A b \in Blocks : <<b, "top">> \in Dummies /\ <<b, "bottom">> \in Dummies
<1>1. IsFiniteSet({"top", "bottom"})
  <2>1. IsFiniteSet({"top"})
    BY FS_Singleton
  <2>2. IsFiniteSet({"top"} \cup {"bottom"})
    BY <2>1, FS_AddElement
  <2>3. {"top"} \cup {"bottom"} = {"top", "bottom"}
    OBVIOUS
  <2> QED BY <2>2, <2>3
<1>2. IsFiniteSet(Dummies)
  BY <1>1, LoopAssumption, FS_Product DEF Dummies
<1> QED BY <1>2, LoopAssumption DEF Dummy, Dummies

\* The edges of a dummy block, those of the block with their ends replaced.
LEMMA DummyEdges ==
  ASSUME NEW b \in Blocks, NEW x
  PROVE  /\ x \in Dummy[<<b, "bottom">>] <=>
               \E s \in succs[b] : x = IF s = exit THEN exit ELSE <<s, "bottom">>
         /\ x \in Dummy[<<b, "top">>] <=>
               \E s \in succs[b] : x = IF s = exit THEN exit ELSE TopTarget(b, s)
<1>1. ASSUME NEW d \in Dummies
      PROVE  x \in Dummy[d] <=>
                \E s \in succs[d[1]] :
                   x = IF s = exit THEN exit
                       ELSE IF d[2] = "top" THEN TopTarget(d[1], s) ELSE <<s, "bottom">>
  BY DEF Dummy
<1>2. /\ <<b, "top">> \in Dummies /\ <<b, "bottom">> \in Dummies
      /\ <<b, "top">>[1] = b /\ <<b, "bottom">>[1] = b
      /\ <<b, "top">>[2] = "top" /\ <<b, "bottom">>[2] # "top"
  BY DEF Dummies
<1> QED BY <1>1, <1>2

LEMMA TopTargets == ASSUME NEW b, NEW s
                    PROVE  TopTarget(b, s) = IF instnum[s] <= instnum[b] THEN <<s, "bottom">>
                                                                         ELSE <<s, "top">>
  BY DEF TopTarget, Earlier

\* The edges of a dummy block stay in a set as far as those of the block do.
LEMMA BottomClosed ==
  ASSUME succs \in AnyGraphs, NEW SD, exit \notin SD, NEW b \in Blocks,
         Dummy[<<b, "bottom">>] \subseteq SD
  PROVE  \A s \in succs[b] : s \in Blocks /\ s # exit /\ <<s, "bottom">> \in SD
<1> SUFFICES ASSUME NEW s \in succs[b]
             PROVE  s \in Blocks /\ s # exit /\ <<s, "bottom">> \in SD
  OBVIOUS
<1>1. (IF s = exit THEN exit ELSE <<s, "bottom">>) \in Dummy[<<b, "bottom">>]
  BY DummyEdges
<1> QED BY <1>1 DEF AnyGraphs

LEMMA BottomInside ==
  ASSUME NEW SD, NEW b \in Blocks, \A s \in succs[b] : s # exit /\ <<s, "bottom">> \in SD
  PROVE  Dummy[<<b, "bottom">>] \subseteq SD
<1> SUFFICES ASSUME NEW x \in Dummy[<<b, "bottom">>] PROVE x \in SD
  OBVIOUS
<1>1. PICK s \in succs[b] : x = IF s = exit THEN exit ELSE <<s, "bottom">>
  <2>1. x \in Dummy[<<b, "bottom">>] <=>
           \E s \in succs[b] : x = IF s = exit THEN exit ELSE <<s, "bottom">>
    BY DummyEdges
  <2> QED BY <2>1
<1> QED BY <1>1

LEMMA TopClosed ==
  ASSUME succs \in AnyGraphs, NEW SD, exit \notin SD, NEW b \in Blocks,
         Dummy[<<b, "top">>] \subseteq SD
  PROVE  \A s \in succs[b] : s \in Blocks /\ s # exit /\ TopTarget(b, s) \in SD
<1> SUFFICES ASSUME NEW s \in succs[b]
             PROVE  s \in Blocks /\ s # exit /\ TopTarget(b, s) \in SD
  OBVIOUS
<1>1. (IF s = exit THEN exit ELSE TopTarget(b, s)) \in Dummy[<<b, "top">>]
  BY DummyEdges
<1> QED BY <1>1 DEF AnyGraphs

LEMMA TopInside ==
  ASSUME NEW SD, NEW b \in Blocks, \A s \in succs[b] : s # exit /\ TopTarget(b, s) \in SD
  PROVE  Dummy[<<b, "top">>] \subseteq SD
<1> SUFFICES ASSUME NEW x \in Dummy[<<b, "top">>] PROVE x \in SD
  OBVIOUS
<1>1. PICK s \in succs[b] : x = IF s = exit THEN exit ELSE TopTarget(b, s)
  BY DummyEdges
<1> QED BY <1>1

\* Another block: it is found in the bottom half.
LEMMA OthersFound ==
  ASSUME Complete, NEW a \in Blocks, NEW b \in Blocks, a # b,
         NEW s \in succs[a], b \in PostDominators(succs, exit, s),
         NEW t \in succs[a], b \notin PostDominators(succs, exit, t)
  PROVE  <<a, b>> \in control
<1> DEFINE d == <<a, "bottom">>
           c == <<b, "bottom">>
<1>1. succs \in AnyGraphs /\ DOMAIN succs = Blocks
  BY DEF Complete, AnyGraphs
<1>2. PICK S : s \in S /\ Barrier(succs, exit, b, S)
  BY <1>1, BarrierThere, DummyFacts
<1>3. s # exit /\ s \in Blocks
  BY <1>1, <1>2 DEF Barrier, AnyGraphs
<1>4. Barrier(Dummy, exit, c, Bottom(S))
  <2>1. ASSUME NEW v \in S \cap Blocks, v # b
        PROVE  Dummy[<<v, "bottom">>] \subseteq Bottom(S)
    <3>1. succs[v] \subseteq S /\ exit \notin S
      BY <1>1, <1>2, <2>1 DEF Barrier
    <3>2. ASSUME NEW u \in succs[v] PROVE u # exit /\ <<u, "bottom">> \in Bottom(S)
      BY <1>1, <3>1 DEF Bottom, AnyGraphs
    <3> QED BY <3>2, BottomInside
  <2> QED BY <2>1, DummyFacts DEF Barrier, Bottom
<1>5. c \in PostDominators(Dummy, exit, <<s, "bottom">>)
  <2>1. <<s, "bottom">> \in Bottom(S)
    BY <1>2, <1>3 DEF Bottom
  <2>2. c \in DOMAIN Dummy /\ IsFiniteSet(DOMAIN Dummy)
    BY DummyFacts
  <2> HIDE DEF c
  <2> QED BY <1>4, <2>1, <2>2, BarrierMakes
<1>6. <<s, "bottom">> \in Dummy[d] \ {exit}
  BY <1>3, DummyEdges, DummyFacts
<1>7. c \notin PostDominators(Dummy, exit, d)
  <2> SUFFICES ASSUME c \in PostDominators(Dummy, exit, d) PROVE FALSE
    OBVIOUS
  <2>1. PICK SD : d \in SD /\ Barrier(Dummy, exit, c, SD)
    BY BarrierThere, DummyFacts
  <2> DEFINE T == {v \in Blocks : <<v, "bottom">> \in SD}
  <2>2. \A v \in T : v # b => \A u \in succs[v] : u \in T
    <3>1. \A v \in T : v # b => Dummy[<<v, "bottom">>] \subseteq SD
      BY <2>1, DummyFacts DEF Barrier
    <3> QED BY <1>1, <2>1, <3>1, BottomClosed DEF Barrier
  <2>3. a \in T
    BY <2>1
  <2>4. t \in T
    BY <2>2, <2>3
  <2>5. Barrier(succs, exit, b, T)
    BY <1>1, <2>2, DummyFacts DEF Barrier
  <2> HIDE DEF T
  <2>6. b \in PostDominators(succs, exit, t)
    BY <1>1, <2>4, <2>5, BarrierMakes, DummyFacts
  <2> QED BY <2>6
<1>8. c \in Climbed(d)
  BY <1>5, <1>6, <1>7 DEF Climbed, ClimbToExit
<1>9. d \in Dummies /\ d[1] = a /\ c[1] = b
  BY DummyFacts
<1> HIDE DEF c, d
<1> QED BY <1>8, <1>9 DEF Complete

\* The block itself: it is found in the bottom half by the climb from the top.
LEMMA ItselfFound ==
  ASSUME Complete, NEW a \in Blocks,
         NEW s \in succs[a], a \in PostDominators(succs, exit, s),
         NEW t \in succs[a], a \notin PostDominators(succs, exit, t)
  PROVE  <<a, a>> \in control
<1> DEFINE d == <<a, "top">>
           c == <<a, "bottom">>
<1>1. succs \in AnyGraphs /\ DOMAIN succs = Blocks /\ instnum \in [Blocks -> Int]
  BY DEF Complete, AnyGraphs
<1>2. PICK S : s \in S /\ Barrier(succs, exit, a, S)
  BY <1>1, BarrierThere, DummyFacts
<1>3. s # exit /\ s \in Blocks
  BY <1>1, <1>2 DEF Barrier, AnyGraphs
<1> DEFINE SD == Bottom(S) \cup Tops({v \in S \cap Blocks : instnum[a] < instnum[v]})
<1>4. Barrier(Dummy, exit, c, SD)
  <2>1. \A v \in S \cap Blocks : v # a => /\ succs[v] \subseteq S \cap Blocks
                                          /\ exit \notin succs[v]
    BY <1>1, <1>2, DummyFacts DEF Barrier, AnyGraphs
  <2>2. ASSUME NEW v \in S \cap Blocks, v # a
        PROVE  Dummy[<<v, "bottom">>] \subseteq Bottom(S)
    <3>1. \A u \in succs[v] : u # exit /\ <<u, "bottom">> \in Bottom(S)
      BY <2>1, <2>2 DEF Bottom
    <3> QED BY <3>1, BottomInside
  <2>3. ASSUME NEW v \in S \cap Blocks, instnum[a] < instnum[v]
        PROVE  Dummy[<<v, "top">>] \subseteq SD
    <3>1. v # a
      BY <1>1, <2>3
    <3>2. ASSUME NEW u \in succs[v] PROVE u # exit /\ TopTarget(v, u) \in SD
      <4>1. u \in S \cap Blocks /\ u # exit
        BY <2>1, <3>1
      <4>2. instnum[u] <= instnum[v] \/ instnum[a] < instnum[u]
        BY <1>1, <2>3, <4>1
      <4> QED BY <4>1, <4>2, TopTargets DEF Bottom, Tops
    <3> HIDE DEF SD
    <3> QED BY <3>2, TopInside
  <2>4. exit \notin SD
    BY DummyFacts DEF Bottom, Tops
  <2>5. ASSUME NEW x \in SD, x # c PROVE Dummy[x] \subseteq SD
    <3>1. CASE x \in Bottom(S)
      <4>1. PICK v \in S \cap Blocks : x = <<v, "bottom">>
        BY <3>1 DEF Bottom
      <4>2. v # a
        BY <2>5, <4>1
      <4> QED BY <2>2, <4>1, <4>2
    <3>2. CASE x \notin Bottom(S)
      <4>1. PICK v \in S \cap Blocks : x = <<v, "top">> /\ instnum[a] < instnum[v]
        BY <3>2 DEF Tops
      <4> QED BY <2>3, <4>1
    <3> QED BY <3>1, <3>2
  <2> QED BY <2>4, <2>5 DEF Barrier
<1>5. TopTarget(a, s) \in SD
  <2>1. instnum[s] <= instnum[a] \/ instnum[a] < instnum[s]
    BY <1>1, <1>3
  <2> QED BY <1>2, <1>3, <2>1, TopTargets DEF Bottom, Tops
<1> HIDE DEF SD
<1>6. c \in PostDominators(Dummy, exit, TopTarget(a, s))
  BY <1>4, <1>5, DummyFacts, BarrierMakes
<1>7. TopTarget(a, s) \in Dummy[d] \ {exit}
  BY <1>3, <1>4, <1>5, DummyEdges DEF Barrier
<1>8. c \notin PostDominators(Dummy, exit, d)
  <2> SUFFICES ASSUME c \in PostDominators(Dummy, exit, d) PROVE FALSE
    OBVIOUS
  <2>1. PICK U : d \in U /\ Barrier(Dummy, exit, c, U)
    BY BarrierThere, DummyFacts
  <2> DEFINE T == {v \in Blocks : <<v, "bottom">> \in U \/ <<v, "top">> \in U}
  <2>2. ASSUME NEW v \in Blocks, NEW x \in {"top", "bottom"}, <<v, x>> \in U, <<v, x>> # c,
               NEW u \in succs[v]
        PROVE  u \in T
    <3>1. Dummy[<<v, x>>] \subseteq U /\ exit \notin U
      BY <2>1, <2>2, DummyFacts DEF Barrier
    <3>2. CASE x = "bottom"
      BY <1>1, <3>1, <3>2, BottomClosed
    <3>3. CASE x = "top"
      BY <1>1, <3>1, <3>3, TopClosed, TopTargets
    <3> QED BY <3>2, <3>3
  <2>3. t \in T
    BY <2>1, <2>2
  <2>4. \A v \in T : v # a => \A u \in succs[v] : u \in T
    BY <2>2
  <2>5. Barrier(succs, exit, a, T)
    BY <1>1, <2>4, DummyFacts DEF Barrier
  <2> HIDE DEF T
  <2>6. a \in PostDominators(succs, exit, t)
    BY <1>1, <2>3, <2>5, BarrierMakes, DummyFacts
  <2> QED BY <2>6
<1>9. c \in Climbed(d)
  BY <1>6, <1>7, <1>8 DEF Climbed, ClimbToExit
<1>10. d \in Dummies /\ d[1] = a /\ c[1] = a
  BY DummyFacts
<1> HIDE DEF c, d
<1> QED BY <1>9, <1>10 DEF Complete

LEMMA AllFound == Complete => Decisions(succs, exit) \subseteq control
<1> SUFFICES ASSUME Complete, NEW p \in Decisions(succs, exit) PROVE p \in control
  OBVIOUS
<1>1. succs \in AnyGraphs /\ DOMAIN succs = Blocks
  BY DEF Complete, AnyGraphs
<1>2. PICK a \in Blocks : \E b : /\ p = <<a, b>>
                                 /\ \E s \in succs[a] : b \in PostDominators(succs, exit, s)
                                 /\ \E t \in succs[a] : b \notin PostDominators(succs, exit, t)
  BY <1>1 DEF Decisions
<1> PICK b : /\ p = <<a, b>>
             /\ \E s \in succs[a] : b \in PostDominators(succs, exit, s)
             /\ \E t \in succs[a] : b \notin PostDominators(succs, exit, t)
  BY <1>2
<1>3. b \in Blocks
  BY <1>1 DEF PostDominators
<1> QED BY <1>3, OthersFound, ItselfFound

\* No control dependence is missed, across iterations included
\* (buildPDG.cpp:357-387), for any control flow graph at all and any order of
\* the search.
THEOREM NoDependenceIsMissed ==
  ASSUME NEW CONSTANT loops \in SUBSET AnyGraphs
  PROVE  BuildFrom(loops) /\ [][BuildNext]_buildVars => []NoneMissed
<1>1. SearchInv /\ ClimbInv => NoneMissed
  BY BuiltIsComplete, AllFound DEF NoneMissed
<1> QED BY <1>1, SearchStart, BuildKeeps, PTL

-----------------------------------------------------------------------------
(* The search on a reducible loop: the edges it takes for those that go     *)
(* back are those that end an iteration.                                    *)

GoodGraphs == {G \in AnyGraphs : IsLoop(G, header, exit) /\ IsReducible(G, header, exit)}

Iter == Iteration(succs, header, exit)
Dom(d, b) == Dominates(succs, header, d, b)

\* The calls are a path of one iteration from the header, which no dominator
\* of a block on it is missing from.
PathInv == /\ succs \in GoodGraphs
           /\ vis # {} => header \in vis
           /\ \A k \in 1 .. Len(calls) : \A j \in 1 .. k : calls[k] \in Reached(Iter, calls[j])
           /\ \A k \in 1 .. Len(calls) : \A d \in Blocks :
                 Dom(d, calls[k]) => \E j \in 1 .. k : calls[j] = d
           /\ \A b \in vis, d \in Blocks : Dom(d, b) => b \in Reached(Iter, d)

\* A block is left after those it leads to, except those that dominate it.
OrderInv == /\ \A b \in Listed(bb_ordered) : succs[b] \cap Blocks \subseteq vis
            /\ \A p \in 1 .. Len(bb_ordered) : \A s \in succs[bb_ordered[p]] \cap Blocks :
                  Dom(s, bb_ordered[p]) <=> ~ \E q \in 1 .. p - 1 : bb_ordered[q] = s

DfsInv == SearchInv /\ PathInv /\ OrderInv

LEMMA IterFacts == ASSUME succs \in AnyGraphs
                   PROVE  /\ DOMAIN Iter = Blocks /\ DOMAIN succs = Blocks
                          /\ IsFiniteSet(Blocks) /\ exit \notin Blocks
  BY LoopAssumption DEF Iter, Iteration, AnyGraphs

\* The edges of an iteration: those of the loop that do not go back, and to
\* the exit instead of those that do.
LEMMA IterEdges ==
  ASSUME succs \in AnyGraphs, NEW b \in Blocks, NEW x
  PROVE  x \in Iter[b] <=> \E s \in succs[b] : x = IF s # exit /\ Dom(s, b) THEN exit ELSE s
<1>1. b \in DOMAIN succs
  BY DEF AnyGraphs
<1> QED BY <1>1 DEF Iter, Iteration, Dom

LEMMA ForwardEdge ==
  ASSUME succs \in AnyGraphs, NEW b \in Blocks, NEW s \in succs[b], s # exit, ~Dom(s, b)
  PROVE  s \in Iter[b] /\ s \in Blocks
  BY IterEdges DEF AnyGraphs

LEMMA IterationEnds ==
  ASSUME succs \in AnyGraphs, NEW b \in Blocks, NEW s \in succs[b], s = exit \/ Dom(s, b)
  PROVE  exit \in Iter[b]
  BY IterEdges DEF AnyGraphs

LEMMA ReachedOn ==
  ASSUME succs \in AnyGraphs, NEW a, NEW b \in Blocks, b \in Reached(Iter, a),
         NEW s \in Iter[b]
  PROVE  s \in Reached(Iter, a)
  BY IterFacts, ReachedFacts DEF IsClosed

LEMMA OwnDominator == \A b : Dom(b, b)
  BY DEF Dom, Dominates

\* Nothing but itself dominates the header.
LEMMA HeaderDominated == ASSUME succs \in AnyGraphs, NEW d \in Blocks, Dom(d, header)
                         PROVE  d = header
<1> DEFINE H == [succs EXCEPT ![d] = {}]
<1>1. DOMAIN H = Blocks
  BY DEF AnyGraphs
<1> HIDE DEF H
<1>2. header \in Reached(H, header)
  BY <1>1, LoopAssumption, ReachedFacts
<1> QED BY <1>2 DEF Dom, Dominates, H

\* What dominates a block and is not the block dominates those that lead to it.
LEMMA DominatedBefore ==
  ASSUME succs \in AnyGraphs, NEW d \in Blocks, NEW t \in Blocks, NEW b \in succs[t],
         Dom(d, b), d # b
  PROVE  Dom(d, t)
<1> DEFINE H == [succs EXCEPT ![d] = {}]
<1>1. DOMAIN H = Blocks /\ \A c \in Blocks : H[c] = IF c = d THEN {} ELSE succs[c]
  BY DEF AnyGraphs
<1> HIDE DEF H
<1>2. IsClosed(H, Reached(H, header))
  BY <1>1, LoopAssumption, ReachedFacts
<1>3. t # d /\ t \in Reached(H, header) => b \in Reached(H, header)
  BY <1>1, <1>2 DEF IsClosed
<1> QED BY <1>3 DEF Dom, Dominates, H

\* The search comes to every block from the header.
LEMMA FromTheHeader ==
  ASSUME succs \in GoodGraphs, NEW S, header \in S,
         \A b \in S \cap Blocks : succs[b] \cap Blocks \subseteq S
  PROVE  Blocks \subseteq S
<1>1. DOMAIN succs = Blocks /\ IsFiniteSet(Blocks) /\ succs \in AnyGraphs
  BY LoopAssumption DEF GoodGraphs, AnyGraphs
<1>2. Reached(succs, header) = Blocks \cup {exit}
  BY <1>1 DEF GoodGraphs, IsLoop
<1>3. IsClosed(succs, S \cup {exit})
  BY <1>1, LoopAssumption DEF IsClosed, AnyGraphs
<1>4. Reached(succs, header) \subseteq S \cup {exit}
  BY <1>1, <1>3, ReachedFacts
<1> QED BY <1>2, <1>4, LoopAssumption

\* The exit can be reached from every block.
LEMMA ExitReached ==
  ASSUME succs \in GoodGraphs, NEW b \in Blocks
  PROVE  exit \in Reached(succs, b)
<1>1. DOMAIN succs = Blocks /\ IsFiniteSet(Blocks)
  BY LoopAssumption DEF GoodGraphs, AnyGraphs
<1>2. PICK s \in succs[b] : header \in Reached(succs, s)
  BY <1>1 DEF GoodGraphs, IsLoop
<1>3. exit \in Reached(succs, header)
  BY <1>1 DEF GoodGraphs, IsLoop
<1> DEFINE S == Reached(succs, b)
<1>4. IsClosed(succs, S) /\ s \in S
  BY <1>1, <1>2, ReachedFacts DEF IsClosed
<1>5. header \in S
  BY <1>1, <1>2, <1>4, ReachedFacts
<1> QED BY <1>1, <1>3, <1>4, <1>5, ReachedFacts

LEMMA DfsStart == ASSUME NEW loops \in SUBSET GoodGraphs, BuildFrom(loops)
                  PROVE  DfsInv
<1>1. loops \in SUBSET AnyGraphs
  BY DEF GoodGraphs
<1>2. /\ calls = <<>> /\ bb_ordered = <<>> /\ vis = {} /\ succs \in GoodGraphs
  BY DEF BuildFrom
<1>3. Len(<<>>) = 0 /\ Listed(<<>>) = {} /\ 1 .. 0 = {}
  BY EmptyFacts
<1>4. PathInv /\ OrderInv
  BY <1>2, <1>3 DEF PathInv, OrderInv
<1> QED BY <1>1, <1>4, SearchStart DEF DfsInv

LEMMA DfsEnter == ASSUME DfsInv, NEW b \in Blocks, Enter(b)
                  PROVE  PathInv' /\ OrderInv'
<1>1. /\ b \notin vis /\ vis' = vis \cup {b} /\ calls' = Append(calls, b)
      /\ UNCHANGED <<succs, bb_ordered>>
      /\ IF calls = <<>> THEN vis = {} => b = header ELSE b \in succs[calls[Len(calls)]]
  BY DEF Enter
<1>2. succs \in GoodGraphs /\ succs \in AnyGraphs
  BY DEF DfsInv, PathInv, GoodGraphs
<1>3. Iter' = Iter /\ \A d, c : Dom(d, c)' = Dom(d, c)
  BY <1>1 DEF Iter, Dom
<1> DEFINE n == Len(calls)
<1>4. n \in Nat /\ calls \in Seq(Blocks) /\ \A k \in 1 .. n : calls[k] \in Blocks /\ calls[k] \in vis
  BY DEF DfsInv, SearchInv, Listed
<1>5. /\ Len(calls') = n + 1 /\ calls'[n + 1] = b
      /\ \A k \in 1 .. n : calls'[k] = calls[k]
  <2>1. b \notin Listed(calls)
    BY <1>1 DEF DfsInv, SearchInv
  <2> QED BY <1>1, <2>1, PushFacts DEF DfsInv, SearchInv
<1>6. 1 .. n + 1 = (1 .. n) \cup {n + 1} /\ n + 1 \notin 1 .. n
  BY <1>4
<1>7. ASSUME NEW d \in Blocks, Dom(d, b)
      PROVE  d = b \/ \E j \in 1 .. n : calls[j] = d
  <2>1. CASE calls = <<>>
    <3>1. vis = Listed(bb_ordered)
      BY <2>1, EmptyFacts DEF DfsInv, SearchInv
    <3>2. vis = {}
      <4> SUFFICES ASSUME vis # {} PROVE FALSE
        OBVIOUS
      <4>1. Blocks \subseteq vis
        BY <1>2, <3>1, FromTheHeader DEF DfsInv, PathInv, OrderInv
      <4> QED BY <1>1, <4>1
    <3> QED BY <1>1, <1>2, <1>7, <2>1, <3>2, HeaderDominated
  <2>2. CASE calls # <<>> /\ d # b
    <3>1. n \in 1 .. n /\ b \in succs[calls[n]] /\ calls[n] \in Blocks
      BY <1>1, <1>4, <2>2, EmptySeq
    <3>2. Dom(d, calls[n])
      BY <1>2, <1>7, <2>2, <3>1, DominatedBefore
    <3> QED BY <3>1, <3>2 DEF DfsInv, PathInv
  <2> QED BY <2>1, <2>2
<1>8. ASSUME NEW j \in 1 .. n PROVE b \in Reached(Iter, calls[j])
  <2>1. n \in 1 .. n /\ calls # <<>> /\ j \in 1 .. n
    BY <1>4, EmptySeq
  <2>2. b \in succs[calls[n]] /\ calls[n] \in Blocks /\ b # exit
    BY <1>1, <1>4, <2>1, LoopAssumption
  <2>3. ~Dom(b, calls[n])
    BY <1>1, <1>4, <2>1 DEF DfsInv, PathInv
  <2>4. b \in Iter[calls[n]]
    BY <1>2, <2>2, <2>3, ForwardEdge
  <2>5. calls[n] \in Reached(Iter, calls[j])
    BY <2>1 DEF DfsInv, PathInv
  <2> QED BY <1>2, <2>2, <2>4, <2>5, ReachedOn
<1>9. b \in Reached(Iter, b)
  BY <1>2, IterFacts, ReachedFacts
<1>10. header \in vis'
  <2>1. CASE vis = {}
    <3>1. calls = <<>>
      BY <2>1, <1>4, EmptySeq
    <3> QED BY <1>1, <2>1, <3>1
  <2>2. CASE vis # {}
    BY <1>1, <2>2 DEF DfsInv, PathInv
  <2> QED BY <2>1, <2>2
<1> HIDE DEF n
<1>11. PathInv'
  <2>1. \A k \in 1 .. n + 1 : \A j \in 1 .. k : calls'[k] \in Reached(Iter, calls'[j])
    <3> SUFFICES ASSUME NEW k \in 1 .. n + 1, NEW j \in 1 .. k
                 PROVE  calls'[k] \in Reached(Iter, calls'[j])
      OBVIOUS
    <3>1. CASE k \in 1 .. n
      <4>1. j \in 1 .. n
        BY <1>4, <3>1
      <4> QED BY <1>5, <3>1, <4>1 DEF DfsInv, PathInv, n
    <3>2. CASE k = n + 1
      <4>1. j \in 1 .. n \/ j = n + 1
        BY <1>4, <3>2
      <4> QED BY <1>5, <1>8, <1>9, <3>2, <4>1
    <3> QED BY <1>6, <3>1, <3>2
  <2>2. \A k \in 1 .. n + 1 : \A d \in Blocks :
                 Dom(d, calls'[k]) => \E j \in 1 .. k : calls'[j] = d
    <3> SUFFICES ASSUME NEW k \in 1 .. n + 1, NEW d \in Blocks, Dom(d, calls'[k])
                 PROVE  \E j \in 1 .. k : calls'[j] = d
      OBVIOUS
    <3>1. CASE k \in 1 .. n
      <4>1. PICK j \in 1 .. k : calls[j] = d
        BY <1>5, <3>1 DEF DfsInv, PathInv, n
      <4>2. j \in 1 .. n
        BY <1>4, <3>1
      <4> QED BY <1>5, <4>1, <4>2
    <3>2. CASE k = n + 1
      <4>1. k \in 1 .. k /\ \A j \in 1 .. n : j \in 1 .. k
        BY <1>4, <3>2
      <4> QED BY <1>5, <1>7, <3>2, <4>1
    <3> QED BY <1>6, <3>1, <3>2
  <2>3. \A c \in vis', d \in Blocks : Dom(d, c) => c \in Reached(Iter, d)
    <3> SUFFICES ASSUME NEW c \in vis', NEW d \in Blocks, Dom(d, c)
                 PROVE  c \in Reached(Iter, d)
      OBVIOUS
    <3>1. CASE c = b
      BY <1>7, <1>8, <1>9, <3>1
    <3>2. CASE c # b
      BY <1>1, <3>2 DEF DfsInv, PathInv
    <3> QED BY <3>1, <3>2
  <2> QED BY <1>1, <1>2, <1>3, <1>5, <1>10, <2>1, <2>2, <2>3 DEF PathInv
<1>12. OrderInv'
  BY <1>1, <1>3 DEF DfsInv, OrderInv
<1> QED BY <1>11, <1>12

LEMMA DfsLeave == ASSUME DfsInv, Leave
                  PROVE  PathInv' /\ OrderInv'
<1> DEFINE n == Len(calls)
           m == Len(bb_ordered)
           b == calls[n]
<1>1. /\ calls # <<>> /\ calls' = SubSeq(calls, 1, n - 1)
      /\ succs[b] \cap Blocks \subseteq vis
      /\ bb_ordered' = Append(bb_ordered, b)
      /\ UNCHANGED <<succs, vis>>
  BY DEF Leave
<1>2. succs \in GoodGraphs /\ succs \in AnyGraphs
  BY DEF DfsInv, PathInv, GoodGraphs
<1>3. Iter' = Iter /\ \A d, c : Dom(d, c)' = Dom(d, c)
  BY <1>1 DEF Iter, Dom
<1>4. /\ n \in Nat /\ n \in 1 .. n /\ b \in Blocks /\ b \in Listed(calls)
      /\ Len(calls') = n - 1
      /\ \A k \in 1 .. n - 1 : calls'[k] = calls[k]
  BY <1>1, PopFacts, EmptySeq DEF DfsInv, SearchInv
<1>5. /\ m \in Nat /\ Len(bb_ordered') = m + 1 /\ bb_ordered'[m + 1] = b
      /\ \A k \in 1 .. m : bb_ordered'[k] = bb_ordered[k]
      /\ Listed(bb_ordered') = Listed(bb_ordered) \cup {b}
  <2>1. b \notin Listed(bb_ordered)
    BY <1>4 DEF DfsInv, SearchInv
  <2> HIDE DEF b
  <2> QED BY <1>1, <1>4, <2>1, PushFacts DEF DfsInv, SearchInv
<1>6. /\ \A k \in 1 .. n - 1 : k \in 1 .. n
      /\ \A k \in 1 .. n - 1 : \A j \in 1 .. k : j \in 1 .. n - 1
  BY <1>4
<1>7. PathInv'
  <2> HIDE DEF b, n
  <2>1. \A k \in 1 .. n - 1 : \A j \in 1 .. k : calls'[k] \in Reached(Iter, calls'[j])
    BY <1>4, <1>6 DEF DfsInv, PathInv, n
  <2>2. \A k \in 1 .. n - 1 : \A d \in Blocks :
                 Dom(d, calls'[k]) => \E j \in 1 .. k : calls'[j] = d
    <3> SUFFICES ASSUME NEW k \in 1 .. n - 1, NEW d \in Blocks, Dom(d, calls'[k])
                 PROVE  \E j \in 1 .. k : calls'[j] = d
      OBVIOUS
    <3>1. PICK j \in 1 .. k : calls[j] = d
      BY <1>4, <1>6 DEF DfsInv, PathInv, n
    <3> QED BY <1>4, <1>6, <3>1
  <2> QED BY <1>1, <1>2, <1>3, <1>4, <2>1, <2>2 DEF DfsInv, PathInv
\* A block on the stack that does not dominate b would close a cycle of an
\* iteration.
<1>8. ASSUME NEW s \in succs[b] \cap Blocks
      PROVE  Dom(s, b) <=> s \notin Listed(bb_ordered)
  <2>1. ASSUME Dom(s, b) PROVE s \notin Listed(bb_ordered)
    <3>1. \E j \in 1 .. n : calls[j] = s
      BY <1>4, <2>1 DEF DfsInv, PathInv
    <3>2. s \in Listed(calls)
      BY <3>1 DEF Listed
    <3> QED BY <3>2 DEF DfsInv, SearchInv
  <2>2. ASSUME ~Dom(s, b), s \notin Listed(bb_ordered) PROVE FALSE
    <3>1. s \in Listed(calls)
      BY <1>1, <2>2 DEF DfsInv, SearchInv
    <3>2. PICK j \in 1 .. n : calls[j] = s
      BY <3>1 DEF Listed
    <3>3. b \in Reached(Iter, s)
      BY <1>4, <3>2 DEF DfsInv, PathInv
    <3>4. s \in Iter[b]
      BY <1>2, <1>4, <2>2, ForwardEdge, LoopAssumption
    <3>5. \A c \in Blocks : \A t \in Iter[c] : c \notin Reached(Iter, t)
      <4>1. DOMAIN succs = Blocks
        BY <1>2 DEF AnyGraphs
      <4> QED BY <1>2, <4>1 DEF GoodGraphs, IsReducible, Iter
    <3> QED BY <1>4, <3>3, <3>4, <3>5
  <2> QED BY <2>1, <2>2
<1> HIDE DEF b, m
<1>9. OrderInv'
  <2>1. \A c \in Listed(bb_ordered') : succs'[c] \cap Blocks \subseteq vis'
    BY <1>1, <1>5 DEF DfsInv, OrderInv
  <2>2. ASSUME NEW p \in 1 .. m + 1, NEW s \in succs[bb_ordered'[p]] \cap Blocks
        PROVE  Dom(s, bb_ordered'[p]) <=> ~ \E q \in 1 .. p - 1 : bb_ordered'[q] = s
    <3>1. CASE p \in 1 .. m
      <4>1. \A q \in 1 .. p - 1 : q \in 1 .. m
        BY <1>5, <3>1
      <4>2. bb_ordered'[p] = bb_ordered[p]
        BY <1>5, <3>1
      <4>3. Dom(s, bb_ordered[p]) <=> ~ \E q \in 1 .. p - 1 : bb_ordered[q] = s
        BY <3>1, <4>2 DEF DfsInv, OrderInv, m
      <4> QED BY <1>5, <4>1, <4>2, <4>3
    <3>2. CASE p = m + 1
      <4>1. (1 .. p - 1) = 1 .. m /\ bb_ordered'[p] = b
        BY <1>5, <3>2
      <4>2. s \in Listed(bb_ordered) <=> \E q \in 1 .. m : bb_ordered'[q] = s
        BY <1>5 DEF Listed, m
      <4> QED BY <1>8, <4>1, <4>2
    <3>3. p \in 1 .. m \/ p = m + 1
      BY <1>5
    <3> QED BY <3>1, <3>2, <3>3
  <2> QED BY <1>1, <1>3, <1>5, <2>1, <2>2 DEF OrderInv
<1> QED BY <1>7, <1>9

LEMMA DfsKeeps == DfsInv /\ ClimbInv /\ [BuildNext]_buildVars => DfsInv' /\ ClimbInv'
<1> SUFFICES ASSUME DfsInv, ClimbInv, [BuildNext]_buildVars
             PROVE  DfsInv' /\ ClimbInv'
  OBVIOUS
<1>1. SearchInv' /\ ClimbInv'
  BY BuildKeeps DEF DfsInv
<1>2. CASE UNCHANGED <<succs, calls, vis, bb_ordered>>
  <2>1. Iter' = Iter /\ \A d, c : Dom(d, c)' = Dom(d, c)
    BY <1>2 DEF Iter, Dom
  <2> QED BY <1>1, <1>2, <2>1 DEF DfsInv, PathInv, OrderInv
<1>3. Climb => UNCHANGED <<succs, calls, vis, bb_ordered>>
  BY DEF Climb
<1>4. UNCHANGED buildVars => UNCHANGED <<succs, calls, vis, bb_ordered>>
  BY DEF buildVars
<1> QED BY <1>1, <1>2, <1>3, <1>4, DfsEnter, DfsLeave DEF BuildNext, DfsInv

-----------------------------------------------------------------------------
(* What the order is good for: edges of an iteration lead to larger numbers *)
(* only, those that go back to none.                                        *)

Ordered == /\ Complete
           /\ succs \in GoodGraphs
           /\ \E n \in Nat : \A b \in Blocks : instnum[b] <= n
           /\ \A b \in Blocks : \A s \in succs[b] \cap Blocks :
                 Dom(s, b) <=> instnum[s] <= instnum[b]
           /\ \A b, d \in Blocks : Dom(d, b) => b \in Reached(Iter, d)

LEMMA BuiltIsOrdered == DfsInv /\ ClimbInv /\ Built => Ordered
<1> SUFFICES ASSUME DfsInv, ClimbInv, Built PROVE Ordered
  OBVIOUS
<1> DEFINE n == Len(bb_ordered)
           At(b) == CHOOSE k \in DOMAIN bb_ordered : bb_ordered[k] = b
<1>1. Complete /\ succs \in GoodGraphs
  BY BuiltIsComplete DEF DfsInv, PathInv
<1>2. /\ Listed(bb_ordered) = Blocks /\ n \in Nat /\ bb_ordered \in [1 .. n -> Blocks]
      /\ Distinct(bb_ordered) /\ DOMAIN bb_ordered = 1 .. n
  BY AllOrdered DEF DfsInv, SearchInv
<1>3. \A b \in Blocks : At(b) \in 1 .. n /\ bb_ordered[At(b)] = b
  <2> SUFFICES ASSUME NEW b \in Blocks PROVE At(b) \in 1 .. n /\ bb_ordered[At(b)] = b
    OBVIOUS
  <2>1. \E k \in DOMAIN bb_ordered : bb_ordered[k] = b
    BY <1>2 DEF Listed
  <2> QED BY <1>2, <2>1
<1>4. \A b \in Blocks : instnum[b] = n - At(b)
  BY DEF instnum
<1> HIDE DEF At, n
<1>5. \E k \in Nat : \A b \in Blocks : instnum[b] <= k
  <2>1. \A b \in Blocks : instnum[b] <= n
    BY <1>2, <1>3, <1>4
  <2>2. n \in Nat
    BY <1>2
  <2> QED BY <2>1, <2>2
<1>6. ASSUME NEW b \in Blocks, NEW s \in succs[b] \cap Blocks
      PROVE  Dom(s, b) <=> instnum[s] <= instnum[b]
  <2>1. Dom(s, b) <=> ~ \E q \in 1 .. At(b) - 1 : bb_ordered[q] = s
    BY <1>3 DEF DfsInv, OrderInv, n
  <2>2. \A q \in 1 .. At(b) - 1 : bb_ordered[q] = s => q = At(s)
    BY <1>2, <1>3 DEF Distinct, n
  <2>3. (\E q \in 1 .. At(b) - 1 : bb_ordered[q] = s) <=> At(s) < At(b)
    BY <1>2, <1>3, <2>2
  <2> QED BY <1>2, <1>3, <1>4, <2>1, <2>3
<1>7. \A b, d \in Blocks : Dom(d, b) => b \in Reached(Iter, d)
  <2>1. vis = Blocks
    <3>1. it > 0
      BY NotBuilt DEF DfsInv, SearchInv
    <3> QED BY <3>1 DEF DfsInv, SearchInv
  <2> QED BY <2>1 DEF DfsInv, PathInv
<1> QED BY <1>1, <1>5, <1>6, <1>7 DEF Ordered

LEMMA OrderFacts == ASSUME Ordered
                    PROVE  /\ succs \in AnyGraphs /\ DOMAIN succs = Blocks /\ DOMAIN Iter = Blocks
                           /\ IsFiniteSet(Blocks) /\ exit \notin Blocks
                           /\ instnum \in [Blocks -> Int]
  BY IterFacts DEF Ordered, Complete

\* In an iteration the numbers grow.
LEMMA IterLater ==
  ASSUME Ordered, NEW b \in Blocks, NEW s \in Iter[b], s # exit
  PROVE  s \in succs[b] /\ s \in Blocks /\ instnum[b] < instnum[s]
<1>1. s \in succs[b] /\ ~Dom(s, b)
  BY OrderFacts, IterEdges
<1>2. s \in Blocks
  BY <1>1, OrderFacts DEF AnyGraphs
<1>3. ~(instnum[s] <= instnum[b])
  BY <1>1, <1>2 DEF Ordered
<1> QED BY <1>1, <1>2, <1>3, OrderFacts

\* Every edge of the loop either stays in the iteration or ends it.
LEMMA IterKinds ==
  ASSUME Ordered, NEW b \in Blocks, NEW s \in succs[b]
  PROVE  \/ s # exit /\ s \in Blocks /\ s \in Iter[b] /\ instnum[b] < instnum[s]
         \/ (s = exit \/ instnum[s] <= instnum[b]) /\ exit \in Iter[b]
<1>1. s = exit \/ s \in Blocks
  BY OrderFacts DEF AnyGraphs
<1>2. CASE s = exit \/ Dom(s, b)
  <2>1. exit \in Iter[b]
    BY <1>2, OrderFacts, IterationEnds
  <2> QED BY <1>1, <1>2, <2>1 DEF Ordered
<1>3. CASE s # exit /\ ~Dom(s, b)
  <2>1. s \in Iter[b] /\ s \in Blocks
    BY <1>3, OrderFacts, ForwardEdge
  <2> QED BY <1>3, <2>1, IterLater
<1> QED BY <1>2, <1>3

\* No block lies on an iteration twice.
LEMMA NeverTwice == ASSUME Ordered, NEW b \in Blocks, NEW s \in Iter[b]
                    PROVE  b \notin Reached(Iter, s)
  BY OrderFacts DEF Ordered, GoodGraphs, IsReducible, Iter

\* Every iteration ends: the last block on it leads to the exit.
LEMMA IterEnds == ASSUME Ordered, NEW b \in Blocks PROVE exit \in Reached(Iter, b)
<1> DEFINE R == Reached(Iter, b)
<1>1. b \in R /\ IsClosed(Iter, R)
  BY OrderFacts, ReachedFacts
<1>2. PICK k \in Nat : \A c \in Blocks : instnum[c] <= k
  BY DEF Ordered
<1> DEFINE N == {k - instnum[c] : c \in R \cap Blocks}
<1> HIDE DEF R
<1>3. N \subseteq Nat /\ N # {}
  BY <1>1, <1>2, OrderFacts
<1>4. PICK m \in N : \A x \in N : m <= x
  BY <1>3, SmallestMember
<1>5. PICK c \in R \cap Blocks : m = k - instnum[c]
  OBVIOUS
<1>6. PICK s : s \in succs[c]
  BY OrderFacts DEF Ordered, GoodGraphs, IsLoop
<1>7. CASE s \in Blocks /\ s \in Iter[c] /\ instnum[c] < instnum[s]
  <2>1. s \in R
    BY <1>1, <1>5, <1>7, OrderFacts DEF IsClosed
  <2>2. m <= k - instnum[s]
    BY <1>4, <1>7, <2>1
  <2> QED BY <1>5, <1>7, <2>2, OrderFacts
<1>8. CASE exit \in Iter[c]
  BY <1>1, <1>5, <1>8, OrderFacts DEF IsClosed, R
<1> QED BY <1>6, <1>7, <1>8, IterKinds

\* What no way through the iteration avoids lies on it, and not before.
LEMMA Unavoidable ==
  ASSUME Ordered, NEW v \in Blocks, NEW b \in PostDominators(Iter, exit, v)
  PROVE  b \in Blocks /\ b \in Reached(Iter, v) /\ instnum[v] <= instnum[b]
<1>1. b \in Blocks
  BY OrderFacts DEF PostDominators
<1>2. PICK S : v \in S /\ Barrier(Iter, exit, b, S)
  BY OrderFacts, BarrierThere
<1>3. v \in Reached(Iter, v) /\ IsClosed(Iter, Reached(Iter, v))
  BY OrderFacts, ReachedFacts
<1>4. b \in Reached(Iter, v)
  <2> SUFFICES ASSUME b \notin Reached(Iter, v) PROVE FALSE
    OBVIOUS
  <2>1. IsClosed(Iter, S \cap Reached(Iter, v))
    BY <1>2, <1>3 DEF IsClosed, Barrier
  <2>2. Reached(Iter, v) \subseteq S
    BY <1>2, <1>3, <2>1, OrderFacts, ReachedFacts
  <2> QED BY <1>2, <2>2, IterEnds DEF Barrier
<1> DEFINE Y == {u \in Blocks : instnum[v] <= instnum[u]} \cup {exit}
<1>5. IsClosed(Iter, Y)
  <2> SUFFICES ASSUME NEW u \in Y \cap Blocks, NEW w \in Iter[u], w # exit PROVE w \in Y
    BY OrderFacts DEF IsClosed
  <2>1. w \in Blocks /\ instnum[u] < instnum[w]
    BY IterLater
  <2> QED BY <2>1, OrderFacts
<1>6. v \in Y
  BY OrderFacts
<1> HIDE DEF Y
<1>7. b \in Y
  BY <1>4, <1>5, <1>6, OrderFacts, ReachedFacts
<1> QED BY <1>1, <1>4, <1>7, OrderFacts DEF Y

-----------------------------------------------------------------------------
(* The dependences within an iteration are found in the top half.           *)

\* Nothing keeps control in the bottom half for good.
LEMMA BottomLeaves ==
  ASSUME Ordered, NEW c, NEW SD, Barrier(Dummy, exit, c, SD),
         \A v \in Blocks : c # <<v, "bottom">>
  PROVE  \A v \in Blocks : <<v, "bottom">> \notin SD
<1> SUFFICES ASSUME NEW v \in Blocks, <<v, "bottom">> \in SD PROVE FALSE
  OBVIOUS
<1> DEFINE B == {u \in Blocks : <<u, "bottom">> \in SD}
<1>1. ASSUME NEW u \in B, NEW w \in succs[u] PROVE w \in B
  <2>1. Dummy[<<u, "bottom">>] \subseteq SD /\ exit \notin SD
    BY DummyFacts DEF Barrier
  <2> QED BY <2>1, OrderFacts, BottomClosed
<1>2. IsClosed(succs, B)
  BY <1>1, OrderFacts DEF IsClosed
<1>3. Reached(succs, v) \subseteq B
  BY <1>2, OrderFacts, ReachedFacts
<1>4. exit \in Reached(succs, v)
  BY ExitReached DEF Ordered
<1> QED BY <1>3, <1>4, OrderFacts

LEMMA IterationFound ==
  ASSUME Ordered, NEW a \in Blocks,
         NEW s \in Iter[a], NEW b \in PostDominators(Iter, exit, s),
         NEW t \in Iter[a], b \notin PostDominators(Iter, exit, t)
  PROVE  <<a, b>> \in control
<1> DEFINE d == <<a, "top">>
           c == <<b, "top">>
<1>1. s # exit
  BY OrderFacts, AtTheExit
<1>2. s \in succs[a] /\ s \in Blocks /\ instnum[a] < instnum[s]
  BY <1>1, IterLater
<1>3. b \in Blocks /\ b \in Reached(Iter, s)
  BY <1>2, Unavoidable
<1>4. a # b
  BY <1>3, NeverTwice
<1>5. PICK S : s \in S /\ Barrier(Iter, exit, b, S)
  BY OrderFacts, BarrierThere
<1>6. Barrier(Dummy, exit, c, Tops(S))
  <2>1. ASSUME NEW v \in S \cap Blocks, v # b
        PROVE  Dummy[<<v, "top">>] \subseteq Tops(S)
    <3>1. Iter[v] \subseteq S /\ exit \notin Iter[v]
      BY <1>5, <2>1, OrderFacts DEF Barrier
    <3>2. ASSUME NEW u \in succs[v] PROVE u # exit /\ TopTarget(v, u) \in Tops(S)
      <4>1. u # exit /\ u \in Blocks /\ u \in S /\ instnum[v] < instnum[u]
        BY <3>1, IterKinds
      <4>2. TopTarget(v, u) = <<u, "top">>
        BY <4>1, TopTargets, OrderFacts
      <4> QED BY <4>1, <4>2 DEF Tops
    <3> QED BY <3>2, TopInside
  <2> QED BY <2>1, DummyFacts DEF Barrier, Tops
<1>7. c \in PostDominators(Dummy, exit, <<s, "top">>)
  <2>1. <<s, "top">> \in Tops(S)
    BY <1>2, <1>5 DEF Tops
  <2>2. c \in DOMAIN Dummy /\ IsFiniteSet(DOMAIN Dummy)
    BY <1>3, DummyFacts
  <2> HIDE DEF c
  <2> QED BY <1>6, <2>1, <2>2, BarrierMakes
<1>8. <<s, "top">> \in Dummy[d] \ {exit}
  <2>1. TopTarget(a, s) = <<s, "top">>
    BY <1>2, TopTargets, OrderFacts
  <2> QED BY <1>1, <1>2, <2>1, DummyEdges, DummyFacts
<1>9. c \notin PostDominators(Dummy, exit, d)
  <2> SUFFICES ASSUME c \in PostDominators(Dummy, exit, d) PROVE FALSE
    OBVIOUS
  <2>1. PICK SD : d \in SD /\ Barrier(Dummy, exit, c, SD)
    BY BarrierThere, DummyFacts
  <2> DEFINE V == {v \in Blocks : <<v, "top">> \in SD}
  <2>2. \A v \in Blocks : <<v, "bottom">> \notin SD
    BY <2>1, BottomLeaves
  <2>3. ASSUME NEW v \in V, v # b, NEW u \in Iter[v] PROVE u \in V
    <3>1. Dummy[<<v, "top">>] \subseteq SD /\ exit \notin SD
      BY <2>1, <2>3, DummyFacts DEF Barrier
    <3>2. \A w \in succs[v] : w \in Blocks /\ w # exit /\ TopTarget(v, w) \in SD
      BY <3>1, OrderFacts, TopClosed
    <3>3. ~\E w \in succs[v] : w = exit \/ Dom(w, v)
      <4> SUFFICES ASSUME NEW w \in succs[v], Dom(w, v) PROVE FALSE
        BY <3>2
      <4>1. instnum[w] <= instnum[v]
        BY <3>2 DEF Ordered
      <4> QED BY <2>2, <3>2, <4>1, TopTargets
    <3>4. u \in succs[v] /\ u # exit
      BY <3>3, OrderFacts, IterEdges
    <3>5. instnum[v] < instnum[u]
      BY <3>4, IterLater
    <3>6. TopTarget(v, u) = <<u, "top">>
      BY <3>2, <3>4, <3>5, TopTargets, OrderFacts
    <3> QED BY <3>2, <3>4, <3>6
  <2>4. Barrier(Iter, exit, b, V)
    BY <2>3, OrderFacts DEF Barrier
  <2>5. t \in V
    BY <1>4, <2>1, <2>3
  <2> HIDE DEF V
  <2> QED BY <1>3, <2>4, <2>5, BarrierMakes, OrderFacts
<1>10. c \in Climbed(d)
  BY <1>7, <1>8, <1>9 DEF Climbed, ClimbToExit
<1>11. d \in Dummies /\ d[1] = a /\ c[1] = b
  BY DummyFacts
<1> HIDE DEF c, d
<1> QED BY <1>10, <1>11 DEF Ordered, Complete

LEMMA AllOfIterationFound == Ordered => Decisions(Iter, exit) \subseteq control
<1> SUFFICES ASSUME Ordered, NEW p \in Decisions(Iter, exit) PROVE p \in control
  OBVIOUS
<1>1. PICK a \in Blocks : \E b : /\ p = <<a, b>>
                                 /\ \E s \in Iter[a] : b \in PostDominators(Iter, exit, s)
                                 /\ \E t \in Iter[a] : b \notin PostDominators(Iter, exit, t)
  BY OrderFacts DEF Decisions
<1> QED BY <1>1, IterationFound

-----------------------------------------------------------------------------
(* No dependence is made up: what control is sure to come to before the     *)
(* iteration ends is no dependence of what leads to it.                     *)

\* The blocks from which an iteration is sure to come to b.
Sure(b) == {v \in Blocks : b \in PostDominators(Iter, exit, v)}

LEMMA SureFacts ==
  ASSUME Ordered, NEW b \in Blocks
  PROVE  /\ Sure(b) \subseteq Blocks
         /\ b \in Sure(b)
         /\ \A v \in Sure(b) : instnum[v] <= instnum[b]
         /\ \A v \in Sure(b) \ {b} : \A u \in Iter[v] : u \in Sure(b)
         /\ \A v \in Sure(b) \ {b} : \A u \in succs[v] :
               u # exit /\ u \in Sure(b) /\ instnum[v] < instnum[u]
<1>1. b \in Sure(b)
  BY OrderFacts, OwnPostDominator DEF Sure
<1>2. ASSUME NEW v \in Sure(b) \ {b}, NEW u \in Iter[v] PROVE u \in Sure(b)
  <2>1. PICK S : v \in S /\ Barrier(Iter, exit, b, S)
    BY OrderFacts, BarrierThere DEF Sure
  <2>2. u \in S /\ u # exit
    BY <1>2, <2>1, OrderFacts DEF Barrier, Sure
  <2>3. u \in Blocks
    BY <2>2, IterLater DEF Sure
  <2> QED BY <2>1, <2>2, <2>3, OrderFacts, BarrierMakes DEF Sure
<1>3. ASSUME NEW v \in Sure(b) \ {b}, NEW u \in succs[v]
      PROVE  u # exit /\ u \in Sure(b) /\ instnum[v] < instnum[u]
  <2>1. exit \notin Iter[v]
    BY <1>2, OrderFacts DEF Sure
  <2> QED BY <1>2, <2>1, IterKinds DEF Sure
<1> QED BY <1>1, <1>2, <1>3, Unavoidable DEF Sure

\* A block with an edge that goes back to where b is still to come has b
\* behind it.
LEMMA NotYetBack ==
  ASSUME Ordered, NEW a \in Blocks, NEW b \in Blocks, instnum[a] < instnum[b],
         NEW t \in succs[a] \cap Sure(b), instnum[t] <= instnum[a]
  PROVE  FALSE
<1>1. t \in Blocks /\ Dom(t, a)
  <2>1. t \in Blocks
    BY SureFacts
  <2> QED BY <2>1 DEF Ordered
<1>2. a \in Reached(Iter, t)
  BY <1>1 DEF Ordered
<1> DEFINE Y == Sure(b) \cup {v \in Blocks : instnum[a] < instnum[v]} \cup {exit}
<1>3. IsClosed(Iter, Y)
  <2> SUFFICES ASSUME NEW v \in Y \cap Blocks, NEW u \in Iter[v], u # exit PROVE u \in Y
    BY OrderFacts DEF IsClosed
  <2>1. u \in Blocks /\ instnum[v] < instnum[u]
    BY IterLater
  <2>2. CASE v \in Sure(b) \ {b}
    BY <2>2, SureFacts
  <2>3. CASE instnum[a] < instnum[v]
    BY <2>1, <2>3, OrderFacts
  <2> QED BY <2>2, <2>3, OrderFacts
<1>4. t \in Y
  OBVIOUS
<1> HIDE DEF Y
<1>5. a \in Y
  BY <1>1, <1>2, <1>3, <1>4, OrderFacts, ReachedFacts
<1>6. a \in Sure(b) \ {b}
  BY <1>5, OrderFacts DEF Y
<1>7. instnum[a] < instnum[t]
  BY <1>6, SureFacts
<1> QED BY <1>1, <1>7, OrderFacts

\* One of the two ends of an edge that matters.
LEMMA OneWayLeads ==
  ASSUME Ordered, NEW a \in Blocks, NEW b \in Blocks, NEW y \in {"top", "bottom"},
         NEW s \in succs[a] \cap Blocks, NEW z \in {"top", "bottom"},
         <<b, y>> \in PostDominators(Dummy, exit, <<s, z>>)
  PROVE  b \in PostDominators(succs, exit, s)
<1> DEFINE c == <<b, y>>
<1>1. PICK U : <<s, z>> \in U /\ Barrier(Dummy, exit, c, U)
  BY BarrierThere, DummyFacts
<1> DEFINE T == {v \in Blocks : <<v, "bottom">> \in U \/ <<v, "top">> \in U}
<1>2. ASSUME NEW v \in Blocks, NEW x \in {"top", "bottom"}, <<v, x>> \in U, v # b,
             NEW u \in succs[v]
      PROVE  u \in T
  <2>1. Dummy[<<v, x>>] \subseteq U /\ exit \notin U
    BY <1>1, <1>2, DummyFacts DEF Barrier
  <2>2. CASE x = "bottom"
    BY <2>1, <2>2, BottomClosed, OrderFacts
  <2>3. CASE x = "top"
    BY <2>1, <2>3, TopClosed, TopTargets, OrderFacts
  <2> QED BY <2>2, <2>3
<1>3. \A v \in T : v # b => \A u \in succs[v] : u \in T
  BY <1>2
<1>4. Barrier(succs, exit, b, T)
  BY <1>3, OrderFacts DEF Barrier
<1>5. s \in T
  BY <1>1
<1> HIDE DEF T
<1> QED BY <1>4, <1>5, BarrierMakes, OrderFacts

\* All ways out of a are sure to come to b in the iteration.
AllLead(a, b) == \A t \in succs[a] : t # exit /\ t \in Sure(b)

\* What a barrier of the dummy function has to keep together.
LEMMA SureBottom ==
  ASSUME Ordered, NEW a \in Blocks, NEW b \in Blocks, AllLead(a, b),
         NEW v \in Sure(b) \cup {a}, v # b \/ v = a
  PROVE  Dummy[<<v, "bottom">>] \subseteq Bottom(Sure(b))
<1>1. v \in Blocks /\ Sure(b) \subseteq Blocks
  BY SureFacts
<1>2. \A u \in succs[v] : u # exit /\ u \in Sure(b)
  BY SureFacts DEF AllLead
<1>3. \A u \in succs[v] : u # exit /\ <<u, "bottom">> \in Bottom(Sure(b))
  BY <1>1, <1>2 DEF Bottom
<1> QED BY <1>1, <1>3, BottomInside

LEMMA SureTop ==
  ASSUME Ordered, NEW b \in Blocks, NEW v \in Sure(b) \ {b}
  PROVE  Dummy[<<v, "top">>] \subseteq Tops(Sure(b))
<1>1. v \in Blocks /\ Sure(b) \subseteq Blocks
  BY SureFacts
<1>2. ASSUME NEW u \in succs[v] PROVE u # exit /\ TopTarget(v, u) \in Tops(Sure(b))
  <2>1. u # exit /\ u \in Sure(b) /\ u \in Blocks /\ instnum[v] < instnum[u]
    BY <1>1, SureFacts
  <2>2. TopTarget(v, u) = <<u, "top">>
    BY <1>1, <2>1, TopTargets, OrderFacts
  <2> QED BY <2>1, <2>2 DEF Tops
<1> QED BY <1>1, <1>2, TopInside

\* The climb from the bottom half only stops below what all ways lead to.
LEMMA FromTheBottom ==
  ASSUME Ordered, NEW a \in Blocks, NEW b \in Blocks, AllLead(a, b),
         NEW y \in {"top", "bottom"}, NEW s \in Blocks,
         <<b, y>> \in PostDominators(Dummy, exit, <<s, "bottom">>)
  PROVE  <<b, y>> \in PostDominators(Dummy, exit, <<a, "bottom">>)
<1> DEFINE c == <<b, y>>
<1>1. PICK U : <<s, "bottom">> \in U /\ Barrier(Dummy, exit, c, U)
  BY BarrierThere, DummyFacts
<1>2. y = "bottom"
  <2> SUFFICES ASSUME y = "top" PROVE FALSE
    OBVIOUS
  <2>1. \A v \in Blocks : c # <<v, "bottom">>
    BY DEF c
  <2> HIDE DEF c
  <2> QED BY <1>1, <2>1, BottomLeaves
<1> DEFINE SD == Bottom(Sure(b) \cup {a})
<1>3. Barrier(Dummy, exit, c, SD)
  <2>1. ASSUME NEW v \in (Sure(b) \cup {a}) \cap Blocks, v # b
        PROVE  Dummy[<<v, "bottom">>] \subseteq SD
    BY <2>1, SureBottom DEF Bottom
  <2> QED BY <1>2, <2>1, DummyFacts DEF Barrier, Bottom
<1>4. <<a, "bottom">> \in SD
  BY DEF Bottom
<1>5. c \in DOMAIN Dummy /\ IsFiniteSet(DOMAIN Dummy)
  BY <1>2, DummyFacts
<1> HIDE DEF c, SD
<1>6. c \in PostDominators(Dummy, exit, <<a, "bottom">>)
  BY <1>3, <1>4, <1>5, BarrierMakes
<1> QED BY <1>6 DEF c

\* A way that stays in the iteration has b behind a, so that a has no other.
LEMMA AllForward ==
  ASSUME Ordered, NEW a \in Blocks, NEW b \in Blocks, AllLead(a, b),
         NEW s \in succs[a], instnum[a] < instnum[s]
  PROVE  \A t \in succs[a] : /\ t \in Sure(b) /\ t \in Blocks
                             /\ TopTarget(a, t) = <<t, "top">>
<1>1. s \in Sure(b) /\ s \in Blocks /\ instnum[s] <= instnum[b]
  BY SureFacts DEF AllLead
<1>2. instnum[a] < instnum[b]
  BY <1>1, OrderFacts
<1> TAKE t \in succs[a]
<1>3. t \in Sure(b) /\ t \in Blocks
  BY SureFacts DEF AllLead
<1>4. ~(instnum[t] <= instnum[a])
  BY <1>2, <1>3, NotYetBack
<1> QED BY <1>3, <1>4, TopTargets

\* The climb from the top half does so too: all ways stay in the iteration,
LEMMA FromTheTop ==
  ASSUME Ordered, NEW a \in Blocks, NEW b \in Blocks, AllLead(a, b),
         NEW y \in {"top", "bottom"}, NEW s \in succs[a], instnum[a] < instnum[s],
         <<b, y>> \in PostDominators(Dummy, exit, <<s, "top">>)
  PROVE  <<b, y>> \in PostDominators(Dummy, exit, <<a, "top">>)
<1> DEFINE c == <<b, y>>
           d == <<a, "top">>
<1>1. PICK U : <<s, "top">> \in U /\ Barrier(Dummy, exit, c, U)
  BY BarrierThere, DummyFacts
<1>2. \A t \in succs[a] : t \in Sure(b) /\ t \in Blocks /\ TopTarget(a, t) = <<t, "top">>
  BY AllForward
<1>3. Dummy[d] \subseteq Tops(Sure(b))
  <2>1. \A t \in succs[a] : t # exit /\ TopTarget(a, t) \in Tops(Sure(b))
    BY <1>2, OrderFacts DEF Tops
  <2> QED BY <2>1, TopInside
<1>4. c \in DOMAIN Dummy /\ IsFiniteSet(DOMAIN Dummy) /\ d \in DOMAIN Dummy
  BY DummyFacts
\* In the top half the iteration comes to b, whatever half c is in.
<1>5. \/ <<b, "top">> = c
      \/ <<b, "top">> \in U /\ Dummy[<<b, "top">>] \subseteq U
  <2> SUFFICES ASSUME y = "bottom" PROVE <<b, "top">> \in U /\ Dummy[<<b, "top">>] \subseteq U
    OBVIOUS
  <2> DEFINE V == {v \in Blocks : <<v, "top">> \in U} \cup {exit}
  <2>1. \A v \in V \cap Blocks : Dummy[<<v, "top">>] \subseteq U /\ exit \notin U
    BY <1>1, DummyFacts DEF Barrier
  <2>2. IsClosed(Iter, V)
    <3> SUFFICES ASSUME NEW v \in V \cap Blocks, NEW u \in Iter[v], u # exit PROVE u \in V
      BY OrderFacts DEF IsClosed
    <3>1. u \in succs[v] /\ u \in Blocks /\ instnum[v] < instnum[u]
      BY IterLater
    <3>2. TopTarget(v, u) \in U
      BY <2>1, <3>1, OrderFacts, TopClosed
    <3>3. TopTarget(v, u) = <<u, "top">>
      BY <3>1, TopTargets, OrderFacts
    <3> QED BY <3>1, <3>2, <3>3
  <2>3. s \in V
    BY <1>1, <1>2
  <2>4. b \in Reached(Iter, s)
    BY <1>2, Unavoidable DEF Sure
  <2> HIDE DEF V
  <2>5. b \in V
    BY <2>2, <2>3, <2>4, OrderFacts, ReachedFacts
  <2> USE DEF V
  <2> QED BY <2>1, <2>5, OrderFacts
<1> DEFINE SD == U \cup Tops(Sure(b)) \cup {d}
<1>6. Barrier(Dummy, exit, c, SD)
  <2>1. ASSUME NEW v \in Sure(b), c # <<v, "top">> PROVE Dummy[<<v, "top">>] \subseteq SD
    <3>1. CASE v = b
      BY <1>5, <2>1, <3>1
    <3>2. CASE v # b
      <4>1. Dummy[<<v, "top">>] \subseteq Tops(Sure(b))
        BY <3>2, SureTop
      <4> QED BY <4>1
    <3> QED BY <3>1, <3>2
  <2>2. ASSUME NEW f \in SD \cap Dummies, f # c PROVE Dummy[f] \subseteq SD
    <3>1. CASE f \in U
      BY <1>1, <2>2, <3>1, DummyFacts DEF Barrier
    <3>2. CASE f \in Tops(Sure(b))
      BY <2>1, <2>2, <3>2 DEF Tops
    <3>3. CASE f = d
      BY <1>3, <3>3
    <3> QED BY <3>1, <3>2, <3>3
  <2>3. exit \notin SD
    <3>1. exit \notin U
      BY <1>1 DEF Barrier
    <3>2. Tops(Sure(b)) \subseteq Dummies /\ d \in Dummies
      BY DummyFacts DEF Tops
    <3> QED BY <3>1, <3>2, DummyFacts
  <2> QED BY <2>2, <2>3, DummyFacts DEF Barrier
<1>7. d \in SD
  OBVIOUS
<1> HIDE DEF c, d, SD
<1>8. c \in PostDominators(Dummy, exit, d)
  BY <1>4, <1>6, <1>7, BarrierMakes
<1> QED BY <1>8 DEF c, d

\* or all of them end it.
LEMMA FromTheTopBack ==
  ASSUME Ordered, NEW a \in Blocks, NEW b \in Blocks, AllLead(a, b),
         NEW y \in {"top", "bottom"}, NEW s \in succs[a], instnum[s] <= instnum[a],
         <<b, y>> \in PostDominators(Dummy, exit, <<s, "bottom">>)
  PROVE  <<b, y>> \in PostDominators(Dummy, exit, <<a, "top">>)
<1> DEFINE c == <<b, y>>
           d == <<a, "top">>
<1>1. PICK U : <<s, "bottom">> \in U /\ Barrier(Dummy, exit, c, U)
  BY BarrierThere, DummyFacts
<1>2. \A t \in succs[a] : t \in Sure(b) /\ t \in Blocks /\ t # exit
  BY SureFacts DEF AllLead
<1>3. y = "bottom"
  <2> SUFFICES ASSUME y = "top" PROVE FALSE
    OBVIOUS
  <2>1. \A v \in Blocks : c # <<v, "bottom">>
    BY DEF c
  <2> HIDE DEF c
  <2> QED BY <1>1, <1>2, <2>1, BottomLeaves
<1>4. \A t \in succs[a] : instnum[t] <= instnum[a]
  <2> SUFFICES ASSUME NEW t \in succs[a], ~(instnum[t] <= instnum[a]) PROVE FALSE
    OBVIOUS
  <2>1. instnum[a] < instnum[t]
    BY <1>2, OrderFacts
  <2>2. TopTarget(a, s) = <<s, "top">>
    BY <2>1, AllForward
  <2> QED BY <2>2, TopTargets
<1>5. Dummy[d] \subseteq Bottom(Sure(b))
  <2>1. \A t \in succs[a] : t # exit /\ TopTarget(a, t) \in Bottom(Sure(b))
    BY <1>2, <1>4, TopTargets DEF Bottom
  <2> QED BY <2>1, TopInside
<1> DEFINE SD == Bottom(Sure(b)) \cup {d}
<1>6. Barrier(Dummy, exit, c, SD)
  <2>1. ASSUME NEW v \in Sure(b), v # b PROVE Dummy[<<v, "bottom">>] \subseteq SD
    <3>1. Dummy[<<v, "bottom">>] \subseteq Bottom(Sure(b))
      BY <2>1, SureBottom
    <3> QED BY <3>1
  <2> QED BY <1>3, <1>5, <2>1, DummyFacts DEF Barrier, Bottom
<1>7. d \in SD
  OBVIOUS
<1>8. c \in DOMAIN Dummy /\ IsFiniteSet(DOMAIN Dummy)
  BY DummyFacts
<1> HIDE DEF c, d, SD
<1>9. c \in PostDominators(Dummy, exit, d)
  BY <1>6, <1>7, <1>8, BarrierMakes
<1> QED BY <1>9 DEF c, d

\* Every edge added comes from a choice that matters.
LEMMA OnlyChoices ==
  ASSUME Ordered, NEW e \in control
  PROVE  /\ \E s \in succs[e[1]] : e[2] \in PostDominators(succs, exit, s)
         /\ \E t \in succs[e[1]] : e[2] \notin PostDominators(Iter, exit, t)
<1>1. PICK d \in Dummies : \E c \in Climbed(d) : e = <<d[1], c[1]>>
  BY DEF Ordered, Complete
<1>2. PICK c \in Climbed(d) : e = <<d[1], c[1]>>
  BY <1>1
<1>3. PICK a \in Blocks, x \in {"top", "bottom"} : d = <<a, x>>
  BY DEF Dummies
<1>4. PICK h \in Dummy[d] \ {exit} : c \in PostDominators(Dummy, exit, h)
  BY DEF Climbed, ClimbToExit
<1>5. c \notin PostDominators(Dummy, exit, d)
  BY DEF Climbed
<1>6. PICK b \in Blocks, y \in {"top", "bottom"} : c = <<b, y>>
  BY <1>4, DummyFacts DEF PostDominators, Dummies
<1>7. PICK s \in succs[a] : /\ s # exit
                            /\ h = IF x = "top" THEN TopTarget(a, s) ELSE <<s, "bottom">>
  <2>1. CASE x = "top"
    <3>1. \E s \in succs[a] : h = IF s = exit THEN exit ELSE TopTarget(a, s)
      BY <1>3, <1>4, <2>1, DummyEdges
    <3> QED BY <1>4, <2>1, <3>1
  <2>2. CASE x = "bottom"
    <3>1. \E s \in succs[a] : h = IF s = exit THEN exit ELSE <<s, "bottom">>
      BY <1>3, <1>4, <2>2, DummyEdges
    <3> QED BY <1>4, <2>2, <3>1
  <2> QED BY <2>1, <2>2
<1>8. s \in Blocks
  BY <1>7, OrderFacts DEF AnyGraphs
<1>9. b \in PostDominators(succs, exit, s)
  <2>1. h = <<s, "top">> \/ h = <<s, "bottom">>
    BY <1>3, <1>7, TopTargets
  <2> QED BY <1>4, <1>6, <1>8, <2>1, OneWayLeads
<1>10. ~AllLead(a, b)
  <2> SUFFICES ASSUME AllLead(a, b) PROVE FALSE
    OBVIOUS
  <2>1. CASE x = "bottom"
    BY <1>3, <1>4, <1>5, <1>6, <1>7, <1>8, <2>1, FromTheBottom
  <2>2. CASE x = "top" /\ instnum[s] <= instnum[a]
    <3>1. h = <<s, "bottom">>
      BY <1>7, <2>2, TopTargets
    <3> QED BY <1>3, <1>4, <1>5, <1>6, <2>2, <3>1, FromTheTopBack
  <2>3. CASE x = "top" /\ ~(instnum[s] <= instnum[a])
    <3>1. h = <<s, "top">>
      BY <1>7, <2>3, TopTargets
    <3>2. instnum[a] < instnum[s]
      BY <1>8, <2>3, OrderFacts
    <3> QED BY <1>3, <1>4, <1>5, <1>6, <2>3, <3>1, <3>2, FromTheTop
  <2> QED BY <1>3, <2>1, <2>2, <2>3
<1>11. PICK t \in succs[a] : b \notin PostDominators(Iter, exit, t)
  <2>1. PICK t \in succs[a] : t = exit \/ t \notin Sure(b)
    BY <1>10 DEF AllLead
  <2>2. CASE t = exit
    BY <2>2, AtTheExit, OrderFacts
  <2>3. CASE t # exit
    BY <2>1, <2>3, OrderFacts DEF Sure, AnyGraphs
  <2> QED BY <2>2, <2>3
<1>12. e[1] = a /\ e[2] = b
  BY <1>2, <1>3, <1>6
<1> QED BY <1>9, <1>11, <1>12
-----------------------------------------------------------------------------
\* The loops TLC starts from are among those the theorems are about.
LEMMA LoopsAreGood == Loops \subseteq GoodGraphs
<1> SUFFICES ASSUME NEW G \in Loops PROVE G \in GoodGraphs
  OBVIOUS
<1>1. G \in [Blocks -> SUBSET (Blocks \cup {exit})]
  BY DEF Loops
<1> QED BY <1>1 DEF Loops, GoodGraphs, AnyGraphs

\* For every reducible loop with one exit, every choice of it and every order
\* of the search: no dependence within an iteration is missed either (the top
\* half of the dummy function, buildPDG.cpp:303-337).
THEOREM IterationsMissNoDependence ==
  ASSUME NEW CONSTANT loops \in SUBSET GoodGraphs
  PROVE  BuildFrom(loops) /\ [][BuildNext]_buildVars => []IterationsMissNone
<1>1. DfsInv /\ ClimbInv => IterationsMissNone
  BY BuiltIsOrdered, AllOfIterationFound DEF IterationsMissNone, Iter
<1>2. BuildFrom(loops) => DfsInv /\ ClimbInv
  <2>1. loops \in SUBSET AnyGraphs
    BY DEF GoodGraphs
  <2> QED BY <2>1, DfsStart, SearchStart
<1> QED BY <1>1, <1>2, DfsKeeps, PTL

\* And none is made up: an edge the climb adds (buildPDG.cpp:357-387) comes
\* from a block one way out of which leads to the other for certain, while
\* another lets the iteration end without it.
THEOREM NoDependenceIsInvented ==
  ASSUME NEW CONSTANT loops \in SUBSET GoodGraphs
  PROVE  BuildFrom(loops) /\ [][BuildNext]_buildVars => []NoneInvented
<1>1. DfsInv /\ ClimbInv => NoneInvented
  BY BuiltIsOrdered, OnlyChoices DEF NoneInvented, Iter
<1>2. BuildFrom(loops) => DfsInv /\ ClimbInv
  <2>1. loops \in SUBSET AnyGraphs
    BY DEF GoodGraphs
  <2> QED BY <2>1, DfsStart, SearchStart
<1> QED BY <1>1, <1>2, DfsKeeps, PTL
=============================================================================
