-------------------------- MODULE ConfigMerge_proofs --------------------------
(***************************************************************************)
(* What merge() makes of configurations of any depth, and what is left of  *)
(* the fragments of any number of plugins. The recursive functions have    *)
(* their values by induction on the depth of the nodes.                    *)
(***************************************************************************)
EXTENDS ConfigMerge, WellFoundedInduction, NaturalsInduction, TLAPS

-----------------------------------------------------------------------------
(* Nodes.                                                                  *)

\* Induction over the depths, for a set.
LEMMA AllDepths ==
  ASSUME NEW n \in Nat, NEW S, 0 \in S, \A d \in 1 .. n : d - 1 \in S => d \in S
  PROVE  \A d \in 0 .. n : d \in S
<1> DEFINE Bad == {d \in 0 .. n : d \notin S}
<1> SUFFICES ASSUME Bad # {}
             PROVE  FALSE
  OBVIOUS
<1>1. Bad \in SUBSET Nat
  OBVIOUS
<1>2. PICK d \in Bad : \A e \in Bad : <<e, d>> \notin OpToRel(<, Nat)
  <2> HIDE DEF Bad
  <2> QED
    BY <1>1, NatLessThanWellFounded, WFMin
<1>3. \A e \in Bad : ~(e < d)
  BY <1>1, <1>2 DEF OpToRel
<1>4. d \in 1 .. n
  OBVIOUS
<1>5. d - 1 \notin Bad
  BY <1>1, <1>3, <1>4
<1> QED
  BY <1>4, <1>5

LevelAbove(nodes) == [leaf : Values] \cup MappingsTo(nodes)

\* The nodes of each depth, up to n.
Levels(levels, n) ==
  levels = [d \in 0 .. n |-> [leaf : Values] \cup IF d = 0 THEN {} ELSE MappingsTo(levels[d - 1])]

LEMMA LevelsExist == \E levels : Levels(levels, Depth)
<1> DEFINE S == {n \in Nat : \E levels : Levels(levels, n)}
<1>1. 0 \in S
  <2> DEFINE levels == [d \in 0 .. 0 |-> [leaf : Values] \cup {}]
  <2>1. levels = [d \in 0 .. 0 |-> [leaf : Values] \cup IF d = 0 THEN {} ELSE MappingsTo(levels[d - 1])]
    OBVIOUS
  <2> HIDE DEF levels
  <2> QED
    BY <2>1 DEF Levels
<1>2. ASSUME NEW n \in 1 .. Depth, NEW levels, Levels(levels, n - 1)
      PROVE  \E more : Levels(more, n)
  <2> DEFINE At(l, d) == [leaf : Values] \cup IF d = 0 THEN {} ELSE MappingsTo(l[d - 1])
             more == [d \in 0 .. n |-> IF d = n THEN At(levels, n) ELSE levels[d]]
  <2>1. n - 1 \in Nat /\ n \in Nat
    BY NodesAssumption
  <2>2. \A d \in 0 .. n - 1 : levels[d] = At(levels, d)
    BY <1>2 DEF Levels
  <2>3. ASSUME NEW d \in 0 .. n
        PROVE  more[d] = At(more, d)
    <3>1. d # 0 => more[d - 1] = levels[d - 1]
      BY <2>1
    <3>2. more[d] = At(levels, d)
      BY <2>1, <2>2
    <3> HIDE DEF more
    <3> QED
      BY <3>1, <3>2
  <2>4. more = [d \in 0 .. n |-> more[d]]
    OBVIOUS
  <2> HIDE DEF more
  <2>5. more = [d \in 0 .. n |-> At(more, d)]
    BY <2>3, <2>4
  <2> QED
    BY <2>5 DEF Levels
<1>3. Depth \in Nat /\ \A n \in 1 .. Depth : n - 1 \in S => n \in S
  BY <1>2, NodesAssumption
<1> HIDE DEF S
<1>4. Depth \in S
  BY <1>1, <1>3, AllDepths
<1> QED
  BY <1>4 DEF S

LEMMA NodesByLevel ==
  /\ NodesUpTo[0] = [leaf : Values]
  /\ \A d \in 1 .. Depth : NodesUpTo[d] = LevelAbove(NodesUpTo[d - 1])
<1>1. Levels(NodesUpTo, Depth)
  BY LevelsExist DEF Levels, NodesUpTo
<1>2. Depth \in Nat
  BY NodesAssumption
<1>3. \A d \in 0 .. Depth :
        NodesUpTo[d] = [leaf : Values] \cup IF d = 0 THEN {} ELSE MappingsTo(NodesUpTo[d - 1])
  <2>1. NodesUpTo = [d \in 0 .. Depth |->
                       [leaf : Values] \cup IF d = 0 THEN {} ELSE MappingsTo(NodesUpTo[d - 1])]
    BY <1>1 DEF Levels
  <2> QED
    BY <2>1
<1>4. NodesUpTo[0] = [leaf : Values]
  <2>1. 0 \in 0 .. Depth
    BY <1>2
  <2>2. NodesUpTo[0] = [leaf : Values] \cup {}
    BY <1>3, <2>1, Zenon
  <2> QED
    BY <2>2, Zenon
<1>5. ASSUME NEW d \in 1 .. Depth
      PROVE  NodesUpTo[d] = LevelAbove(NodesUpTo[d - 1])
  <2>1. d \in 0 .. Depth /\ d # 0
    BY <1>2
  <2> QED
    BY <1>3, <2>1, Zenon DEF LevelAbove
<1> QED
  BY <1>4, <1>5

LEMMA NodeKinds ==
  /\ \A n \in [leaf : Values] : ~IsDict(n) /\ n # Raised /\ n # Empty /\ n # HasKeys
  /\ \A f : IsDict(Dict(f)) /\ Dict(f).map = f /\ Dict(f) # Raised
  /\ IsDict(Empty) /\ DOMAIN Empty.map = {} /\ Empty # Raised /\ Empty # HasKeys
  /\ Empty = Dict(Empty.map) /\ Empty.map = [k \in DOMAIN Empty.map |-> Empty.map[k]]
BY DEF IsDict, Raised, Dict, Empty, HasKeys

(* A node of a level is a leaf, or a mapping to nodes of the level below.  *)
LEMMA MappingFacts ==
  ASSUME NEW nodes
  PROVE  /\ \A n \in MappingsTo(nodes) :
              /\ IsDict(n) /\ n = Dict(n.map) /\ n # Raised
              /\ DOMAIN n.map \subseteq Keys /\ (n # Empty => DOMAIN n.map # {})
              /\ n.map = [k \in DOMAIN n.map |-> n.map[k]]
              /\ \A k \in DOMAIN n.map : n.map[k] \in nodes
         /\ Empty \in MappingsTo(nodes)
         /\ \A S \in SUBSET Keys : \A f \in [S -> nodes] : S # {} => Dict(f) \in MappingsTo(nodes)
<1>1. ASSUME NEW n \in MappingsTo(nodes)
      PROVE  /\ IsDict(n) /\ n = Dict(n.map) /\ n # Raised
             /\ DOMAIN n.map \subseteq Keys /\ (n # Empty => DOMAIN n.map # {})
             /\ n.map = [k \in DOMAIN n.map |-> n.map[k]]
             /\ \A k \in DOMAIN n.map : n.map[k] \in nodes
  <2>1. CASE n = Empty
    <3>1. /\ IsDict(n) /\ n = Dict(n.map) /\ n # Raised
          /\ DOMAIN n.map = {} /\ n.map = [k \in DOMAIN n.map |-> n.map[k]]
      BY <2>1, NodeKinds, Zenon
    <3> QED
      BY <2>1, <3>1
  <2>2. CASE n # Empty
    <3>1. PICK f \in UNION {[S -> nodes] : S \in (SUBSET Keys) \ {{}}} : n = Dict(f)
      BY <2>2 DEF MappingsTo, Dict
    <3>2. PICK S \in (SUBSET Keys) \ {{}} : f \in [S -> nodes]
      BY <3>1
    <3>3. n.map = f /\ IsDict(n) /\ n # Raised
      BY <3>1, NodeKinds
    <3> QED
      BY <3>1, <3>2, <3>3
  <2> QED
    BY <2>1, <2>2
<1>2. ASSUME NEW S \in SUBSET Keys, NEW f \in [S -> nodes], S # {}
      PROVE  Dict(f) \in MappingsTo(nodes)
  <2>1. f \in UNION {[T -> nodes] : T \in (SUBSET Keys) \ {{}}}
    BY <1>2
  <2> QED
    BY <2>1 DEF Dict, MappingsTo
<1>3. Empty \in MappingsTo(nodes)
  BY DEF MappingsTo
<1> QED
  BY <1>1, <1>2, <1>3

(* The levels grow with the depth.                                         *)
LEMMA LevelsGrow ==
  /\ \A d \in 1 .. Depth : NodesUpTo[d - 1] \subseteq NodesUpTo[d]
  /\ \A d \in 0 .. Depth : NodesUpTo[d] \subseteq NodesUpTo[Depth]
<1> DEFINE S == {d \in 0 .. Depth : d = 0 \/ NodesUpTo[d - 1] \subseteq NodesUpTo[d]}
           T == {j \in 0 .. Depth : NodesUpTo[Depth - j] \subseteq NodesUpTo[Depth]}
<1>1. Depth \in Nat
  BY NodesAssumption
<1>2. \A nodes, more : nodes \subseteq more => LevelAbove(nodes) \subseteq LevelAbove(more)
  <2> SUFFICES ASSUME NEW nodes, NEW more, nodes \subseteq more, NEW n \in MappingsTo(nodes)
               PROVE  n \in MappingsTo(more)
    BY DEF LevelAbove
  <2>1. CASE n = Empty
    BY <2>1, MappingFacts
  <2>2. CASE n # Empty
    <3>1. /\ n = Dict(n.map) /\ DOMAIN n.map \in SUBSET Keys /\ DOMAIN n.map # {}
          /\ n.map \in [DOMAIN n.map -> more]
      BY <2>2, MappingFacts
    <3>2. Dict(n.map) \in MappingsTo(more)
      BY <3>1, MappingFacts, Zenon
    <3> QED
      BY <3>1, <3>2
  <2> QED
    BY <2>1, <2>2
<1>3. 0 \in S
  BY <1>1
<1>4. ASSUME NEW d \in 1 .. Depth, d - 1 \in S
      PROVE  d \in S
  <2>1. CASE d = 1
    <3>1. NodesUpTo[0] \subseteq LevelAbove(NodesUpTo[0])
      BY NodesByLevel DEF LevelAbove
    <3>2. NodesUpTo[1] = LevelAbove(NodesUpTo[1 - 1])
      BY <2>1, NodesByLevel
    <3> QED
      BY <2>1, <3>1, <3>2
  <2>2. CASE d # 1
    <3>1. d - 1 \in 1 .. Depth /\ NodesUpTo[d - 1 - 1] \subseteq NodesUpTo[d - 1]
      BY <1>1, <1>4, <2>2
    <3>2. NodesUpTo[d - 1] = LevelAbove(NodesUpTo[d - 1 - 1]) /\ NodesUpTo[d] = LevelAbove(NodesUpTo[d - 1])
      BY <3>1, NodesByLevel
    <3> QED
      BY <1>1, <1>2, <3>1, <3>2
  <2> QED
    BY <2>1, <2>2
<1>5. \A d \in 0 .. Depth : d \in S
  <2> HIDE DEF S
  <2> QED
    BY <1>1, <1>3, <1>4, AllDepths
<1>6. \A d \in 1 .. Depth : NodesUpTo[d - 1] \subseteq NodesUpTo[d]
  BY <1>1, <1>5
<1>7. 0 \in T
  BY <1>1
<1>8. ASSUME NEW j \in 1 .. Depth, j - 1 \in T
      PROVE  j \in T
  <2>1. PICK d \in 1 .. Depth : d - 1 = Depth - j /\ d = Depth - (j - 1)
    BY <1>1
  <2>2. NodesUpTo[Depth - j] \subseteq NodesUpTo[d]
    BY <1>6, <2>1
  <2>3. NodesUpTo[d] \subseteq NodesUpTo[Depth]
    BY <1>8, <2>1
  <2> QED
    BY <1>1, <2>2, <2>3
<1>9. \A j \in 0 .. Depth : j \in T
  <2> HIDE DEF T
  <2> QED
    BY <1>1, <1>7, <1>8, AllDepths
<1>10. ASSUME NEW d \in 0 .. Depth
       PROVE  NodesUpTo[d] \subseteq NodesUpTo[Depth]
  <2>1. Depth - d \in 0 .. Depth /\ Depth - (Depth - d) = d
    BY <1>1
  <2>2. Depth - d \in T
    BY <1>9, <2>1
  <2> QED
    BY <2>1, <2>2
<1> QED
  BY <1>6, <1>10


(* The nodes of a level, as merge meets them: with an empty mapping.       *)
Level(d) == NodesUpTo[d] \cup {Empty}
MappingsOf(d) == {n \in Level(d) : IsDict(n)}

LEMMA LevelFacts ==
  ASSUME NEW d \in 0 .. Depth
  PROVE  /\ Level(d) \subseteq Nodes /\ MappingsOf(d) \subseteq Mappings
         /\ Empty \in MappingsOf(d) /\ MappingsOf(d) \subseteq Level(d)
         /\ \A n \in Level(d) : ~IsDict(n) => n \in [leaf : Values] /\ n \in NodesUpTo[d]
         /\ \A n \in MappingsOf(d) \ {Empty} : d # 0 /\ n \in MappingsTo(NodesUpTo[d - 1])
         /\ d # 0 => MappingsTo(NodesUpTo[d - 1]) \subseteq NodesUpTo[d]
         /\ d # 0 => NodesUpTo[d - 1] \subseteq NodesUpTo[d]
         /\ d # 0 => Level(d) = NodesUpTo[d]
<1>1. NodesUpTo[d] \subseteq NodesUpTo[Depth] /\ Depth \in Nat /\ Depth \in 0 .. Depth
  BY LevelsGrow, NodesAssumption
<1>2. /\ \A n \in NodesUpTo[d] : n \in [leaf : Values] \/ (d # 0 /\ n \in MappingsTo(NodesUpTo[d - 1]))
      /\ d # 0 => MappingsTo(NodesUpTo[d - 1]) \subseteq NodesUpTo[d]
  <2>1. CASE d = 0
    BY <2>1, NodesByLevel
  <2>2. CASE d # 0
    <3>1. d \in 1 .. Depth
      BY <1>1, <2>2
    <3>2. NodesUpTo[d] = [leaf : Values] \cup MappingsTo(NodesUpTo[d - 1])
      BY <3>1, NodesByLevel, Zenon DEF LevelAbove
    <3> QED
      BY <2>2, <3>2, Zenon
  <2> QED
    BY <2>1, <2>2
<1>3. d # 0 => NodesUpTo[d - 1] \subseteq NodesUpTo[d]
  BY <1>1, LevelsGrow
<1>4. \A n \in [leaf : Values] : ~IsDict(n)
  BY NodeKinds
<1>5. \A nodes : \A n \in MappingsTo(nodes) : IsDict(n)
  BY MappingFacts
<1>6. \A n \in NodesUpTo[Depth] : IsDict(n) => n \in MappingsTo(NodesUpTo[Depth - 1])
  BY <1>1, <1>4, NodesByLevel, NodesAssumption DEF LevelAbove
<1>7. MappingsOf(d) \subseteq Mappings
  BY <1>1, <1>6, MappingFacts DEF Mappings, MappingsOf, Level
<1>8. d # 0 => Empty \in NodesUpTo[d]
  BY <1>2, MappingFacts
<1>9. Empty \in NodesUpTo[Depth]
  BY <1>1, NodesByLevel, NodesAssumption, MappingFacts DEF LevelAbove
<1>10. Level(d) \subseteq Nodes
  BY <1>1, <1>9 DEF Level, Nodes
<1> QED
  BY <1>2, <1>3, <1>4, <1>5, <1>7, <1>8, <1>10, NodeKinds DEF Level, MappingsOf

LEMMA TopLevel ==
  /\ Depth \in 0 .. Depth /\ Depth # 0
  /\ Nodes = Level(Depth) /\ Mappings = MappingsOf(Depth)
<1>1. Depth \in 0 .. Depth /\ Depth # 0
  BY NodesAssumption
<1>2. Nodes = Level(Depth)
  BY <1>1, LevelFacts DEF Nodes
<1>3. \A n \in Mappings : n \in MappingsOf(Depth)
  <2>1. \A n \in MappingsTo(NodesUpTo[Depth - 1]) : IsDict(n) /\ n \in NodesUpTo[Depth]
    BY <1>1, LevelFacts, MappingFacts
  <2> QED
    BY <2>1, NodeKinds DEF Mappings, MappingsOf, Level
<1> QED
  BY <1>1, <1>2, <1>3, LevelFacts

LEMMA Children ==
  ASSUME NEW d \in 0 .. Depth, NEW n \in MappingsOf(d), NEW k \in DOMAIN n.map
  PROVE  /\ d \in 1 .. Depth /\ n # Empty
         /\ n.map[k] \in NodesUpTo[d - 1] /\ n.map[k] \in Level(d - 1) /\ n.map[k] \in Level(d)
         /\ n.map[k] \in Nodes
         /\ IsDict(n.map[k]) => n.map[k] \in MappingsOf(d - 1) /\ n.map[k] \in MappingsOf(d)
<1>1. n # Empty
  BY NodeKinds
<1>2. d # 0 /\ n \in MappingsTo(NodesUpTo[d - 1])
  BY <1>1, LevelFacts
<1>3. n.map[k] \in NodesUpTo[d - 1]
  BY <1>2, MappingFacts
<1>4. NodesUpTo[d - 1] \subseteq NodesUpTo[d] /\ Level(d) \subseteq Nodes
  BY <1>2, LevelFacts
<1>5. d \in 1 .. Depth
  BY <1>2, NodesAssumption
<1> QED
  BY <1>1, <1>3, <1>4, <1>5 DEF Level, MappingsOf

-----------------------------------------------------------------------------
(* The recursive functions have values.                                    *)

TreeAt(tree, n) == {<<<<>>, Kind(n)>>} \cup Below(tree, n)

Trees(tree, d) == tree = [n \in Level(d) |-> TreeAt(tree, n)]

LEMMA SameBelow ==
  ASSUME NEW n, NEW f, NEW g, IsDict(n) => \A k \in DOMAIN n.map : f[n.map[k]] = g[n.map[k]]
  PROVE  TreeAt(f, n) = TreeAt(g, n)
<1>1. CASE IsDict(n)
  <2>1. \A k \in DOMAIN n.map :
          {<<<<k, a[1]>>, a[2]>> : a \in f[n.map[k]]} = {<<<<k, a[1]>>, a[2]>> : a \in g[n.map[k]]}
    BY <1>1
  <2>2. Below(f, n) = Below(g, n)
    BY <1>1, <2>1 DEF Below
  <2> QED
    BY <2>2 DEF TreeAt
<1>2. CASE ~IsDict(n)
  BY <1>2 DEF TreeAt, Below
<1> QED
  BY <1>1, <1>2

LEMMA TreesExist == \E tree : Trees(tree, Depth)
<1> DEFINE S == {d \in 0 .. Depth : \E tree : Trees(tree, d)}
<1>0. Depth \in Nat
  BY NodesAssumption
<1>1. 0 \in S
  <2> DEFINE tree == [n \in Level(0) |-> TreeAt(<<>>, n)]
  <2>1. ASSUME NEW n \in Level(0)
        PROVE  TreeAt(tree, n) = TreeAt(<<>>, n)
    <3>1. IsDict(n) => DOMAIN n.map = {}
      BY <1>0, Children DEF MappingsOf
    <3> HIDE DEF tree
    <3> QED
      BY <3>1, SameBelow
  <2>2. tree = [n \in Level(0) |-> TreeAt(tree, n)]
    BY <2>1
  <2> HIDE DEF tree
  <2> QED
    BY <1>0, <2>2 DEF Trees
<1>2. ASSUME NEW d \in 1 .. Depth, NEW tree, Trees(tree, d - 1)
      PROVE  \E more : Trees(more, d)
  <2> DEFINE more == [n \in Level(d) |-> TreeAt(tree, n)]
  <2>1. \A n \in Level(d - 1) : tree[n] = TreeAt(tree, n)
    BY <1>2 DEF Trees
  <2>2. ASSUME NEW n \in Level(d)
        PROVE  TreeAt(more, n) = TreeAt(tree, n)
    <3>1. ASSUME IsDict(n), NEW k \in DOMAIN n.map
          PROVE  more[n.map[k]] = tree[n.map[k]]
      <4>1. n.map[k] \in Level(d - 1) /\ n.map[k] \in Level(d)
        BY <1>0, <3>1, Children DEF MappingsOf
      <4> QED
        BY <2>1, <4>1
    <3> HIDE DEF more
    <3> QED
      BY <3>1, SameBelow
  <2>3. more = [n \in Level(d) |-> TreeAt(more, n)]
    BY <2>2
  <2> HIDE DEF more
  <2> QED
    BY <2>3 DEF Trees
<1>3. \A d \in 1 .. Depth : d - 1 \in S => d \in S
  BY <1>0, <1>2
<1> HIDE DEF S
<1>4. Depth \in S
  BY <1>0, <1>1, <1>3, AllDepths
<1> QED
  BY <1>4 DEF S

LEMMA TreeFacts == \A n \in Nodes : Tree[n] = TreeAt(Tree, n)
<1>1. Trees(Tree, Depth)
  BY TreesExist, TopLevel DEF Trees, Tree, TreeAt
<1>2. Tree = [n \in Nodes |-> TreeAt(Tree, n)]
  BY <1>1, TopLevel DEF Trees
<1> QED
  BY <1>2

Merges(m, d) == m = [p \in MappingsOf(d) \X Nodes |-> MergedNode(m, p[1], p[2])]

LEMMA SameMerged ==
  ASSUME NEW s, NEW t, NEW f, NEW g,
         IsDict(t) => \A k \in DOMAIN s.map : MergedKey(f, s, t, k) = MergedKey(g, s, t, k)
  PROVE  MergedNode(f, s, t) = MergedNode(g, s, t)
<1>1. CASE DOMAIN s.map = {} \/ ~IsDict(t)
  BY <1>1 DEF MergedNode
<1>2. CASE DOMAIN s.map # {} /\ IsDict(t)
  <2>1. [k \in DOMAIN s.map |-> MergedKey(f, s, t, k)] = [k \in DOMAIN s.map |-> MergedKey(g, s, t, k)]
    BY <1>2
  <2>2. (\E k \in DOMAIN s.map : MergedKey(f, s, t, k) = Raised)
          <=> \E k \in DOMAIN s.map : MergedKey(g, s, t, k) = Raised
    BY <1>2
  <2> QED
    BY <1>2, <2>1, <2>2 DEF MergedNode
<1> QED
  BY <1>1, <1>2

LEMMA MergesExist == \E m : Merges(m, Depth)
<1> DEFINE S == {d \in 0 .. Depth : \E m : Merges(m, d)}
<1>0. Depth \in Nat
  BY NodesAssumption
<1>1. 0 \in S
  <2> DEFINE m == [p \in MappingsOf(0) \X Nodes |-> MergedNode(<<>>, p[1], p[2])]
  <2>1. ASSUME NEW s \in MappingsOf(0), NEW t \in Nodes
        PROVE  MergedNode(m, s, t) = MergedNode(<<>>, s, t)
    <3>1. DOMAIN s.map = {}
      BY <1>0, Children
    <3> HIDE DEF m
    <3> QED
      BY <3>1, SameMerged
  <2>2. m = [p \in MappingsOf(0) \X Nodes |-> MergedNode(m, p[1], p[2])]
    BY <2>1
  <2> HIDE DEF m
  <2> QED
    BY <1>0, <2>2 DEF Merges
<1>2. ASSUME NEW d \in 1 .. Depth, NEW m, Merges(m, d - 1)
      PROVE  \E more : Merges(more, d)
  <2> DEFINE more == [p \in MappingsOf(d) \X Nodes |-> MergedNode(m, p[1], p[2])]
  <2>1. \A s \in MappingsOf(d - 1), t \in Nodes : m[<<s, t>>] = MergedNode(m, s, t)
    BY <1>2 DEF Merges
  <2>2. ASSUME NEW s \in MappingsOf(d), NEW t \in Nodes
        PROVE  MergedNode(more, s, t) = MergedNode(m, s, t)
    <3>1. ASSUME IsDict(t), NEW k \in DOMAIN s.map
          PROVE  MergedKey(more, s, t, k) = MergedKey(m, s, t, k)
      <4>1. IsDict(s.map[k]) => s.map[k] \in MappingsOf(d - 1) /\ s.map[k] \in MappingsOf(d)
        BY <1>0, Children
      <4>2. k \in DOMAIN t.map => t.map[k] \in Nodes
        BY <3>1, TopLevel, Children DEF MappingsOf
      <4>3. Empty \in Nodes
        BY TopLevel DEF Level
      <4>4. \A u \in Nodes : IsDict(s.map[k]) => more[<<s.map[k], u>>] = m[<<s.map[k], u>>]
        BY <2>1, <4>1
      <4> HIDE DEF more
      <4> QED
        BY <4>2, <4>3, <4>4 DEF MergedKey
    <3> HIDE DEF more
    <3> QED
      BY <3>1, SameMerged
  <2>3. more = [p \in MappingsOf(d) \X Nodes |-> MergedNode(more, p[1], p[2])]
    BY <2>2
  <2> HIDE DEF more
  <2> QED
    BY <2>3 DEF Merges
<1>3. \A d \in 1 .. Depth : d - 1 \in S => d \in S
  BY <1>0, <1>2
<1> HIDE DEF S
<1>4. Depth \in S
  BY <1>0, <1>1, <1>3, AllDepths
<1> QED
  BY <1>4 DEF S

LEMMA MergeFacts ==
  \A s \in Mappings, t \in Nodes : merge[<<s, t>>] = MergedNode(merge, s, t)
<1>1. Merges(merge, Depth)
  BY MergesExist, TopLevel DEF Merges, merge
<1>2. merge = [p \in Mappings \X Nodes |-> MergedNode(merge, p[1], p[2])]
  BY <1>1, TopLevel DEF Merges
<1> QED
  BY <1>2

-----------------------------------------------------------------------------
(* Entries.                                                                *)

LEMMA TreeEntries ==
  ASSUME NEW n \in Nodes
  PROVE  /\ <<<<>>, Kind(n)>> \in Tree[n]
         /\ ~IsDict(n) => Tree[n] = {<<<<>>, n>>} /\ Kind(n) = n /\ n # Empty /\ n # HasKeys
         /\ n = Empty => Tree[n] = {<<<<>>, Empty>>}
         /\ IsDict(n) => Kind(n) = IF n = Empty THEN Empty ELSE HasKeys
         /\ IsDict(n) =>
              \A a : a \in Tree[n] <=>
                \/ a = <<<<>>, Kind(n)>>
                \/ \E k \in DOMAIN n.map : \E b \in Tree[n.map[k]] : a = <<<<k, b[1]>>, b[2]>>
<1>1. Tree[n] = {<<<<>>, Kind(n)>>} \cup Below(Tree, n)
  BY TreeFacts DEF TreeAt
<1>2. CASE ~IsDict(n)
  <2>1. n \in [leaf : Values]
    BY <1>2, TopLevel, LevelFacts
  <2> QED
    BY <1>1, <1>2, <2>1, NodeKinds DEF Kind, Below
<1>3. CASE IsDict(n)
  <2>1. Kind(n) = IF n = Empty THEN Empty ELSE HasKeys
    BY <1>3 DEF Kind
  <2>2. \A a : a \in Below(Tree, n) <=>
          \E k \in DOMAIN n.map : \E b \in Tree[n.map[k]] : a = <<<<k, b[1]>>, b[2]>>
    BY <1>3 DEF Below
  <2>3. \A a : a \in Tree[n] <=>
          \/ a = <<<<>>, Kind(n)>>
          \/ \E k \in DOMAIN n.map : \E b \in Tree[n.map[k]] : a = <<<<k, b[1]>>, b[2]>>
    BY <1>1, <2>2
  <2>4. n = Empty => DOMAIN n.map = {} /\ Kind(n) = Empty
    BY <2>1, NodeKinds
  <2>5. n = Empty => \A a : a \in Tree[n] <=> a = <<<<>>, Empty>>
    BY <2>3, <2>4
  <2> QED
    BY <1>1, <1>3, <2>1, <2>3, <2>5
<1> QED
  BY <1>2, <1>3

OnePerPath(entries) == \A a, b \in entries : a[1] = b[1] => a[2] = b[2]

\* The entries are pairs, and no configuration has two at one path.
LEMMA NodeEntries ==
  \A n \in Nodes : OnePerPath(Tree[n]) /\ \A a \in Tree[n] : a = <<a[1], a[2]>>
<1> DEFINE Right(n) == OnePerPath(Tree[n]) /\ \A a \in Tree[n] : a = <<a[1], a[2]>>
           S == {d \in 0 .. Depth : \A n \in Level(d) : Right(n)}
<1>0. Depth \in Nat
  BY NodesAssumption
<1>1. ASSUME NEW d \in 0 .. Depth, NEW n \in Level(d),
             IsDict(n) => \A k \in DOMAIN n.map : Right(n.map[k])
      PROVE  Right(n)
  <2>1. n \in Nodes
    BY LevelFacts
  <2>2. CASE ~IsDict(n)
    <3>1. Tree[n] = {<<<<>>, n>>}
      BY <2>1, <2>2, TreeEntries
    <3> QED
      BY <3>1 DEF OnePerPath
  <2>3. CASE IsDict(n)
    <3>1. \A a : a \in Tree[n] <=>
            \/ a = <<<<>>, Kind(n)>>
            \/ \E k \in DOMAIN n.map : \E b \in Tree[n.map[k]] : a = <<<<k, b[1]>>, b[2]>>
      BY <2>1, <2>3, TreeEntries
    <3>2. ASSUME NEW a \in Tree[n], NEW b \in Tree[n], a[1] = b[1]
          PROVE  a[2] = b[2]
      <4>1. CASE a = <<<<>>, Kind(n)>> \/ b = <<<<>>, Kind(n)>>
        BY <3>1, <3>2, <4>1
      <4>2. CASE a # <<<<>>, Kind(n)>> /\ b # <<<<>>, Kind(n)>>
        <5>1. PICK k \in DOMAIN n.map : \E c \in Tree[n.map[k]] : a = <<<<k, c[1]>>, c[2]>>
          BY <3>1, <4>2
        <5>2. PICK l \in DOMAIN n.map : \E e \in Tree[n.map[l]] : b = <<<<l, e[1]>>, e[2]>>
          BY <3>1, <4>2
        <5>3. PICK c \in Tree[n.map[k]] : a = <<<<k, c[1]>>, c[2]>>
          BY <5>1
        <5>4. PICK e \in Tree[n.map[l]] : b = <<<<l, e[1]>>, e[2]>>
          BY <5>2
        <5>5. k = l /\ c[1] = e[1] /\ a[2] = c[2] /\ b[2] = e[2]
          BY <3>2, <5>3, <5>4
        <5>6. OnePerPath(Tree[n.map[k]])
          BY <1>1, <2>3
        <5> QED
          BY <5>5, <5>6 DEF OnePerPath
      <4> QED
        BY <4>1, <4>2
    <3>3. \A a \in Tree[n] : a = <<a[1], a[2]>>
      BY <3>1
    <3> QED
      BY <3>2, <3>3 DEF OnePerPath
  <2> QED
    BY <2>2, <2>3
<1> HIDE DEF Right
<1>2. 0 \in S
  <2>1. ASSUME NEW n \in Level(0), NEW k \in DOMAIN n.map, IsDict(n)
        PROVE  FALSE
    BY <1>0, <2>1, Children DEF MappingsOf
  <2> QED
    BY <1>0, <1>1, <2>1
<1>3. ASSUME NEW d \in 1 .. Depth, d - 1 \in S
      PROVE  d \in S
  <2>1. ASSUME NEW n \in Level(d), NEW k \in DOMAIN n.map, IsDict(n)
        PROVE  Right(n.map[k])
    BY <1>0, <1>3, <2>1, Children DEF MappingsOf
  <2> QED
    BY <1>0, <1>1, <2>1
<1> HIDE DEF S
<1>4. Depth \in S
  BY <1>0, <1>2, <1>3, AllDepths
<1> QED
  BY <1>4, TopLevel DEF S, Right

\* With nothing else there, or an empty mapping, a configuration stays what it is.
LEMMA Alone ==
  ASSUME NEW n \in Nodes
  PROVE  Together(Tree[n]) = Tree[n] /\ Together(Tree[n] \cup Tree[Empty]) = Tree[n]
<1>1. OnePerPath(Tree[n]) /\ <<<<>>, Kind(n)>> \in Tree[n]
  BY NodeEntries, TreeEntries
<1>2. Together(Tree[n]) = Tree[n]
  BY <1>1 DEF Together, OnePerPath
<1>3. Together(Tree[n] \cup Tree[Empty]) = Tree[n]
  <2>1. Tree[Empty] = {<<<<>>, Empty>>}
    BY TreeEntries, TopLevel DEF Level
  <2>2. ASSUME NEW a \in Tree[n]
        PROVE  a \in Together(Tree[n] \cup Tree[Empty])
    BY <1>1, <2>1 DEF Together, OnePerPath
  <2>3. ASSUME NEW a \in Together(Tree[n] \cup Tree[Empty])
        PROVE  a \in Tree[n]
    <3>1. CASE a = <<<<>>, Empty>>
      <4>1. Kind(n) = Empty
        BY <1>1, <2>3, <3>1 DEF Together
      <4> QED
        BY <1>1, <3>1, <4>1
    <3>2. CASE a # <<<<>>, Empty>>
      BY <2>1, <2>3, <3>2 DEF Together
    <3> QED
      BY <3>1, <3>2
  <2> QED
    BY <2>2, <2>3
<1> QED
  BY <1>2, <1>3

\* What gave way already may be left out.
LEMMA TogetherOnto ==
  ASSUME NEW new, NEW old
  PROVE  Together(new \cup Together(old)) = Together(new \cup old)
<1>1. ASSUME NEW a \in Together(new \cup Together(old))
      PROVE  a \in Together(new \cup old)
  <2>1. ASSUME a[2] = Empty, NEW b \in new \cup old, a[1] = b[1], b[2] # Empty
        PROVE  FALSE
    <3>1. b \in new \cup Together(old)
      BY <2>1 DEF Together
    <3> QED
      BY <1>1, <2>1, <3>1 DEF Together
  <2> QED
    BY <1>1, <2>1 DEF Together
<1>2. ASSUME NEW a \in Together(new \cup old)
      PROVE  a \in Together(new \cup Together(old))
  BY <1>2 DEF Together
<1> QED
  BY <1>1, <1>2

-----------------------------------------------------------------------------
(* What merge computes.                                                    *)

\* A leaf redefines every other node.
LEMMA LeafRedefines ==
  ASSUME NEW s \in Nodes, NEW t \in Nodes, ~IsDict(s)
  PROVE  Redefines(Tree[s], Tree[t]) <=> s # t
<1>1. Tree[s] = {<<<<>>, s>>} /\ s # Empty /\ s # HasKeys /\ Kind(s) = s
  BY TreeEntries
<1>2. <<<<>>, Kind(t)>> \in Tree[t] /\ OnePerPath(Tree[t])
  BY TreeEntries, NodeEntries
<1>3. s # t <=> s # Kind(t)
  <2>1. CASE ~IsDict(t)
    BY <2>1, TreeEntries
  <2>2. CASE IsDict(t)
    <3>1. Kind(t) \in {Empty, HasKeys}
      BY <2>2, TreeEntries
    <3> QED
      BY <1>1, <2>2, <3>1
  <2> QED
    BY <2>1, <2>2
<1>4. ASSUME s # Kind(t)
      PROVE  Redefines(Tree[s], Tree[t])
  BY <1>1, <1>2, <1>4 DEF Redefines, Conflict
<1>5. ASSUME s = Kind(t)
      PROVE  ~Redefines(Tree[s], Tree[t])
  BY <1>1, <1>2, <1>5 DEF Redefines, Conflict, OnePerPath
<1> QED
  BY <1>3, <1>4, <1>5

\* A mapping with keys redefines a leaf.
LEMMA LeafRedefined ==
  ASSUME NEW s \in Nodes, IsDict(s), s # Empty, NEW t \in Nodes, ~IsDict(t)
  PROVE  Redefines(Tree[s], Tree[t])
<1>1. <<<<>>, HasKeys>> \in Tree[s] /\ <<<<>>, t>> \in Tree[t] /\ t # Empty /\ t # HasKeys
  BY TreeEntries
<1>2. HasKeys # Empty
  BY NodeKinds
<1> QED
  BY <1>1, <1>2 DEF Redefines, Conflict

\* A mapping redefines another where it does at a key of both.
LEMMA MappingRedefines ==
  ASSUME NEW s \in Mappings, NEW t \in Mappings
  PROVE  Redefines(Tree[s], Tree[t]) <=>
           \E k \in DOMAIN s.map \cap DOMAIN t.map : Redefines(Tree[s.map[k]], Tree[t.map[k]])
<1>1. s \in Nodes /\ t \in Nodes /\ IsDict(s) /\ IsDict(t)
  BY TopLevel DEF MappingsOf
<1>2. ASSUME NEW n \in {s, t}
      PROVE  /\ Kind(n) \in {Empty, HasKeys}
             /\ \A a : a \in Tree[n] <=>
                  \/ a = <<<<>>, Kind(n)>>
                  \/ \E k \in DOMAIN n.map : \E b \in Tree[n.map[k]] : a = <<<<k, b[1]>>, b[2]>>
  <2>1. n \in Nodes /\ IsDict(n)
    BY <1>1
  <2>2. Kind(n) \in {Empty, HasKeys}
    BY <2>1, TreeEntries
  <2> QED
    BY <2>1, <2>2, TreeEntries
<1>3. ASSUME NEW a \in Tree[s], NEW b \in Tree[t], a[1] = b[1], Conflict(a[2], b[2])
      PROVE  \E k \in DOMAIN s.map \cap DOMAIN t.map : Redefines(Tree[s.map[k]], Tree[t.map[k]])
  <2>1. CASE a = <<<<>>, Kind(s)>> \/ b = <<<<>>, Kind(t)>>
    <3>1. a = <<<<>>, Kind(s)>> /\ b = <<<<>>, Kind(t)>>
      BY <1>2, <1>3, <2>1
    <3> QED
      BY <1>2, <1>3, <3>1 DEF Conflict
  <2>2. CASE a # <<<<>>, Kind(s)>> /\ b # <<<<>>, Kind(t)>>
    <3>1. PICK k \in DOMAIN s.map : \E c \in Tree[s.map[k]] : a = <<<<k, c[1]>>, c[2]>>
      BY <1>2, <2>2
    <3>2. PICK l \in DOMAIN t.map : \E e \in Tree[t.map[l]] : b = <<<<l, e[1]>>, e[2]>>
      BY <1>2, <2>2
    <3>3. PICK c \in Tree[s.map[k]] : a = <<<<k, c[1]>>, c[2]>>
      BY <3>1
    <3>4. PICK e \in Tree[t.map[l]] : b = <<<<l, e[1]>>, e[2]>>
      BY <3>2
    <3>5. k = l /\ c[1] = e[1] /\ Conflict(c[2], e[2])
      BY <1>3, <3>3, <3>4
    <3> QED
      BY <3>5 DEF Redefines
  <2> QED
    BY <2>1, <2>2
<1>4. ASSUME NEW k \in DOMAIN s.map \cap DOMAIN t.map, NEW c \in Tree[s.map[k]],
             NEW e \in Tree[t.map[k]], c[1] = e[1], Conflict(c[2], e[2])
      PROVE  Redefines(Tree[s], Tree[t])
  <2>1. <<<<k, c[1]>>, c[2]>> \in Tree[s] /\ <<<<k, e[1]>>, e[2]>> \in Tree[t]
    BY <1>2
  <2> QED
    BY <1>4, <2>1 DEF Redefines
<1> QED
  BY <1>3, <1>4 DEF Redefines

(* The contract of merge.                                                  *)
Merging(result, s, t, d) ==
  /\ result = Raised <=> Redefines(Tree[s], Tree[t])
  /\ result # Raised => /\ result \in Level(d) /\ (IsDict(t) => IsDict(result))
                        /\ Tree[result] = Together(Tree[s] \cup Tree[t])

MergesAll(d) ==
  \A s \in MappingsOf(d), t \in Level(d) : Merging(merge[<<s, t>>], s, t, d)

LEMMA KeyMerged ==
  ASSUME NEW d \in 1 .. Depth, MergesAll(d - 1), NEW s \in MappingsOf(d), NEW t \in MappingsOf(d),
         NEW k \in DOMAIN s.map
  PROVE  LET v == MergedKey(merge, s, t, k)
             there == k \in DOMAIN t.map
         IN  /\ v = Raised <=> there /\ Redefines(Tree[s.map[k]], Tree[t.map[k]])
             /\ v # Raised =>
                  /\ v \in NodesUpTo[d - 1]
                  /\ Tree[v] = Together(Tree[s.map[k]] \cup IF there THEN Tree[t.map[k]] ELSE {})
<1> DEFINE new == s.map[k]
           old == t.map[k]
           there == k \in DOMAIN t.map
           v == MergedKey(merge, s, t, k)
<1>0. d \in 0 .. Depth /\ d - 1 \in 0 .. Depth
  BY NodesAssumption
<1>1. /\ new \in NodesUpTo[d - 1] /\ new \in Level(d - 1) /\ new \in Nodes
      /\ IsDict(new) => new \in MappingsOf(d - 1)
  BY <1>0, Children
<1>2. there => old \in NodesUpTo[d - 1] /\ old \in Level(d - 1) /\ old \in Nodes
  BY <1>0, Children
<1>3. Empty \in Level(d - 1) /\ IsDict(Empty) /\ Empty \in Nodes /\ Empty \in Mappings
  BY <1>0, LevelFacts, NodeKinds DEF MappingsOf
<1>4. CASE IsDict(new)
  <2> DEFINE into == IF there THEN old ELSE Empty
  <2>1. v = merge[<<new, into>>]
    BY <1>4 DEF MergedKey
  <2>2. into \in Level(d - 1)
    BY <1>2, <1>3
  <2>3. Merging(v, new, into, d - 1)
    BY <1>1, <1>4, <2>1, <2>2 DEF MergesAll
  <2>4. Level(d - 1) = NodesUpTo[d - 1]
    <3>1. CASE d - 1 = 0
      BY <1>1, <1>4, <3>1, NodesByLevel, NodeKinds
    <3>2. CASE d - 1 # 0
      BY <1>0, <3>2, LevelFacts
    <3> QED
      BY <3>1, <3>2
  <2>5. v # Raised => v \in NodesUpTo[d - 1]
    BY <2>3, <2>4 DEF Merging
  <2>6. CASE there
    BY <2>3, <2>5, <2>6 DEF Merging
  <2>7. CASE ~there
    <3>1. new \in Mappings
      BY <1>0, <1>1, <1>4, LevelFacts
    <3>2. DOMAIN Empty.map = {}
      BY NodeKinds
    <3>3. ~Redefines(Tree[new], Tree[Empty])
      BY <1>3, <3>1, <3>2, MappingRedefines
    <3>4. Together(Tree[new] \cup Tree[Empty]) = Tree[new] /\ Together(Tree[new]) = Tree[new]
      BY <1>1, Alone
    <3>5. Tree[new] \cup {} = Tree[new]
      OBVIOUS
    <3> QED
      BY <2>3, <2>5, <2>7, <3>3, <3>4, <3>5 DEF Merging
  <2> QED
    BY <2>6, <2>7
<1>5. CASE ~IsDict(new)
  <2>1. v = IF there /\ old # new THEN Raised ELSE new
    BY <1>5 DEF MergedKey
  <2>2. there => (Redefines(Tree[new], Tree[old]) <=> new # old)
    BY <1>1, <1>2, <1>5, LeafRedefines
  <2>3. new # Raised
    BY <1>0, <1>1, <1>5, LevelFacts, NodeKinds
  <2>4. Together(Tree[new]) = Tree[new]
    BY <1>1, Alone
  <2> HIDE DEF new, old, there, v
  <2>5. v = Raised <=> there /\ Redefines(Tree[new], Tree[old])
    BY <2>1, <2>2, <2>3
  <2>6. v # Raised => v = new /\ (there => old = new)
    BY <2>1
  <2>7. Tree[new] \cup {} = Tree[new] /\ Tree[new] \cup Tree[new] = Tree[new]
    OBVIOUS
  <2>8. v # Raised => Tree[v] = Together(Tree[new] \cup IF there THEN Tree[old] ELSE {})
    BY <2>4, <2>6, <2>7
  <2> QED
    BY <1>1, <2>5, <2>6, <2>8 DEF new, old, there, v
<1> QED
  BY <1>4, <1>5

\* A source without keys leaves the destination as it is, whatever it is.
LEMMA EmptyMerged ==
  ASSUME NEW d \in 0 .. Depth, NEW t \in Level(d)
  PROVE  Merging(merge[<<Empty, t>>], Empty, t, d)
<1>1. Empty \in Mappings /\ t \in Nodes /\ Empty \in Nodes
  BY LevelFacts, TopLevel DEF MappingsOf, Level
<1>2. merge[<<Empty, t>>] = t
  BY <1>1, MergeFacts, NodeKinds DEF MergedNode
<1>3. Tree[Empty] = {<<<<>>, Empty>>}
  BY <1>1, TreeEntries
<1>4. ~Redefines(Tree[Empty], Tree[t])
  BY <1>3 DEF Redefines, Conflict
<1>5. t # Raised
  <2>1. CASE IsDict(t)
    BY <2>1 DEF IsDict, Raised
  <2>2. CASE ~IsDict(t)
    BY <2>2, LevelFacts, NodeKinds
  <2> QED
    BY <2>1, <2>2
<1>6. Together(Tree[t] \cup Tree[Empty]) = Tree[t]
  BY <1>1, Alone
<1>7. Tree[Empty] \cup Tree[t] = Tree[t] \cup Tree[Empty]
  OBVIOUS
<1> QED
  BY <1>2, <1>4, <1>5, <1>6, <1>7 DEF Merging

\* A mapping with keys cannot be merged into a leaf.
LEMMA LeafMerged ==
  ASSUME NEW d \in 0 .. Depth, NEW s \in MappingsOf(d), s # Empty, NEW t \in Level(d), ~IsDict(t)
  PROVE  Merging(merge[<<s, t>>], s, t, d)
<1>1. s \in Mappings /\ s \in Nodes /\ t \in Nodes /\ IsDict(s)
  BY LevelFacts DEF MappingsOf
<1>2. DOMAIN s.map # {}
  BY LevelFacts, MappingFacts
<1>3. merge[<<s, t>>] = Raised
  BY <1>1, <1>2, MergeFacts DEF MergedNode
<1>4. Redefines(Tree[s], Tree[t])
  BY <1>1, LeafRedefined
<1> QED
  BY <1>3, <1>4 DEF Merging

LEMMA MappingEntries ==
  ASSUME NEW n \in Nodes, IsDict(n), NEW kind, kind = Kind(n)
  PROVE  /\ kind = IF n = Empty THEN Empty ELSE HasKeys
         /\ \A a : a \in Tree[n] <=>
              \/ a = <<<<>>, kind>>
              \/ \E k \in DOMAIN n.map : \E b \in Tree[n.map[k]] : a = <<<<k, b[1]>>, b[2]>>
<1>1. \A a : a \in Tree[n] <=>
        \/ a = <<<<>>, Kind(n)>>
        \/ \E k \in DOMAIN n.map : \E b \in Tree[n.map[k]] : a = <<<<k, b[1]>>, b[2]>>
  BY TreeEntries
<1>2. Kind(n) = IF n = Empty THEN Empty ELSE HasKeys
  BY TreeEntries
<1> QED
  BY <1>1, <1>2

\* The entries of two mappings together are those of each key together.
LEMMA TogetherByKey ==
  ASSUME NEW s \in Mappings, s # Empty, NEW t \in Mappings, NEW r \in Nodes, IsDict(r), r # Empty,
         DOMAIN r.map = DOMAIN s.map \cup DOMAIN t.map,
         \A k \in DOMAIN r.map :
           Tree[r.map[k]] = Together((IF k \in DOMAIN s.map THEN Tree[s.map[k]] ELSE {})
                                       \cup IF k \in DOMAIN t.map THEN Tree[t.map[k]] ELSE {})
  PROVE  Tree[r] = Together(Tree[s] \cup Tree[t])
<1> DEFINE At(k) == (IF k \in DOMAIN s.map THEN Tree[s.map[k]] ELSE {})
                      \cup IF k \in DOMAIN t.map THEN Tree[t.map[k]] ELSE {}
           both == Tree[s] \cup Tree[t]
<1>1. s \in Nodes /\ t \in Nodes /\ IsDict(s) /\ IsDict(t)
  BY TopLevel DEF MappingsOf
<1>2. /\ \A a : a \in Tree[s] <=>
           \/ a = <<<<>>, HasKeys>>
           \/ \E k \in DOMAIN s.map : \E b \in Tree[s.map[k]] : a = <<<<k, b[1]>>, b[2]>>
      /\ \A a : a \in Tree[t] <=>
           \/ a = <<<<>>, Kind(t)>>
           \/ \E k \in DOMAIN t.map : \E b \in Tree[t.map[k]] : a = <<<<k, b[1]>>, b[2]>>
      /\ Kind(t) \in {Empty, HasKeys}
  <2>1. HasKeys = Kind(s)
    BY <1>1, MappingEntries
  <2>2. Kind(t) \in {Empty, HasKeys}
    BY <1>1, MappingEntries
  <2>3. \A a : a \in Tree[s] <=>
          \/ a = <<<<>>, HasKeys>>
          \/ \E k \in DOMAIN s.map : \E b \in Tree[s.map[k]] : a = <<<<k, b[1]>>, b[2]>>
    BY <1>1, <2>1, MappingEntries
  <2>4. \A a : a \in Tree[t] <=>
          \/ a = <<<<>>, Kind(t)>>
          \/ \E k \in DOMAIN t.map : \E b \in Tree[t.map[k]] : a = <<<<k, b[1]>>, b[2]>>
    BY <1>1, MappingEntries
  <2> QED
    BY <2>2, <2>3, <2>4
<1>3. \A a : a \in Tree[r] <=>
           \/ a = <<<<>>, HasKeys>>
           \/ \E k \in DOMAIN r.map : \E b \in Tree[r.map[k]] : a = <<<<k, b[1]>>, b[2]>>
  <2>1. HasKeys = Kind(r)
    BY MappingEntries
  <2> QED
    BY <2>1, MappingEntries
<1>4. HasKeys # Empty
  BY NodeKinds
<1>5. \A k \in DOMAIN r.map : \A b \in At(k) : <<<<k, b[1]>>, b[2]>> \in both
  BY <1>2
<1>6. ASSUME NEW a \in both, a[1] # <<>>
      PROVE  \E k \in DOMAIN r.map : \E b \in At(k) : a = <<<<k, b[1]>>, b[2]>>
  <2>1. CASE a \in Tree[s]
    BY <1>2, <1>6, <2>1
  <2>2. CASE a \in Tree[t]
    BY <1>2, <1>6, <2>2
  <2> QED
    BY <2>1, <2>2
<1>7. \A a \in both : a[1] = <<>> => a[2] \in {Empty, HasKeys} /\ a = <<<<>>, a[2]>>
  BY <1>2
<1>8. <<<<>>, HasKeys>> \in both
  BY <1>2
<1>9. \A k \in DOMAIN r.map : Tree[r.map[k]] = Together(At(k))
  OBVIOUS
<1> HIDE DEF At, both
<1>10. ASSUME NEW a \in Tree[r]
       PROVE  a \in Together(both)
  <2>1. CASE a = <<<<>>, HasKeys>>
    BY <1>4, <1>8, <2>1 DEF Together
  <2>2. CASE a # <<<<>>, HasKeys>>
    <3>1. PICK k \in DOMAIN r.map : \E b \in Tree[r.map[k]] : a = <<<<k, b[1]>>, b[2]>>
      BY <1>3, <2>2
    <3>2. PICK b \in Together(At(k)) : a = <<<<k, b[1]>>, b[2]>>
      BY <1>9, <3>1
    <3>3. a \in both
      BY <1>5, <3>2 DEF Together
    <3>4. ASSUME a[2] = Empty, NEW c \in both, a[1] = c[1]
          PROVE  c[2] = Empty
      <4>1. PICK l \in DOMAIN r.map : \E e \in At(l) : c = <<<<l, e[1]>>, e[2]>>
        BY <1>6, <3>2, <3>4
      <4>2. PICK e \in At(l) : c = <<<<l, e[1]>>, e[2]>>
        BY <4>1
      <4>3. l = k /\ e[1] = b[1] /\ b[2] = Empty
        BY <3>2, <3>4, <4>2
      <4> QED
        BY <3>2, <4>2, <4>3 DEF Together
    <3> QED
      BY <3>3, <3>4 DEF Together
  <2> QED
    BY <2>1, <2>2
<1>11. ASSUME NEW a \in Together(both)
       PROVE  a \in Tree[r]
  <2>0. a \in both
    BY DEF Together
  <2>1. CASE a[1] = <<>>
    <3>1. a[2] # Empty
      BY <1>4, <1>8, <2>1 DEF Together
    <3> QED
      BY <1>3, <1>7, <2>0, <2>1, <3>1
  <2>2. CASE a[1] # <<>>
    <3>1. PICK k \in DOMAIN r.map : \E b \in At(k) : a = <<<<k, b[1]>>, b[2]>>
      BY <1>6, <2>0, <2>2
    <3>2. PICK b \in At(k) : a = <<<<k, b[1]>>, b[2]>>
      BY <3>1
    <3>3. ASSUME b[2] = Empty, NEW e \in At(k), e[1] = b[1]
          PROVE  e[2] = Empty
      <4>1. <<<<k, e[1]>>, e[2]>> \in both
        BY <1>5, <3>3
      <4> QED
        BY <3>2, <3>3, <4>1 DEF Together
    <3>4. b \in Together(At(k))
      BY <3>3 DEF Together
    <3> QED
      BY <1>3, <1>9, <3>2, <3>4
  <2> QED
    BY <2>1, <2>2
<1> QED
  BY <1>10, <1>11 DEF both

LEMMA MappingMerged ==
  ASSUME NEW d \in 1 .. Depth, MergesAll(d - 1),
         NEW s \in MappingsOf(d), s # Empty, NEW t \in MappingsOf(d)
  PROVE  Merging(merge[<<s, t>>], s, t, d)
<1> DEFINE becomes(k) == MergedKey(merge, s, t, k)
           f == Over([k \in DOMAIN s.map |-> becomes(k)], t.map)
           result == merge[<<s, t>>]
<1>0. d \in 0 .. Depth /\ d # 0
  BY NodesAssumption
<1>1. /\ s \in Mappings /\ s \in Nodes /\ IsDict(s) /\ t \in Mappings /\ t \in Nodes /\ IsDict(t)
      /\ DOMAIN s.map \subseteq Keys /\ DOMAIN s.map # {} /\ DOMAIN t.map \subseteq Keys
  <2>1. s \in MappingsTo(NodesUpTo[d - 1]) /\ (t # Empty => t \in MappingsTo(NodesUpTo[d - 1]))
    BY <1>0, LevelFacts
  <2>2. DOMAIN s.map \subseteq Keys /\ DOMAIN s.map # {}
    BY <2>1, MappingFacts
  <2>3. DOMAIN t.map \subseteq Keys
    <3>1. CASE t = Empty
      BY <3>1, NodeKinds
    <3>2. CASE t # Empty
      BY <2>1, <3>2, MappingFacts
    <3> QED
      BY <3>1, <3>2
  <2>4. s \in Mappings /\ s \in Nodes /\ t \in Mappings /\ t \in Nodes
    BY <1>0, LevelFacts
  <2> QED
    BY <2>2, <2>3, <2>4 DEF MappingsOf
<1>2. result = IF \E k \in DOMAIN s.map : becomes(k) = Raised THEN Raised ELSE Dict(f)
  BY <1>1, MergeFacts DEF MergedNode
<1>3. ASSUME NEW k \in DOMAIN s.map
      PROVE  /\ becomes(k) = Raised <=> k \in DOMAIN t.map /\ Redefines(Tree[s.map[k]], Tree[t.map[k]])
             /\ becomes(k) # Raised =>
                  /\ becomes(k) \in NodesUpTo[d - 1]
                  /\ Tree[becomes(k)] =
                       Together(Tree[s.map[k]] \cup IF k \in DOMAIN t.map THEN Tree[t.map[k]] ELSE {})
  BY <1>0, KeyMerged
<1>4. result = Raised <=> Redefines(Tree[s], Tree[t])
  <2>1. Dict(f) # Raised
    BY NodeKinds
  <2>2. result = Raised <=> \E k \in DOMAIN s.map : becomes(k) = Raised
    BY <1>2, <2>1
  <2>3. Redefines(Tree[s], Tree[t]) <=> \E k \in DOMAIN s.map : becomes(k) = Raised
    BY <1>1, <1>3, MappingRedefines
  <2> QED
    BY <2>2, <2>3
<1>5. ASSUME result # Raised
      PROVE  result \in Level(d) /\ IsDict(result) /\ Tree[result] = Together(Tree[s] \cup Tree[t])
  <2>1. result = Dict(f) /\ \A k \in DOMAIN s.map : becomes(k) # Raised
    BY <1>2, <1>5
  <2>2. /\ DOMAIN f = DOMAIN s.map \cup DOMAIN t.map
        /\ \A k \in DOMAIN s.map : f[k] = becomes(k)
        /\ \A k \in DOMAIN t.map \ DOMAIN s.map : f[k] = t.map[k]
        /\ f = [k \in DOMAIN f |-> f[k]]
    BY DEF Over
  <2> HIDE DEF f, becomes
  <2>3. \A k \in DOMAIN f : f[k] \in NodesUpTo[d - 1]
    BY <1>0, <1>3, <2>1, <2>2, Children
  <2>4. Dict(f) \in MappingsTo(NodesUpTo[d - 1])
    <3>1. DOMAIN f \in SUBSET Keys /\ DOMAIN f # {}
      BY <1>1, <2>2
    <3>2. f \in [DOMAIN f -> NodesUpTo[d - 1]]
      BY <2>2, <2>3
    <3> QED
      BY <3>1, <3>2, MappingFacts
  <2>5. /\ result \in Level(d) /\ result \in Nodes /\ IsDict(result) /\ result.map = f
        /\ result # Empty
    <3>1. result \in NodesUpTo[d]
      BY <1>0, <2>1, <2>4, LevelFacts
    <3>2. IsDict(result) /\ result.map = f
      BY <2>1, NodeKinds
    <3>3. DOMAIN f # {}
      BY <1>1, <2>2
    <3> QED
      BY <1>0, <3>1, <3>2, <3>3, LevelFacts, NodeKinds DEF Level
  <2> HIDE DEF result
  <2>6. ASSUME NEW k \in DOMAIN f
        PROVE  Tree[f[k]] = Together((IF k \in DOMAIN s.map THEN Tree[s.map[k]] ELSE {})
                                       \cup IF k \in DOMAIN t.map THEN Tree[t.map[k]] ELSE {})
    <3>1. CASE k \in DOMAIN s.map
      BY <1>3, <2>1, <2>2, <3>1
    <3>2. CASE k \notin DOMAIN s.map
      <4>1. f[k] = t.map[k] /\ k \in DOMAIN t.map /\ t.map[k] \in Nodes
        BY <1>0, <2>2, <3>2, Children
      <4>2. Together(Tree[t.map[k]]) = Tree[t.map[k]]
        BY <4>1, Alone
      <4>3. {} \cup Tree[t.map[k]] = Tree[t.map[k]]
        OBVIOUS
      <4> QED
        BY <3>2, <4>1, <4>2, <4>3
    <3> QED
      BY <3>1, <3>2
  <2>7. Tree[result] = Together(Tree[s] \cup Tree[t])
    <3>1. DOMAIN result.map = DOMAIN s.map \cup DOMAIN t.map
      BY <2>2, <2>5
    <3>2. \A k \in DOMAIN result.map :
            Tree[result.map[k]] = Together((IF k \in DOMAIN s.map THEN Tree[s.map[k]] ELSE {})
                                            \cup IF k \in DOMAIN t.map THEN Tree[t.map[k]] ELSE {})
      BY <2>5, <2>6, Zenon
    <3>3. result \in Nodes /\ IsDict(result) /\ result # Empty /\ s \in Mappings /\ t \in Mappings
      BY <1>1, <2>5
    <3> QED
      BY <3>1, <3>2, <3>3, TogetherByKey
  <2> QED
    BY <2>5, <2>7
<1> QED
  BY <1>4, <1>5 DEF Merging

\* merge meets its contract, at every depth.
LEMMA MergesMeetContract ==
  ASSUME NEW s \in Mappings, NEW t \in Nodes
  PROVE  Merging(Merge(s, t), s, t, Depth)
<1> DEFINE S == {d \in 0 .. Depth : MergesAll(d)}
<1>0. Depth \in Nat
  BY NodesAssumption
<1>1. ASSUME NEW d \in 0 .. Depth, d = 0 \/ MergesAll(d - 1),
             NEW u \in MappingsOf(d), NEW v \in Level(d)
      PROVE  Merging(merge[<<u, v>>], u, v, d)
  <2>1. CASE u = Empty
    BY <2>1, EmptyMerged
  <2>2. CASE u # Empty /\ ~IsDict(v)
    BY <2>2, LeafMerged
  <2>3. CASE u # Empty /\ IsDict(v)
    <3>1. d \in 1 .. Depth /\ MergesAll(d - 1)
      BY <1>0, <1>1, <2>3, LevelFacts
    <3> QED
      BY <2>3, <3>1, MappingMerged DEF MappingsOf
  <2> QED
    BY <2>1, <2>2, <2>3
<1>2. 0 \in S
  BY <1>0, <1>1 DEF MergesAll
<1>3. ASSUME NEW d \in 1 .. Depth, d - 1 \in S
      PROVE  d \in S
  BY <1>0, <1>1, <1>3 DEF MergesAll
<1> HIDE DEF S
<1>4. Depth \in S
  BY <1>0, <1>2, <1>3, AllDepths
<1>5. MergesAll(Depth)
  BY <1>4 DEF S
<1> QED
  BY <1>5, TopLevel DEF MergesAll, Merge

-----------------------------------------------------------------------------
(* What becomes of the global configuration.                               *)

TypeOK == plugins \in Seq(Fragments) /\ merged \in Seq(Fragments)

(* So far the global configuration is the union of the fragments merged    *)
(* and none redefined what was there, or one of them did.                  *)
UnionOrClash ==
  /\ globalConfig = Raised => Clash
  /\ globalConfig # Raised =>
       /\ globalConfig \in Mappings
       /\ Tree[globalConfig] = Together(Entries(Len(merged)))
       /\ ~Clash

IInv == TypeOK /\ UnionOrClash

LEMMA BaseConfigFacts == BaseConfig \in Mappings /\ BaseConfig # Raised
<1> DEFINE inner == [l \in {"rootDirectory"} |-> Leaf("dynamic-plugins-root")]
           outer == [k \in {"dynamicPlugins"} |-> Dict(inner)]
<1>0. /\ {"rootDirectory"} \in SUBSET Keys /\ {"dynamicPlugins"} \in SUBSET Keys
      /\ Depth - 1 \in 1 .. Depth /\ Depth - 1 - 1 \in 0 .. Depth
  BY NodesAssumption
<1>1. Leaf("dynamic-plugins-root") \in NodesUpTo[Depth - 1 - 1]
  <2>1. Leaf("dynamic-plugins-root") \in [leaf : Values]
    BY NodesAssumption DEF Leaf
  <2>2. [leaf : Values] \subseteq NodesUpTo[Depth - 1 - 1]
    <3>1. CASE Depth - 1 - 1 = 0
      BY <3>1, NodesByLevel
    <3>2. CASE Depth - 1 - 1 # 0
      <4>1. Depth - 1 - 1 \in 1 .. Depth
        BY <3>2, NodesAssumption
      <4> QED
        BY <4>1, NodesByLevel DEF LevelAbove
    <3> QED
      BY <3>1, <3>2
  <2> QED
    BY <2>1, <2>2
<1>2. inner \in [{"rootDirectory"} -> NodesUpTo[Depth - 1 - 1]]
  BY <1>1
<1>3. Dict(inner) \in NodesUpTo[Depth - 1]
  <2>1. Dict(inner) \in MappingsTo(NodesUpTo[Depth - 1 - 1])
    BY <1>0, <1>2, MappingFacts
  <2> QED
    BY <1>0, <2>1, NodesByLevel DEF LevelAbove
<1>4. outer \in [{"dynamicPlugins"} -> NodesUpTo[Depth - 1]]
  BY <1>3
<1>5. Dict(outer) \in MappingsTo(NodesUpTo[Depth - 1])
  BY <1>0, <1>4, MappingFacts
<1>6. BaseConfig = Dict(outer)
  BY DEF BaseConfig
<1> QED
  BY <1>5, <1>6, NodeKinds DEF Mappings

(* Entries and Clash, of any sequence of fragments.                        *)
EntriesOf(seq, n) == Tree[BaseConfig] \cup UNION {Tree[seq[i]] : i \in 1 .. n}

ClashOf(seq) == \E i \in 1 .. Len(seq) : Redefines(Tree[seq[i]], Together(EntriesOf(seq, i - 1)))

\* One more fragment adds its entries, and clashes with those before it.
LEMMA OneMore ==
  ASSUME NEW seq \in Seq(Fragments), NEW f \in Fragments, NEW more, more = Append(seq, f)
  PROVE  /\ EntriesOf(more, Len(more)) = Tree[f] \cup EntriesOf(seq, Len(seq))
         /\ ClashOf(more) <=>
              ClashOf(seq) \/ Redefines(Tree[f], Together(EntriesOf(seq, Len(seq))))
<1> DEFINE n == Len(seq)
<1>1. /\ n \in Nat /\ Len(more) = n + 1 /\ more[n + 1] = f
      /\ \A i \in 1 .. n : more[i] = seq[i]
  OBVIOUS
<1> HIDE DEF n
<1>2. ASSUME NEW i \in 1 .. n + 1
      PROVE  EntriesOf(more, i - 1) = EntriesOf(seq, i - 1)
  <2>1. \A j \in 1 .. i - 1 : more[j] = seq[j]
    BY <1>1
  <2>2. {Tree[more[j]] : j \in 1 .. i - 1} = {Tree[seq[j]] : j \in 1 .. i - 1}
    BY <2>1
  <2> QED
    BY <2>2, Zenon DEF EntriesOf
<1>3. EntriesOf(more, n + 1) = Tree[f] \cup EntriesOf(seq, n)
  <2>1. \A a : a \in EntriesOf(more, n + 1) <=>
          a \in Tree[BaseConfig] \/ \E i \in 1 .. n + 1 : a \in Tree[more[i]]
    BY DEF EntriesOf
  <2>2. \A a : a \in EntriesOf(seq, n) <=>
          a \in Tree[BaseConfig] \/ \E i \in 1 .. n : a \in Tree[seq[i]]
    BY DEF EntriesOf
  <2>3. \A a : (\E i \in 1 .. n + 1 : a \in Tree[more[i]]) <=>
          a \in Tree[f] \/ \E i \in 1 .. n : a \in Tree[seq[i]]
    <3>1. 1 .. n + 1 = 1 .. n \cup {n + 1}
      BY <1>1
    <3> QED
      BY <1>1, <3>1, Zenon
  <2>4. \A a : a \in EntriesOf(more, n + 1) <=> a \in Tree[f] \/ a \in EntriesOf(seq, n)
    BY <2>1, <2>2, <2>3, Zenon
  <2> QED
    BY <2>4
<1>4. ClashOf(more) <=> ClashOf(seq) \/ Redefines(Tree[f], Together(EntriesOf(seq, n)))
  <2> DEFINE Clashes(i) == Redefines(Tree[more[i]], Together(EntriesOf(more, i - 1)))
             Before(i) == Redefines(Tree[seq[i]], Together(EntriesOf(seq, i - 1)))
             last == Redefines(Tree[f], Together(EntriesOf(seq, n)))
  <2>1. 1 .. n + 1 = 1 .. n \cup {n + 1} /\ n + 1 - 1 = n
    BY <1>1
  <2>2. \A i \in 1 .. n : Clashes(i) <=> Before(i)
    BY <1>1, <1>2, <2>1
  <2>3. Clashes(n + 1) <=> last
    BY <1>1, <1>2, <2>1
  <2>4. ClashOf(more) <=> \E i \in 1 .. n + 1 : Clashes(i)
    BY <1>1 DEF ClashOf
  <2>5. ClashOf(seq) <=> \E i \in 1 .. n : Before(i)
    BY DEF ClashOf, n
  <2> HIDE DEF Clashes, Before, last
  <2>6. ClashOf(more) <=> ClashOf(seq) \/ last
    BY <2>1, <2>2, <2>3, <2>4, <2>5
  <2> QED
    BY <2>6 DEF last
<1> QED
  BY <1>1, <1>3, <1>4 DEF n

LEMMA InitIInv == Init => IInv
<1> SUFFICES ASSUME Init
             PROVE  IInv
  OBVIOUS
<1>1. PICK n \in 0 .. MaxPlugins : plugins \in [1 .. n -> Fragments]
  BY DEF Init
<1>2. n \in Nat
  BY NodesAssumption
<1>3. plugins \in Seq(Fragments)
  BY <1>1, <1>2
<1>4. merged = <<>> /\ merged \in Seq(Fragments) /\ Len(merged) = 0 /\ 1 .. Len(merged) = {}
  BY DEF Init
<1>5. Entries(Len(merged)) = Tree[BaseConfig]
  <2>1. \A a : a \in Entries(Len(merged)) <=> a \in Tree[BaseConfig]
    BY <1>4 DEF Entries
  <2> QED
    BY <2>1
<1>6. Together(Tree[BaseConfig]) = Tree[BaseConfig]
  BY BaseConfigFacts, TopLevel, Alone DEF MappingsOf
<1>7. ~Clash
  BY <1>4 DEF Clash
<1> QED
  BY <1>3, <1>4, <1>5, <1>6, <1>7, BaseConfigFacts DEF Init, IInv, TypeOK, UnionOrClash

LEMMA NextIInv == IInv /\ [Next]_vars => IInv'
<1> SUFFICES ASSUME IInv, [Next]_vars
             PROVE  IInv'
  OBVIOUS
<1>1. CASE MaybeMergeConfig
  <2> DEFINE fragment == Head(plugins)
             before == Entries(Len(merged))
  <2>1. fragment \in Fragments /\ Tail(plugins) \in Seq(Fragments) /\ merged \in Seq(Fragments)
    BY <1>1 DEF IInv, TypeOK, MaybeMergeConfig
  <2>2. fragment \in Mappings
    BY <2>1, FragmentsAssumption
  <2>3. /\ globalConfig \in Mappings /\ globalConfig \in Nodes /\ IsDict(globalConfig)
        /\ Tree[globalConfig] = Together(before) /\ ~Clash
    BY <1>1, TopLevel DEF IInv, UnionOrClash, MaybeMergeConfig, MappingsOf
  <2>4. TypeOK'
    BY <1>1, <2>1 DEF IInv, TypeOK, MaybeMergeConfig
  <2>5. merged' = Append(merged, fragment)
    BY <1>1 DEF MaybeMergeConfig
  <2>6. /\ before = EntriesOf(merged, Len(merged)) /\ (Clash <=> ClashOf(merged))
        /\ Entries(Len(merged))' = EntriesOf(merged', Len(merged')) /\ (Clash' <=> ClashOf(merged'))
    BY DEF Entries, EntriesOf, Clash, ClashOf
  <2>7. Merging(globalConfig', fragment, globalConfig, Depth)
    BY <1>1, <2>2, <2>3, MergesMeetContract DEF MaybeMergeConfig
  <2> HIDE DEF fragment, before
  <2>8. /\ Entries(Len(merged))' = Tree[fragment] \cup before
        /\ Clash' <=> Redefines(Tree[fragment], Tree[globalConfig])
    BY <2>1, <2>3, <2>5, <2>6, OneMore
  <2>9. Together(Tree[fragment] \cup Tree[globalConfig]) = Together(Tree[fragment] \cup before)
    BY <2>3, TogetherOnto
  <2>10. (globalConfig = Raised => Clash)'
    BY <2>7, <2>8 DEF Merging
  <2>11. globalConfig' # Raised => globalConfig' \in Mappings
    BY <2>3, <2>7, TopLevel DEF Merging, MappingsOf
  <2>12. globalConfig' # Raised => Tree[globalConfig'] = Together(Entries(Len(merged))') /\ ~Clash'
    BY <2>7, <2>8, <2>9 DEF Merging
  <2>13. Together(Entries(Len(merged))') = Together(Entries(Len(merged)))'
    BY DEF Together
  <2> QED
    BY <2>4, <2>10, <2>11, <2>12, <2>13 DEF IInv, UnionOrClash
<1>2. CASE UNCHANGED vars
  BY <1>2 DEF vars, IInv, TypeOK, UnionOrClash, Clash, Entries, Together, Redefines
<1> QED
  BY <1>1, <1>2 DEF Next

(* What is left of the fragments: if no merge raised, the global           *)
(* configuration holds exactly the entries of the base configuration and   *)
(* of every fragment merged by maybeMergeConfig(), an empty mapping giving *)
(* way to any value, for any number of plugins and whatever the depth of   *)
(* their configurations.                                                   *)
THEOREM UnionOfFragmentsAlways == Spec => []UnionOfFragments
<1>1. IInv => UnionOfFragments
  BY DEF IInv, UnionOrClash, UnionOfFragments
<1> QED
  BY <1>1, InitIInv, NextIInv, PTL DEF Spec

(* merge() raises exactly when a fragment gives a path another value than  *)
(* the base configuration and the fragments before it together; so it      *)
(* raises, in whatever order they come, once two of them give one path     *)
(* different values that are no empty mappings.                            *)
THEOREM RaisesIffClashAlways == Spec => []RaisesIffClash
<1>1. ASSUME IInv
      PROVE  RaisesIffClash
  <2>1. (globalConfig = Raised) <=> Clash
    BY <1>1 DEF IInv, UnionOrClash
  <2>2. ASSUME globalConfig # Raised,
               NEW a \in Entries(Len(merged)), NEW b \in Entries(Len(merged)),
               a[1] = b[1], a[2] # b[2], a[2] # Empty, b[2] # Empty
        PROVE  FALSE
    <3>1. globalConfig \in Nodes /\ Tree[globalConfig] = Together(Entries(Len(merged)))
      BY <1>1, <2>2, TopLevel DEF IInv, UnionOrClash, MappingsOf
    <3>2. a \in Tree[globalConfig] /\ b \in Tree[globalConfig]
      BY <2>2, <3>1 DEF Together
    <3> QED
      BY <2>2, <3>1, <3>2, NodeEntries DEF OnePerPath
  <2> QED
    BY <2>1, <2>2 DEF RaisesIffClash
<1> QED
  BY <1>1, InitIInv, NextIInv, PTL DEF Spec
=============================================================================
