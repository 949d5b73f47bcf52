---------------------------- MODULE ConfigMerge ----------------------------
(***************************************************************************)
(* merge() and maybeMergeConfig() of docker/install-dynamic-plugins.py:    *)
(* the plugins' configuration fragments are merged one after another into  *)
(* the global configuration, in place.                                     *)
(*                                                                         *)
(* A YAML value is a node: [leaf |-> v] for anything that is not a         *)
(* mapping, [map |-> f] for a mapping f from keys to nodes.                *)
(***************************************************************************)
EXTENDS Naturals, Sequences

CONSTANTS
  Keys, Values,
  Depth,        \* how deep configurations are nested
  Fragments,    \* the pluginConfig values that occur; all are mappings
  MaxPlugins    \* bound: how many enabled plugins carry one

Leaf(v) == [leaf |-> v]
Dict(f) == [map |-> f]
Empty == Dict(<<>>)
IsDict(node) == "map" \in DOMAIN node

Raised == [raised |-> TRUE]

MappingsTo(nodes) == {Empty} \cup [map : UNION {[S -> nodes] : S \in (SUBSET Keys) \ {{}}}]

(* The nodes of each depth.                                                *)
NodesUpTo[d \in 0 .. Depth] ==
  [leaf : Values] \cup IF d = 0 THEN {} ELSE MappingsTo(NodesUpTo[d - 1])

Nodes == NodesUpTo[Depth]
Mappings == MappingsTo(NodesUpTo[Depth - 1])

\* {'dynamicPlugins': {'rootDirectory': 'dynamic-plugins-root'}}
BaseConfig ==
  Dict([k \in {"dynamicPlugins"} |->
          Dict([l \in {"rootDirectory"} |-> Leaf("dynamic-plugins-root")])])

ASSUME NodesAssumption ==
  /\ {"dynamicPlugins", "rootDirectory"} \subseteq Keys /\ "dynamic-plugins-root" \in Values
  /\ Depth \in Nat /\ Depth >= 2 /\ MaxPlugins \in Nat
ASSUME FragmentsAssumption == \A f \in Fragments : f \in Mappings

-----------------------------------------------------------------------------
\* What f says, and for the other keys what g says.
Over(f, g) == [k \in DOMAIN f \cup DOMAIN g |-> IF k \in DOMAIN f THEN f[k] ELSE g[k]]

(* What destination[k] becomes: a mapping is merged into the one that is   *)
(* there or into a new one, with merge itself.                             *)
MergedKey(merge, source, destination, k) ==
  LET there == k \in DOMAIN destination.map
  IN  IF IsDict(source.map[k])
      THEN merge[<<source.map[k], IF there THEN destination.map[k] ELSE Empty>>]
      ELSE IF there /\ destination.map[k] # source.map[k] THEN Raised
      ELSE source.map[k]

(* The node destination becomes, or Raised. Against a destination that is  *)
(* no mapping the first key of the source raises a Python error, and a     *)
(* source without keys does not even look.                                 *)
MergedNode(merge, source, destination) ==
  LET keys == DOMAIN source.map
      becomes(k) == MergedKey(merge, source, destination, k)
  IN  IF keys = {} THEN destination
      ELSE IF ~IsDict(destination) \/ \E k \in keys : becomes(k) = Raised THEN Raised
      ELSE Dict(Over([k \in keys |-> becomes(k)], destination.map))

(* merge(source, destination)                                              *)
merge[p \in Mappings \X Nodes] == MergedNode(merge, p[1], p[2])

Merge(source, destination) == merge[<<source, destination>>]

-----------------------------------------------------------------------------
VARIABLES
  plugins,        \* the fragments still to be merged, in the order of allPlugins
  merged,         \* history: those merged already, in order
  globalConfig    \* the global configuration, or Raised

vars == <<plugins, merged, globalConfig>>

Init ==
  /\ plugins \in UNION {[1 .. n -> Fragments] : n \in 0 .. MaxPlugins}
  /\ merged = <<>>
  /\ globalConfig = BaseConfig

\* Mutant: dict.update, the first mapping of a key wins.
MaybeMergeConfigShallow ==
  /\ plugins # <<>>
  /\ globalConfig # Raised
  /\ globalConfig' = Dict(Over(globalConfig.map, Head(plugins).map))
  /\ plugins' = Tail(plugins)
  /\ merged' = Append(merged, Head(plugins))

\* Mutant: any key that is there already is an error.
MaybeMergeConfigStrict ==
  /\ plugins # <<>>
  /\ globalConfig # Raised
  /\ globalConfig' =
       IF DOMAIN Head(plugins).map \cap DOMAIN globalConfig.map # {}
       THEN Raised ELSE Merge(Head(plugins), globalConfig)
  /\ plugins' = Tail(plugins)
  /\ merged' = Append(merged, Head(plugins))

MaybeMergeConfig ==
  /\ plugins # <<>>
  /\ globalConfig # Raised
  /\ globalConfig' = Merge(Head(plugins), globalConfig)
  /\ plugins' = Tail(plugins)
  /\ merged' = Append(merged, Head(plugins))

Next == MaybeMergeConfig

Spec == Init /\ [][Next]_vars

-----------------------------------------------------------------------------
(* The reference: a configuration is the set of its leaves and of its      *)
(* mappings, with and without keys, each with its path. A path is <<>>, or *)
(* a key and a path.                                                       *)
HasKeys == [keys |-> TRUE]

Kind(node) == IF IsDict(node) /\ node # Empty THEN HasKeys ELSE node

Below(tree, node) ==
  IF IsDict(node)
  THEN UNION {{<<<<k, a[1]>>, a[2]>> : a \in tree[node.map[k]]} : k \in DOMAIN node.map}
  ELSE {}

Tree[node \in Nodes] == {<<<<>>, Kind(node)>>} \cup Below(Tree, node)

(* Entries together: an empty mapping gives way to whatever else there is. *)
Together(entries) ==
  {a \in entries : a[2] = Empty => \A b \in entries : a[1] = b[1] => b[2] = Empty}

(* The script's idea of a conflict: a value that differs from the one that *)
(* is there. A mapping may get its first key, and an empty mapping asks    *)
(* for nothing.                                                            *)
Conflict(new, old) == new # old /\ new # Empty /\ ~(new = HasKeys /\ old = Empty)

Redefines(new, old) == \E a \in new, b \in old : a[1] = b[1] /\ Conflict(a[2], b[2])

\* The entries of the base configuration and the first n fragments.
Entries(n) == Tree[BaseConfig] \cup UNION {Tree[merged[i]] : i \in 1 .. n}

Clash == \E i \in 1 .. Len(merged) : Redefines(Tree[merged[i]], Together(Entries(i - 1)))

(* A merge that goes through loses nothing and invents nothing: the global *)
(* configuration is the union of the fragments, whatever their order. All  *)
(* that is lost is an empty mapping where another fragment has a value.    *)
UnionOfFragments ==
  globalConfig # Raised => Tree[globalConfig] = Together(Entries(Len(merged)))

(* "defined differently for 2 dynamic plugins": the script raises exactly  *)
(* when a fragment gives a path another value than those before it         *)
(* together. For all values but the empty mapping it makes no difference   *)
(* which of two fragments comes first: {} after a value is passed over,    *)
(* and a value after {} raises.                                            *)
RaisesIffClash ==
  /\ (globalConfig = Raised) <=> Clash
  /\ (\E a, b \in Entries(Len(merged)) :
         a[1] = b[1] /\ a[2] # b[2] /\ a[2] # Empty /\ b[2] # Empty) => globalConfig = Raised
=============================================================================
