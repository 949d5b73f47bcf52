--------------------------- MODULE MCConfigMerge ---------------------------
(* Mappings over two keys, one nested level with one key or none, and two  *)
(* values.                                                                 *)
EXTENDS ConfigMerge

MCKeys == {"dynamicPlugins", "app", "rootDirectory"}

Leaves == {Leaf("x"), Leaf("y")}

Inner == Leaves \cup {Empty} \cup {Dict([k \in {"rootDirectory"} |-> v]) : v \in Leaves}

MCFragments == {Dict(f) : f \in UNION {[S -> Inner] : S \in SUBSET {"dynamicPlugins", "app"}}}

=============================================================================
