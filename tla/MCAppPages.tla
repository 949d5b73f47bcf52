----------------------------- MODULE MCAppPages -----------------------------
(* The sidebar over the frontends of MCSidebarMenu; a page of any kind of  *)
(* entity, under overrides that reorder, remove, move and add tabs, with   *)
(* cards of all conditions; a table of up to six plugins, two a page; up   *)
(* to three providers that need each other or not, with pages that need    *)
(* them.                                                                   *)
EXTENDS AppPages, MCSidebarMenu

Entity(kind, type, annotations, marks) ==
  [kind |-> kind, type |-> type, annotations |-> annotations, marks |-> marks]

MCEntities ==
  {Entity("component", "service", {"ci"}, {"orphan", "links"}),
   Entity("component", "library", {}, {"relationWarnings"}),
   Entity("template", "service", {"ci"}, {"processingErrors"})}
    \cup {Entity(k, "none", {}, {}) : k \in {"api", "system", "group", "user", "domain", "resource"}}

Override(path, mountPoint, priority) ==
  [path |-> path, mountPoint |-> mountPoint, priority |-> priority]

MCTabSets ==
  {<<>>,
   <<Override("/ci", "entity.page.ci", 2), Override("/", "entity.page.overview", 1),
     Override("/mine", "entity.page.mine", 1)>>,
   <<Override("/api", "entity.page.mine", 0), Override("/docs", "entity.page.docs", -1),
     Override("/cd", "entity.page.ci", 3), Override("/late", "entity.page.late", -2)>>}

Kind(kinds) == [is |-> "kind", of |-> kinds]
Type(types) == [is |-> "type", of |-> types]
Annotated(key) == [is |-> "annotation", of |-> key]
Function(of, looksUpApi) == [is |-> "function", of |-> of, looksUpApi |-> looksUpApi]
Unknown == [is |-> "object"]

Fragile == Function([component |-> "throws", api |-> "yes"], FALSE)
Available == Function([component |-> "yes", group |-> "yes"], TRUE)

MCTests ==
  {<<Kind({"component", "api"}), Annotated("ci")>>, <<Fragile, Kind({"component"})>>,
   <<Type({"service"}), Unknown>>, <<Available>>, <<Kind({"group"}), Available>>}

Card(quantifier, tests) == [if |-> [quantifier |-> quantifier, tests |-> tests]]

MCCards == {Card(q, t) : q \in {"allOf", "anyOf", "oneOf"}, t \in MCTests} \cup {Card("none", <<>>)}

MCMountPoints ==
  {[m \in {} |-> <<>>], "entity.page.docs" :> <<Card("none", <<>>)>>}
    \cup {n :> <<c, d>> : n \in {"entity.page.ci", "entity.page.mine"}, c \in MCCards,
                          d \in {Card("none", <<>>), Card("anyOf", <<Fragile, Kind({"system"})>>)}}

Loaded(names) ==
  LET s == SetToSeq(names) IN [i \in DOMAIN s |-> [name |-> s[i], version |-> 1 + (s[i] % 2)]]

\* 2, 5 and 6 are preinstalled; 3, 1 and 4 are not.
MCInternalPlugins == <<6, 2, 5>>
MCLoadedLists == {<<>>} \cup {Loaded({3, 6, 2} \cup s) : s \in SUBSET {1, 4}} \cup {Loaded({5, 2})}
MCAllNames == 1 .. 6
MCSearches == {MCAllNames, {2, 3, 4, 6}, {5}}

Needing(id, needs) == [id |-> id, needs |-> needs]

MCProviders ==
  {<<>>} \cup {<<Needing("a", {}), Needing("b", s), Needing("c", t)>> :
              s \in SUBSET {"a"}, t \in SUBSET {"a", "b"}}
         \cup {<<Needing("a", {"b"}), Needing("b", {})>>}

\* A page of a plugin's own, one with a boundary, and one for a path there is.
MCRoutes(needs) ==
  <<[path |-> "/plain", needs |-> needs, extension |-> FALSE],
    [path |-> "/wrapped", needs |-> {"a", "b", "c"}, extension |-> TRUE],
    [path |-> "/catalog", needs |-> {"none"}, extension |-> FALSE]>>

MCShells ==
  {[providers |-> p, routes |-> MCRoutes(n)] : p \in MCProviders, n \in {{}, {"a"}, {"b"}}}
=============================================================================
