---------------------------- MODULE SidebarMenu ----------------------------
(***************************************************************************)
(* The main sidebar of packages/app: extractMenuItems and buildTree turn   *)
(* what all plugins configure into a tree of menu items, and Root renders  *)
(* three levels of it, asks whether the user may see the RBAC item, and    *)
(* takes that item out of the shared tree if not.                          *)
(*                                                                         *)
(* An item is a function from the names of the fields it has to their      *)
(* values; frontend is the sequence of the plugins' entries in the order   *)
(* of Object.entries. A route has a menuItem field or not; static says     *)
(* that its path holds neither ':' nor '*', name is getNameFromPath of it. *)
(***************************************************************************)
EXTENDS Integers, Sequences, SequencesExt, StableSort

CONSTANT Frontends      \* the values that dynamicPlugins.frontend takes

ASSUME FrontendsAssumption ==
  \A f \in Frontends : \A i \in DOMAIN f : {"routes", "menuItems"} \subseteq DOMAIN f[i]

Field(f, name, default) == IF name \in DOMAIN f THEN f[name] ELSE default

MapSeq(Op(_), s) == [i \in DOMAIN s |-> Op(s[i])]

Name(item) == item.name
Parent(item) == Field(item, "parent", "")
Priority(item) == Field(item, "priority", 0)

RouteItem(route) ==
  [name |-> route.name,
   title |-> Field(route.menuItem, "text", ""),
   enabled |-> Field(route.menuItem, "enabled", TRUE)]

HasMenuItem(route) == "menuItem" \in DOMAIN route /\ route.static

PluginItems(plugin) ==
  MapSeq(RouteItem, SelectSeq(plugin.routes, HasMenuItem)) \o plugin.menuItems

Items(frontend) == FlattenSeq(MapSeq(PluginItems, frontend))

\* Items have names: the path "/", of which none is left, has no item here.
ASSUME ItemsAssumption ==
  \A f \in Frontends :
    /\ Items(f) \in Seq(ToSet(Items(f)))
    /\ \A item \in ToSet(Items(f)) :
         /\ "name" \in DOMAIN item /\ item.name # ""
         /\ "priority" \in DOMAIN item => item.priority \in Int

-----------------------------------------------------------------------------
(* buildTree                                                               *)

\* Mutant: a later mention of a name replaces the earlier one as a whole.
OverlayReplace(list, item) ==
  IF \A i \in DOMAIN list : list[i].name # item.name
  THEN Append(list, item)
  ELSE [i \in DOMAIN list |-> IF list[i].name = item.name THEN item ELSE list[i]]

Spread(old, new) ==
  [field \in DOMAIN old \cup DOMAIN new |-> IF field \in DOMAIN new THEN new[field] ELSE old[field]]

(* itemMap[name] = {...itemMap[name], ...item}, in the order of the names' *)
(* first mention.                                                          *)
Overlay(list, item) ==
  IF \A i \in DOMAIN list : list[i].name # item.name
  THEN Append(list, item)
  ELSE [i \in DOMAIN list |-> IF list[i].name = item.name THEN Spread(list[i], item) ELSE list[i]]

ItemMap(frontend) ==
  LET items == Items(frontend)
      map[n \in 0 .. Len(items)] == IF n = 0 THEN <<>> ELSE Overlay(map[n - 1], items[n])
  IN  map[Len(items)]

Kept(item) == Field(item, "enabled", TRUE) # FALSE /\ Field(item, "title", "") # ""

\* Mutant: of two items of a priority the later one goes first.
GoesFirstLater(map, i, j) ==
  Priority(map[i]) > Priority(map[j]) \/ (Priority(map[i]) = Priority(map[j]) /\ i > j)

(* compareMenuItems, in a stable sort                                      *)
GoesFirst(map, i, j) ==
  Priority(map[i]) > Priority(map[j]) \/ (Priority(map[i]) = Priority(map[j]) /\ i < j)

(* The items of a parent, "" for the top level, which are sorted after     *)
(* each push, or once. A parent that is not kept has children too, and is  *)
(* in no list itself.                                                      *)
Siblings(frontend, parent) ==
  LET map == ItemMap(frontend)
      places == {i \in DOMAIN map : Kept(map[i]) /\ Parent(map[i]) = parent}
      before == {p \in places \X places : GoesFirst(map, p[1], p[2])}
  IN  MapSeq(Name, Taken(map, Arranged(places, before)))

NamesOf(frontend) == ToSet(MapSeq(Name, Items(frontend)))

-----------------------------------------------------------------------------
VARIABLES
  frontend,             \* dynamicPlugins.frontend
  showAdministration,   \* app.sidebar.administration
  pc,                   \* "starting", "extracted", "mounted", "crashed"
  tree,                 \* the top level of menuItems
  children,             \* children[name]: the children of that item
  permission,           \* the reply to policy.entity.create: "loading", "allowed", "denied"
  denied                \* history: the permission was denied at some time

vars == <<frontend, showAdministration, pc, tree, children, permission, denied>>

Init ==
  /\ frontend \in Frontends
  /\ showAdministration \in BOOLEAN
  /\ pc = "starting"
  /\ tree = <<>> /\ children = <<>>
  /\ permission = "loading" /\ denied = FALSE

(* initializeRemoteModules hands the tree to DynamicRootContext.           *)
Extract ==
  /\ pc = "starting"
  /\ pc' = "extracted"
  /\ tree' = Siblings(frontend, "")
  /\ children' = [n \in NamesOf(frontend) |-> Siblings(frontend, n)]
  /\ UNCHANGED <<frontend, showAdministration, permission, denied>>

(* The first render of Root; the permission is being asked for.            *)
Mount ==
  /\ pc = "extracted"
  /\ pc' = "mounted"
  /\ UNCHANGED <<frontend, showAdministration, tree, children, permission, denied>>

\* The bottom section takes rbac out of the children of its first item.
Strip(list) == Picked(list, {i \in DOMAIN list : list[i] # "rbac"})

StripsRbac(reply) == reply = "denied" /\ showAdministration

AdminThere == "admin" \in ToSet(tree)

\* Mutant: all the children of admin go.
RenderAgainEmpties(reply) ==
  /\ pc = "mounted" /\ permission # reply
  /\ StripsRbac(reply) => AdminThere
  /\ permission' = reply
  /\ children' = IF StripsRbac(reply) THEN [children EXCEPT !["admin"] = <<>>] ELSE children
  /\ denied' = (denied \/ reply = "denied")
  /\ UNCHANGED <<frontend, showAdministration, pc, tree>>

(* A reply arrives, the first one or that of a later revalidation, and     *)
(* Root renders again. The children are replaced in the tree that all      *)
(* later renders use.                                                      *)
RenderAgain(reply) ==
  /\ pc = "mounted" /\ permission # reply
  /\ StripsRbac(reply) => AdminThere
  /\ permission' = reply
  /\ children' = IF StripsRbac(reply) THEN [children EXCEPT !["admin"] = Strip(@)] ELSE children
  /\ denied' = (denied \/ reply = "denied")
  /\ UNCHANGED <<frontend, showAdministration, pc, tree>>

(* menuItemArray[0] is undefined when no admin item is on the top level:   *)
(* Root throws, and the page with it.                                      *)
RenderThrows(reply) ==
  /\ pc = "mounted" /\ permission # reply
  /\ StripsRbac(reply) /\ ~AdminThere
  /\ pc' = "crashed"
  /\ permission' = reply
  /\ denied' = TRUE
  /\ UNCHANGED <<frontend, showAdministration, tree, children>>

Next ==
  \/ Extract \/ Mount
  \/ \E reply \in {"allowed", "denied"} : RenderAgain(reply) \/ RenderThrows(reply)

Spec == Init /\ [][Next]_vars

-----------------------------------------------------------------------------
(* The items of three levels, each with its ancestors.                     *)
ThreeLevels(top, kids) ==
  LET first == {<<n>> : n \in top}
      below(chains) == UNION {{Append(c, n) : n \in kids[Last(c)]} : c \in chains}
  IN  first \cup below(first) \cup below(below(first))

(* What Root renders.                                                      *)
Chains == ThreeLevels(ToSet(tree), [n \in DOMAIN children |-> ToSet(children[n])])

Sidebar == {c \in Chains : c[1] = "admin" => showAdministration}

(* The reference: the value of a field is the one that is mentioned last,  *)
(* and an item is placed when it and its ancestors up to the top level are *)
(* enabled and have titles.                                                *)
Effective(name, field, default) ==
  LET items == Items(frontend)
      mentions == {i \in DOMAIN items : items[i].name = name /\ field \in DOMAIN items[i]}
  IN  IF mentions = {} THEN default
      ELSE items[CHOOSE i \in mentions : \A j \in mentions : j <= i][field]

FirstMention(name) ==
  CHOOSE i \in DOMAIN Items(frontend) :
    /\ Items(frontend)[i].name = name
    /\ \A j \in 1 .. i - 1 : Items(frontend)[j].name # name

Placeable ==
  LET names == {n \in NamesOf(frontend) : Effective(n, "enabled", TRUE) # FALSE
                                            /\ Effective(n, "title", "") # ""}
      below(parent) == {n \in names : Effective(n, "parent", "") = parent}
  IN  {c \in ThreeLevels(below(""), [n \in names |-> below(n)]) : c[1] = "admin" => showAdministration}

IsRbac(chain) == Len(chain) > 1 /\ chain[1] = "admin" /\ chain[2] = "rbac"

(* docs/dynamic-plugins/frontend-plugin-wiring.md, Menu items: wherever    *)
(* the fields of an item are spread over plugins, and whichever plugin     *)
(* comes first, it is in the sidebar once, below its parent, if it and its *)
(* ancestors are enabled and have a title, and it is not there otherwise.  *)
Placed ==
  pc = "mounted" /\ ~denied =>
    /\ Sidebar = Placeable
    /\ IsInjective(tree) /\ \A n \in DOMAIN children : IsInjective(children[n])

(* Of two siblings the one with the higher priority comes first, of equal  *)
(* ones the one mentioned first, whenever items are stripped.              *)
Ordered ==
  pc \in {"extracted", "mounted"} =>
    \A list \in {tree} \cup {children[n] : n \in DOMAIN children} :
      \A i, j \in DOMAIN list : i < j =>
        LET priority(n) == Effective(n, "priority", 0)
        IN  \/ priority(list[i]) > priority(list[j])
            \/ /\ priority(list[i]) = priority(list[j])
               /\ FirstMention(list[i]) < FirstMention(list[j])

(* Once the permission was denied, the RBAC item and what is below it are  *)
(* gone for the rest of the session, and nothing else is.                  *)
OnlyRbacStripped ==
  pc = "mounted" /\ denied /\ showAdministration =>
    Sidebar = {c \in Placeable : ~IsRbac(c)}

(* docs/dynamic-plugins/frontend-plugin-wiring.md: "enabled: allows user   *)
(* to remove a menuItem from sidebar when it is set to false". Whichever   *)
(* items are removed, the page is rendered.                                *)
Removable == pc # "crashed"
=============================================================================
