--------------------------- MODULE MCSidebarMenu ---------------------------
(* The built-in entries of App.tsx, then those of up to MaxPlugins plugins *)
(* in any order: the RBAC plugin, nested items, priorities, a cycle of     *)
(* parents, an unknown parent and entries that remove items.               *)
EXTENDS SidebarMenu

CONSTANT MaxPlugins     \* bound: how many further plugins have an entry

Plugin(routes, menuItems) == [routes |-> routes, menuItems |-> menuItems]
Item(name, fields) == [name |-> name] @@ fields

Home == Plugin(<<>>, <<Item("default.home", [title |-> "Home", priority |-> 2]),
                       Item("default.apis", [title |-> "APIs", priority |-> 1])>>)
Extensions == Plugin(
  <<[name |-> "extensions", static |-> TRUE, menuItem |-> [text |-> "Plugins"]]>>,
  <<Item("admin", [title |-> "Administration"]),
    Item("extensions", [parent |-> "admin", title |-> "Extensions"])>>)
Rbac == Plugin(<<[name |-> "rbac", static |-> TRUE, menuItem |-> [text |-> "RBAC"]],
                 [name |-> "roles", static |-> FALSE, menuItem |-> [text |-> "Roles"]]>>,
               <<Item("rbac", [parent |-> "admin"])>>)
Roles == Plugin(<<[name |-> "users", static |-> TRUE]>>,
                <<Item("roles", [title |-> "Roles", parent |-> "rbac"]),
                  Item("audit", [title |-> "Audit", parent |-> "roles"])>>)
Favourites == Plugin(
  <<[name |-> "foo", static |-> TRUE, menuItem |-> [text |-> "Foo"]],
    [name |-> "bar", static |-> TRUE, menuItem |-> [text |-> "Bar", enabled |-> FALSE]]>>,
  <<Item("foo", [parent |-> "favourites"]), Item("favourites", [title |-> "Favourites"])>>)
Reordered == Plugin(
  <<[name |-> "foo", static |-> TRUE, menuItem |-> [importName |-> "FooItem"]]>>,
  <<Item("bar", [parent |-> "favourites", priority |-> 0, enabled |-> TRUE])>>)
Removed == Plugin(<<>>, <<Item("favourites", [enabled |-> FALSE]),
                          Item("admin", [enabled |-> FALSE])>>)
Lost == Plugin(<<>>, <<Item("ping", [title |-> "Ping", parent |-> "pong"]),
                       Item("pong", [title |-> "Pong", parent |-> "ping"]),
                       Item("orphan", [title |-> "Orphan", parent |-> "nowhere"])>>)

\* baseFrontendConfig is the fallback of all other configuration: its entries come first.
MCFrontends ==
  {<<Home, Extensions>> \o f :
     f \in {g \in UNION {[1 .. n -> {Rbac, Roles, Favourites, Reordered, Removed, Lost}]
                            : n \in 0 .. MaxPlugins} : IsInjective(g)}}
=============================================================================
