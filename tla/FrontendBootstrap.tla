------------------------- MODULE FrontendBootstrap -------------------------
(***************************************************************************)
(* From the page load to the first screen of packages/app. ScalprumRoot    *)
(* loads the configuration and asks the scalprum backend which plugins it  *)
(* serves; DynamicRoot (initializeRemoteModules, extractDynamicConfig,     *)
(* initializeRemotePlugins) loads the modules the configuration names,     *)
(* creates the app once, and publishes the registry of components.         *)
(*                                                                         *)
(* The configuration is a sequence of entries in the order of the plugins. *)
(* An entry is a function from its fields to values; the component of a    *)
(* route's menu item is an entry of kind "menuItem" with the route's       *)
(* module and importName in "of"; a route binding is of the external       *)
(* routes of its target, by name, to routes of other plugins. Conditions   *)
(* of mount points and plain menu items are not here.                      *)
(***************************************************************************)
EXTENDS Naturals, Sequences, SequencesExt

CONSTANTS
  Configs,          \* the sequences of entries that dynamicPlugins.frontend amounts to
  Installations,    \* the sequences of frontend packages the backend may find
  StaticPlugins,    \* the scopes of staticPluginStore
  IgnoredScopes,    \* ignoreStaticPlugins
  Exports,          \* Exports[<<scope, module>>]: the names that an exposed module exports
  Bare,             \* the exposed modules with an export that has no prototype
  PluginApis,       \* PluginApis[<<scope, module>>]: the APIs of the plugins it exports
  MaxRuns           \* bound: how often initializeRemoteModules is called

Kinds == {"pluginModule", "dynamicRoute", "menuItem", "mountPoint", "appIcon", "apiFactory",
          "analyticsApi", "scaffolderField", "techdocsAddon", "theme", "signInPage", "entityTab",
          "routeBindingTarget", "routeBinding", "providerSetting"}

\* The fields that each kind of entry may have, and must have, besides its scope.
EntryFields(kind) ==
  CASE kind = "pluginModule" -> {"module"}
    [] kind = "menuItem" -> {"module", "importName", "of"}
    [] kind = "routeBindingTarget" -> {"module", "importName", "name"}
    [] kind = "routeBinding" -> {"target", "to"}
    [] kind = "entityTab" -> {"path"}
    [] kind = "providerSetting" -> {"provider"}
    [] OTHER -> {"module", "importName"}

RequiredFields(kind) ==
  CASE kind \in {"routeBinding", "entityTab", "providerSetting"} -> EntryFields(kind)
    [] kind \in {"routeBindingTarget", "theme"} -> {"importName"}
    [] kind = "menuItem" -> {"importName", "of"}
    [] OTHER -> {}

(* extractDynamicConfig fills in the module and, for most kinds, the       *)
(* import.                                                                 *)
Defaulted(kind) ==
  CASE kind = "routeBindingTarget" -> {"module", "name"}
    [] kind \in {"theme", "signInPage", "menuItem"} -> {"module"}
    [] OTHER -> EntryFields(kind) \cap {"module", "importName"}

DefaultOf(entry, field) ==
  CASE field = "module" -> IF entry.kind = "menuItem" THEN entry.of[1] ELSE "PluginRoot"
    [] field = "importName" -> "default"
    [] field = "name" -> entry.importName

Extracted(entry) ==
  [f \in DOMAIN entry \cup Defaulted(entry.kind) |->
     IF f \in DOMAIN entry THEN entry[f] ELSE DefaultOf(entry, f)]

\* A menu item is that of a route of its plugin.
ASSUME ConfigsAssumption ==
  \A c \in Configs :
    /\ c \in Seq(ToSet(c))
    /\ \A e \in ToSet(c) :
         /\ {"kind", "scope"} \subseteq DOMAIN e /\ e.kind \in Kinds
         /\ RequiredFields(e.kind) \subseteq DOMAIN e
         /\ DOMAIN e \subseteq {"kind", "scope"} \cup EntryFields(e.kind)
         /\ e.kind = "menuItem" =>
              \E f \in ToSet(c) : /\ f.kind = "dynamicRoute" /\ f.scope = e.scope
                                  /\ <<Extracted(f).module, Extracted(f).importName>> = e.of

ASSUME StaticAssumption == StaticPlugins \subseteq IgnoredScopes
ASSUME BareAssumption == Bare \subseteq DOMAIN Exports
ASSUME PluginApisAssumption == DOMAIN PluginApis \subseteq DOMAIN Exports
ASSUME MaxRunsAssumption == MaxRuns \in Nat \ {0}

Runs == 1 .. MaxRuns

-----------------------------------------------------------------------------
(* The scalprum backend: createRouter lists every web plugin whose package *)
(* is found and holds dist-scalprum/plugin-manifest.json, by the name in   *)
(* that file. One that is not JSON makes createRouter throw.               *)

HasManifest(package) == package.found /\ package.dist /\ package.manifest # "none"

RouterFails(installation) ==
  \E i \in DOMAIN installation :
    HasManifest(installation[i]) /\ installation[i].manifest = "broken"

Listing(installation) ==
  IF RouterFails(installation) THEN {}
  ELSE {installation[i].manifest : i \in {j \in DOMAIN installation : HasManifest(installation[j])}}

-----------------------------------------------------------------------------
\* A sign-in page without an import is dropped.
Usable(entry) == entry.kind = "signInPage" => "importName" \in DOMAIN entry

ExtractDynamicConfig(config) == {Extracted(e) : e \in {f \in ToSet(config) : Usable(f)}}

OfKind(config, kinds) == {e \in ExtractDynamicConfig(config) : e.kind \in kinds}

ProviderSettings(config) == OfKind(config, {"providerSetting"})

RouteBindings(config) == OfKind(config, {"routeBinding"})

\* requiredModules leaves out the techdocs addons and the menu items.
Requiring ==
  {k \in Kinds : "module" \in EntryFields(k)} \ {"techdocsAddon", "menuItem"}

RequiredModules(config) == {<<e.scope, e.module>> : e \in OfKind(config, Requiring)}

-----------------------------------------------------------------------------
VARIABLES
  config,       \* dynamicPlugins.frontend; <<>> once its loading failed
  installed,    \* the frontend packages on the backend's volume
  page,         \* ScalprumRoot: "config", "listing", "rendered"
  listed,       \* scalprumConfig: the scopes with a manifest location
  initialized,  \* of useScalprum
  pluginStore,  \* the scopes whose manifest was processed
  run,          \* run[r]: where a call of initializeRemoteModules stands
  pending,      \* pending[r]: the modules it still waits for
  loaded,       \* loaded[r]: the modules it got
  app,          \* app.current
  registry,     \* componentRegistry
  faults        \* history: the modules whose loading failed at some step

session == <<config, installed, page, listed, initialized>>
vars == <<session, pluginStore, run, pending, loaded, app, registry, faults>>

Undefined == [defined |-> FALSE]

Init ==
  /\ config \in Configs /\ installed \in Installations
  /\ page = "config" /\ listed = {} /\ initialized = FALSE
  /\ pluginStore = {}
  /\ run = [r \in Runs |-> "none"]
  /\ pending = [r \in Runs |-> {}] /\ loaded = [r \in Runs |-> {}]
  /\ app = Undefined /\ registry = Undefined
  /\ faults = {}

-----------------------------------------------------------------------------
(* ScalprumRoot                                                            *)

ConfigLoaded ==
  /\ page = "config" /\ page' = "listing"
  /\ UNCHANGED <<config, installed, listed, initialized, pluginStore, run, pending, loaded,
                 app, registry, faults>>

(* useAsync keeps the error to itself; the page is rendered without any    *)
(* plugin, the static ones included.                                       *)
ConfigFails ==
  /\ page = "config" /\ page' = "rendered"
  /\ config' = <<>>
  /\ UNCHANGED <<installed, listed, initialized, pluginStore, run, pending, loaded, app,
                 registry, faults>>

(* GET /api/scalprum/plugins; if it fails no plugin has a manifest.        *)
ListingReply ==
  /\ page = "listing" /\ page' = "rendered"
  /\ listed' = Listing(installed)
  /\ UNCHANGED <<config, installed, initialized, pluginStore, run, pending, loaded, app,
                 registry, faults>>

ListingFails ==
  /\ page = "listing" /\ page' = "rendered"
  /\ faults' = faults \cup {m \in RequiredModules(config) : m[1] \in Listing(installed)}
  /\ UNCHANGED <<config, installed, listed, initialized, pluginStore, run, pending, loaded,
                 app, registry>>

ScalprumInitialized ==
  /\ page = "rendered" /\ ~initialized
  /\ initialized' = TRUE
  /\ UNCHANGED <<config, installed, page, listed, pluginStore, run, pending, loaded, app,
                 registry, faults>>

-----------------------------------------------------------------------------
(* initializeRemoteModules                                                 *)

(* The effect calls it when Scalprum is ready, and again when a render     *)
(* brings new dependencies before there is a registry.                     *)
Start(r) ==
  /\ initialized /\ registry = Undefined
  /\ run[r] = "none" /\ \A q \in 1 .. r - 1 : run[q] # "none"
  /\ run' = [run EXCEPT ![r] = "manifests"]
  /\ pending' = [pending EXCEPT ![r] = RequiredModules(config)]
  /\ UNCHANGED <<session, pluginStore, loaded, app, registry, faults>>

(* processManifest of one module settles; a scope that is not listed has   *)
(* no location and fails.                                                  *)
ManifestProcessed(r, module) ==
  /\ run[r] = "manifests" /\ module \in pending[r]
  /\ module[1] \in listed
  /\ pluginStore' = pluginStore \cup {module[1]}
  /\ pending' = [pending EXCEPT ![r] = @ \ {module}]
  /\ UNCHANGED <<session, run, loaded, app, registry, faults>>

\* Mutant: Promise.all in place of allSettled, and nobody catches it.
ManifestFailsUncaught(r, module) ==
  /\ run[r] = "manifests" /\ module \in pending[r]
  /\ run' = [run EXCEPT ![r] = "rejected"]
  /\ pending' = [pending EXCEPT ![r] = {}]
  /\ faults' = faults \cup {module}
  /\ UNCHANGED <<session, pluginStore, loaded, app, registry>>

ManifestFails(r, module) ==
  /\ run[r] = "manifests" /\ module \in pending[r]
  /\ pending' = [pending EXCEPT ![r] = @ \ {module}]
  /\ faults' = faults \cup {module}
  /\ UNCHANGED <<session, pluginStore, run, loaded, app, registry>>

GetModules(r) ==
  /\ run[r] = "manifests" /\ pending[r] = {}
  /\ run' = [run EXCEPT ![r] = "modules"]
  /\ pending' = [pending EXCEPT ![r] =
                   {m \in RequiredModules(config) : m[1] \notin IgnoredScopes}]
  /\ UNCHANGED <<session, pluginStore, loaded, app, registry, faults>>

ModuleLoaded(r, module) ==
  /\ run[r] = "modules" /\ module \in pending[r]
  /\ module[1] \in pluginStore /\ module \in DOMAIN Exports
  /\ loaded' = [loaded EXCEPT ![r] = @ \cup {module}]
  /\ pending' = [pending EXCEPT ![r] = @ \ {module}]
  /\ UNCHANGED <<session, pluginStore, run, app, registry, faults>>

\* Mutant: the first module that fails ends the loading of the others.
ModuleFailsAll(r, module) ==
  /\ run[r] = "modules" /\ module \in pending[r]
  /\ pending' = [pending EXCEPT ![r] = {}]
  /\ faults' = faults \cup {module}
  /\ UNCHANGED <<session, pluginStore, run, loaded, app, registry>>

ModuleFails(r, module) ==
  /\ run[r] = "modules" /\ module \in pending[r]
  /\ pending' = [pending EXCEPT ![r] = @ \ {module}]
  /\ faults' = faults \cup {module}
  /\ UNCHANGED <<session, pluginStore, run, loaded, app, registry>>

-----------------------------------------------------------------------------
(* allPlugins[scope]?.[module]?.[importName]: a scope with a remote module *)
(* is remote, any other may be static.                                     *)

IsRemote(r, scope) == \E m \in loaded[r] : m[1] = scope

There(r, scope, module, importName) ==
  /\ IF IsRemote(r, scope) THEN <<scope, module>> \in loaded[r]
     ELSE scope \in StaticPlugins /\ module = "PluginRoot"
  /\ <<scope, module>> \in DOMAIN Exports
  /\ importName \in Exports[<<scope, module>>]

\* Mutant: a component is registered whether or not it was found.
ResolvedUnchecked(r, e) ==
  /\ "importName" \in DOMAIN e
  /\ "of" \in DOMAIN e => There(r, e.scope, e.of[1], e.of[2])

Resolved(r, e) ==
  /\ "importName" \in DOMAIN e
  /\ There(r, e.scope, e.module, e.importName)
  /\ "of" \in DOMAIN e => There(r, e.scope, e.of[1], e.of[2])

Components(r, kinds) == {e \in OfKind(config, kinds) : Resolved(r, e)}

(* The first tab of a path wins.                                           *)
EntityTabs ==
  LET tabs(path) == {i \in DOMAIN config : config[i].kind = "entityTab" /\ config[i].path = path}
  IN  {e \in OfKind(config, {"entityTab"}) :
         \E i \in tabs(e.path) : Extracted(config[i]) = e /\ \A j \in tabs(e.path) : i <= j}

AppKinds == {"routeBindingTarget", "appIcon", "apiFactory", "analyticsApi", "theme"}

RegistryKinds == {"mountPoint", "dynamicRoute", "menuItem", "scaffolderField", "techdocsAddon"}

DefaultPage == [kind |-> "default"]

(* bindAppRoutes: a binding whose own target is not there is left out, but *)
(* what its routes are bound to may be undefined.                          *)
StaticTargets == {"catalogPlugin", "catalogImportPlugin", "scaffolderPlugin"}

BindTargets(r) == {e.name : e \in Components(r, {"routeBindingTarget"})} \cup StaticTargets

BindAppRoutes(r) ==
  UNION {{[from |-> b.target, to |-> t, found |-> t \in BindTargets(r)] : t \in b.to} :
           b \in {e \in RouteBindings(config) : e.target \in BindTargets(r)}}

\* The places of the sign-in pages, in the order of the plugins.
SignInPages == {i \in DOMAIN config : config[i].kind = "signInPage" /\ Usable(config[i])}

FoundPages(r) == {i \in SignInPages : Resolved(r, Extracted(config[i]))}

\* Mutant: the last page that was found.
SignInPageLast(r) ==
  IF FoundPages(r) = {} THEN DefaultPage
  ELSE Extracted(config[CHOOSE i \in FoundPages(r) : \A j \in FoundPages(r) : j <= i])

\* The sign-in page is the first that was found, the default one if none was.
SignInPage(r) ==
  IF FoundPages(r) = {} THEN DefaultPage
  ELSE Extracted(config[CHOOSE i \in FoundPages(r) : \A j \in FoundPages(r) : i <= j])

\* The modules with plugins of the app: those of the static store and all that are loaded.
PluginModules(r) ==
  DOMAIN PluginApis \cap (loaded[r] \cup {<<scope, "PluginRoot">> : scope \in StaticPlugins})

CreateApp(r) ==
  [defined |-> TRUE, components |-> Components(r, AppKinds), signInPage |-> SignInPage(r),
   bindings |-> BindAppRoutes(r), apis |-> UNION {PluginApis[m] : m \in PluginModules(r)}]

Registry(r) ==
  [defined |-> TRUE, components |-> Components(r, RegistryKinds), tabs |-> EntityTabs,
   providerSettings |-> ProviderSettings(config)]

\* Mutant: each run creates an app.
FinishReplacing(r) ==
  /\ run[r] = "modules" /\ pending[r] = {}
  /\ loaded[r] \cap Bare = {}
  /\ run' = [run EXCEPT ![r] = "done"]
  /\ app' = CreateApp(r)
  /\ registry' = Registry(r)
  /\ UNCHANGED <<session, pluginStore, pending, loaded, faults>>

(* Everything has settled: the app is created, if no other run has done    *)
(* so, and the registry is set; afterInit() is on its way.                 *)
Finish(r) ==
  /\ run[r] = "modules" /\ pending[r] = {}
  /\ loaded[r] \cap Bare = {}
  /\ run' = [run EXCEPT ![r] = "done"]
  /\ app' = IF app = Undefined THEN CreateApp(r) ELSE app
  /\ registry' = Registry(r)
  /\ UNCHANGED <<session, pluginStore, pending, loaded, faults>>

(* 'getId' in null throws for an export without a prototype; nobody        *)
(* handles the rejection.                                                  *)
Throw(r) ==
  /\ run[r] = "modules" /\ pending[r] = {}
  /\ loaded[r] \cap Bare # {}
  /\ run' = [run EXCEPT ![r] = "rejected"]
  /\ UNCHANGED <<session, pluginStore, pending, loaded, app, registry, faults>>

(* The import of AppBase that afterInit starts.                            *)
Show(r) ==
  /\ run[r] = "done"
  /\ run' = [run EXCEPT ![r] = "shown"]
  /\ UNCHANGED <<session, pluginStore, pending, loaded, app, registry, faults>>

AfterInitFails(r) ==
  /\ run[r] = "done"
  /\ run' = [run EXCEPT ![r] = "rejected"]
  /\ UNCHANGED <<session, pluginStore, pending, loaded, app, registry, faults>>

-----------------------------------------------------------------------------
Boot ==
  \/ ConfigLoaded \/ ConfigFails \/ ListingReply \/ ListingFails \/ ScalprumInitialized
  \/ Start(1)

Settle(r) ==
  \/ \E module \in pending[r] : ManifestProcessed(r, module) \/ ManifestFails(r, module)
  \/ GetModules(r)
  \/ \E module \in pending[r] : ModuleLoaded(r, module) \/ ModuleFails(r, module)
  \/ Finish(r) \/ Throw(r) \/ Show(r) \/ AfterInitFails(r)

Next == Boot \/ \E r \in Runs : Start(r) \/ Settle(r)

Spec == Init /\ [][Next]_vars

(* Every request ends, with an answer or an error, and the browser runs    *)
(* what is ready.                                                          *)
FairSpec == Spec /\ WF_vars(Boot) /\ \A r \in Runs : WF_vars(Settle(r))

-----------------------------------------------------------------------------
(* DynamicProviderSettings: of the configured settings, those whose API is *)
(* one of a plugin of the app.                                             *)
ShownSettings == {e \in registry.providerSettings : e.provider \in app.apis}

(* What is found in the page: the app's and the registry's components.     *)
Present ==
  (IF app = Undefined THEN {} ELSE app.components)
    \cup (IF registry = Undefined THEN {} ELSE registry.components)

\* The module of an entry is served and exports what the entry imports.
Offered(e) ==
  /\ "importName" \in DOMAIN e /\ <<e.scope, e.module>> \in DOMAIN Exports
  /\ e.importName \in Exports[<<e.scope, e.module>>]
  /\ \/ e.scope \in StaticPlugins /\ e.module = "PluginRoot"
     \/ e.scope \notin IgnoredScopes /\ e.scope \in Listing(installed)

\* Something went wrong with the entry's own module; static ones are not loaded.
Faulty(e) == e.scope \notin IgnoredScopes /\ <<e.scope, e.module>> \in faults

\* A name that bindings may use: of one of the targets in es, or static.
NamedBy(n, es) ==
  n \in StaticTargets \/ \E e \in es : e.kind = "routeBindingTarget" /\ e.name = n /\ Offered(e)

(* A plugin that cannot be loaded takes nothing away from the others: a    *)
(* component is missing only if its own plugin was not served, failed to   *)
(* load or does not export it; a route is unbound only if that is so of a  *)
(* plugin at one of its ends, and the settings of an auth provider are     *)
(* hidden only if it is so of each plugin with its API. The app and the    *)
(* registry may stem from different runs.                                  *)
Isolated ==
  /\ \A e \in ExtractDynamicConfig(config) :
       e.kind \in Requiring /\ Offered(e) /\ ~Faulty(e) =>
         /\ e.kind \in AppKinds /\ app # Undefined => e \in app.components
         /\ e.kind \in RegistryKinds /\ registry # Undefined => e \in registry.components
  /\ app # Undefined =>
       LET sound == {e \in ExtractDynamicConfig(config) :
                       e.kind = "routeBindingTarget" /\ ~Faulty(e)}
       IN  \A b \in RouteBindings(config) : \A t \in b.to :
             NamedBy(b.target, sound) /\ NamedBy(t, sound) =>
               [from |-> b.target, to |-> t, found |-> TRUE] \in app.bindings
  /\ app # Undefined /\ registry # Undefined =>
       \A e \in ProviderSettings(config) : \A m \in RequiredModules(config) \ faults :
         m[1] \in Listing(installed) \ IgnoredScopes /\ m \in DOMAIN PluginApis
           /\ e.provider \in PluginApis[m] => e \in ShownSettings

(* Nothing undefined is rendered: each component in the page is exported   *)
(* by a module that its scope serves, a menu item has its route, and what  *)
(* is bound are the routes of a plugin that is there.                      *)
OnlyOffered ==
  /\ \A e \in Present :
       /\ Offered(e)
       /\ e.kind = "menuItem" =>
            \E f \in registry.components :
              f.kind = "dynamicRoute" /\ <<f.module, f.importName>> = e.of /\ f.scope = e.scope
  /\ app # Undefined =>
       \A b \in app.bindings : NamedBy(b.from, app.components)
                               /\ (b.found => NamedBy(b.to, app.components))

(* "the config allows for multiple sign-in pages, discover and use the     *)
(* first working instance": no page before the chosen one works, and the   *)
(* default one is used only when none does.                                *)
FirstWorkingSignIn ==
  app # Undefined =>
    LET entry(i) == Extracted(config[i])
        working == {i \in SignInPages : Offered(entry(i)) /\ ~Faulty(entry(i))}
    IN  IF app.signInPage = DefaultPage THEN working = {}
        ELSE \E i \in SignInPages :
               entry(i) = app.signInPage /\ Offered(entry(i)) /\ \A j \in working : i <= j

(* A later run never replaces the app under a page that is already there.  *)
AppKept == [][app # Undefined => app' = app]_vars

(* The page leaves the loading screen, whatever fails to load, unless the  *)
(* page's own code does or a plugin exports something without a prototype. *)
PageShown ==
  <>(\E r \in Runs :
       \/ run[r] = "shown"
       \/ run[r] = "rejected" /\ (registry # Undefined \/ loaded[r] \cap Bare # {}))

(* docs/dynamic-plugins/frontend-plugin-wiring.md, techdocsAddons: "module *)
(* is an optional argument which allows you to specify which set of assets *)
(* you want to access within the plugin". An addon in a module of its own  *)
(* is found when nothing of its plugin failed.                            *)
AddonsFound ==
  \A e \in ExtractDynamicConfig(config) :
    /\ e.kind = "techdocsAddon" /\ Offered(e) /\ e.scope \in listed
    /\ \A f \in faults : f[1] # e.scope
    /\ registry # Undefined
    => e \in registry.components
=============================================================================
