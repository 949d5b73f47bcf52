----------------------- MODULE FrontendBootstrap_proofs -----------------------
(***************************************************************************)
(* That the plugins do not harm each other while the page is loaded, for   *)
(* every configuration, set of installed packages and number of calls of   *)
(* initializeRemoteModules.                                                *)
(***************************************************************************)
EXTENDS FrontendBootstrap, WellFoundedInduction, TLAPS

-----------------------------------------------------------------------------
(* What extractDynamicConfig returns.                                      *)

KnownConfig == config \in Configs \cup {<<>>}

LEMMA ExtractedKeeps ==
  ASSUME NEW e, {"kind", "scope"} \subseteq DOMAIN e
  PROVE  Extracted(e).kind = e.kind /\ Extracted(e).scope = e.scope
BY DEF Extracted

LEMMA NoEntries == ToSet(<<>>) = {}
BY DEF ToSet

LEMMA EntryFacts ==
  ASSUME KnownConfig, NEW e \in ExtractDynamicConfig(config)
  PROVE  /\ e.kind \in Kinds
         /\ "of" \in DOMAIN e <=> e.kind = "menuItem"
         /\ e.kind = "dynamicRoute" => "importName" \in DOMAIN e
         /\ e.kind = "menuItem" =>
              \E f \in ExtractDynamicConfig(config) :
                /\ f.kind = "dynamicRoute" /\ f.scope = e.scope
                /\ <<f.module, f.importName>> = e.of
<1>1. PICK raw \in ToSet(config) : Usable(raw) /\ e = Extracted(raw)
  BY DEF ExtractDynamicConfig
<1>2. config \in Configs
  BY <1>1, NoEntries DEF KnownConfig
<1>3. /\ {"kind", "scope"} \subseteq DOMAIN raw /\ raw.kind \in Kinds
      /\ RequiredFields(raw.kind) \subseteq DOMAIN raw
      /\ DOMAIN raw \subseteq {"kind", "scope"} \cup EntryFields(raw.kind)
  BY <1>1, <1>2, ConfigsAssumption
<1>4. e.kind = raw.kind /\ e.scope = raw.scope
  BY <1>1, <1>3, ExtractedKeeps
<1>5. DOMAIN e = DOMAIN raw \cup Defaulted(raw.kind)
  BY <1>1 DEF Extracted
<1>6. "of" \in DOMAIN e <=> e.kind = "menuItem"
  BY <1>3, <1>4, <1>5 DEF EntryFields, RequiredFields, Defaulted
<1>7. e.kind = "dynamicRoute" => "importName" \in DOMAIN e
  BY <1>4, <1>5 DEF EntryFields, Defaulted
<1>8. ASSUME e.kind = "menuItem"
      PROVE  \E f \in ExtractDynamicConfig(config) :
               f.kind = "dynamicRoute" /\ f.scope = e.scope /\ <<f.module, f.importName>> = e.of
  <2>1. PICK f \in ToSet(config) :
          /\ f.kind = "dynamicRoute" /\ f.scope = raw.scope
          /\ <<Extracted(f).module, Extracted(f).importName>> = raw.of
    BY <1>1, <1>2, <1>4, <1>8, ConfigsAssumption
  <2>2. Extracted(f).kind = f.kind /\ Extracted(f).scope = f.scope
    BY <1>2, <2>1, ConfigsAssumption, ExtractedKeeps
  <2>3. Extracted(f) \in ExtractDynamicConfig(config)
    BY <2>1 DEF ExtractDynamicConfig, Usable
  <2>4. e.of = raw.of
    BY <1>1, <1>3, <1>4, <1>8 DEF Extracted, RequiredFields
  <2> QED
    BY <1>4, <2>1, <2>2, <2>3, <2>4
<1> QED
  BY <1>3, <1>4, <1>6, <1>7, <1>8

LEMMA PageFacts ==
  ASSUME KnownConfig, NEW i \in SignInPages
  PROVE  /\ Extracted(config[i]) \in OfKind(config, {"signInPage"})
         /\ Extracted(config[i]) # DefaultPage
<1>1. config[i] \in ToSet(config) /\ config[i].kind = "signInPage" /\ Usable(config[i])
  BY DEF SignInPages, ToSet
<1>2. Extracted(config[i]).kind = "signInPage"
  BY <1>1, NoEntries, ConfigsAssumption, ExtractedKeeps DEF KnownConfig
<1>3. DefaultPage.kind = "default"
  BY DEF DefaultPage
<1> QED
  BY <1>1, <1>2, <1>3 DEF OfKind, ExtractDynamicConfig

-----------------------------------------------------------------------------
(* What one call of initializeRemoteModules finds.                         *)

\* What is loaded is offered, and what is neither loaded nor waited for has failed.
LoadedOK(r) ==
  /\ \A m \in loaded[r] :
       m \in DOMAIN Exports /\ m[1] \notin IgnoredScopes /\ m[1] \in Listing(installed)
  /\ run[r] = "modules" =>
       /\ \A m \in pending[r] : m[1] \notin IgnoredScopes
       /\ \A m \in RequiredModules(config) :
            m[1] \notin IgnoredScopes /\ m \notin faults => m \in loaded[r] \cup pending[r]

LEMMA ResolvedOffered ==
  ASSUME NEW r \in Runs, LoadedOK(r), NEW e, Resolved(r, e)
  PROVE  Offered(e)
BY DEF LoadedOK, Resolved, There, IsRemote, Offered

LEMMA OfferedResolved ==
  ASSUME KnownConfig, NEW r \in Runs, LoadedOK(r), run[r] = "modules", pending[r] = {},
         NEW e \in OfKind(config, Requiring), Offered(e), ~Faulty(e)
  PROVE  Resolved(r, e)
<1>1. "of" \notin DOMAIN e
  BY EntryFacts DEF OfKind, Requiring
<1>2. <<e.scope, e.module>> \in RequiredModules(config)
  BY DEF RequiredModules
<1>3. CASE e.scope \notin IgnoredScopes
  <2>1. <<e.scope, e.module>> \in loaded[r]
    BY <1>2, <1>3 DEF LoadedOK, Faulty
  <2> QED
    BY <1>1, <2>1 DEF Resolved, There, IsRemote, Offered
<1>4. CASE e.scope \in IgnoredScopes
  <2>1. ~IsRemote(r, e.scope)
    BY <1>4 DEF LoadedOK, IsRemote
  <2>2. e.scope \in StaticPlugins /\ e.module = "PluginRoot"
    BY <1>4 DEF Offered
  <2> QED
    BY <1>1, <2>1, <2>2 DEF Resolved, There, Offered
<1> QED
  BY <1>3, <1>4

LEMMA RequiringKinds ==
  AppKinds \cup {"mountPoint", "dynamicRoute", "scaffolderField", "signInPage"} \subseteq Requiring
BY DEF AppKinds, Requiring, Kinds, EntryFields

\* A set of places has a first one.
LEMMA FirstPlace ==
  ASSUME NEW S \in SUBSET Nat, S # {}
  PROVE  \E i \in S : \A j \in S : i <= j
<1>1. PICK i \in S : \A j \in S : <<j, i>> \notin OpToRel(<, Nat)
  BY NatLessThanWellFounded, WFMin
<1>2. \A j \in S : ~(j < i)
  BY <1>1 DEF OpToRel
<1> QED
  BY <1>2


-----------------------------------------------------------------------------
(* The invariant: how far the page is, what the calls have found, and what *)
(* the app and the registry were made from.                                *)

Progress ==
  /\ initialized => page = "rendered"
  /\ listed \subseteq Listing(installed) /\ pluginStore \subseteq Listing(installed)
  /\ pending = [r \in Runs |-> pending[r]] /\ loaded = [r \in Runs |-> loaded[r]]
  /\ run = [r \in Runs |-> run[r]]
  /\ \A r \in Runs : run[r] # "none" => initialized
  /\ app # Undefined \/ registry # Undefined => initialized

Targets(components) ==
  {e.name : e \in {f \in components : f.kind = "routeBindingTarget"}} \cup StaticTargets

FirstWorking(chosen) ==
  LET entry(i) == Extracted(config[i])
      working == {i \in SignInPages : Offered(entry(i)) /\ ~Faulty(entry(i))}
  IN  IF chosen = DefaultPage THEN working = {}
      ELSE \E i \in SignInPages :
             entry(i) = chosen /\ Offered(entry(i)) /\ \A j \in working : i <= j

AppOK(a) ==
  /\ \A e \in a.components : e \in OfKind(config, AppKinds) /\ Offered(e)
  /\ \A e \in OfKind(config, AppKinds) : Offered(e) /\ ~Faulty(e) => e \in a.components
  /\ a.bindings =
       UNION {{[from |-> b.target, to |-> t, found |-> t \in Targets(a.components)] : t \in b.to} :
                b \in {e \in RouteBindings(config) : e.target \in Targets(a.components)}}
  /\ \A m \in RequiredModules(config) \ faults :
       m[1] \notin IgnoredScopes /\ m \in DOMAIN PluginApis => PluginApis[m] \subseteq a.apis
  /\ FirstWorking(a.signInPage)

HasRoute(item, components) ==
  \E f \in components :
    f.kind = "dynamicRoute" /\ <<f.module, f.importName>> = item.of /\ f.scope = item.scope

RegistryOK(g) ==
  /\ \A e \in g.components :
       /\ e \in OfKind(config, RegistryKinds) /\ Offered(e)
       /\ e.kind = "menuItem" => HasRoute(e, g.components)
  /\ \A e \in OfKind(config, RegistryKinds \cap Requiring) :
       Offered(e) /\ ~Faulty(e) => e \in g.components
  /\ g.providerSettings = ProviderSettings(config)

Inv ==
  /\ KnownConfig /\ Progress
  /\ \A r \in Runs : LoadedOK(r)
  /\ app # Undefined => AppOK(app)
  /\ registry # Undefined => RegistryOK(registry)

LEMMA InitInv == Init => Inv
BY DEF Init, Inv, KnownConfig, Progress, LoadedOK, Runs

-----------------------------------------------------------------------------
(* Faults are not forgotten, so that less is asked of what is there.       *)

LEMMA FaultsGrow ==
  ASSUME Inv, faults \subseteq faults', UNCHANGED <<config, installed, app, registry>>
  PROVE  /\ KnownConfig'
         /\ app' # Undefined => AppOK(app)'
         /\ registry' # Undefined => RegistryOK(registry)'
<1>1. \A e : Offered(e)' = Offered(e) /\ (Faulty(e) => Faulty(e)')
  BY DEF Offered, Faulty
<1>2. SignInPages' = SignInPages
  BY DEF SignInPages
<1>3. app' # Undefined => FirstWorking(app.signInPage)'
  BY <1>1, <1>2 DEF Inv, AppOK, FirstWorking
<1>4. app' # Undefined => AppOK(app)'
  BY <1>1, <1>3 DEF Inv, AppOK
<1>5. registry' # Undefined => RegistryOK(registry)'
  BY <1>1 DEF Inv, RegistryOK
<1> QED
  BY <1>4, <1>5 DEF Inv, KnownConfig

(* The page's own steps, before any call is made.                          *)
LEMMA BootStep ==
  ASSUME Inv, ConfigLoaded \/ ConfigFails \/ ListingReply \/ ListingFails \/ ScalprumInitialized
  PROVE  Inv'
<1>1. UNCHANGED <<installed, pluginStore, run, pending, loaded, app, registry>>
      /\ faults \subseteq faults'
  BY DEF ConfigLoaded, ConfigFails, ListingReply, ListingFails, ScalprumInitialized
<1>2. Progress'
  BY <1>1 DEF Inv, Progress, ConfigLoaded, ConfigFails, ListingReply, ListingFails,
     ScalprumInitialized
<1>3. CASE page # "rendered"
  <2>1. /\ \A r \in Runs : run[r] = "none"
        /\ app = Undefined /\ registry = Undefined
    BY <1>3 DEF Inv, Progress
  <2>2. KnownConfig'
    BY DEF Inv, KnownConfig, ConfigLoaded, ConfigFails, ListingReply, ListingFails,
       ScalprumInitialized
  <2>3. \A r \in Runs : LoadedOK(r)'
    BY <1>1, <2>1 DEF Inv, LoadedOK
  <2> QED
    BY <1>1, <1>2, <2>1, <2>2, <2>3 DEF Inv
<1>4. CASE page = "rendered"
  <2>1. UNCHANGED <<config, faults>>
    BY <1>4 DEF ConfigLoaded, ConfigFails, ListingReply, ListingFails, ScalprumInitialized
  <2>2. \A r \in Runs : LoadedOK(r)'
    BY <1>1, <2>1 DEF Inv, LoadedOK
  <2> QED
    BY <1>1, <1>2, <2>1, <2>2, FaultsGrow DEF Inv
<1> QED
  BY <1>3, <1>4

(* A step of one call that neither creates the app nor sets the registry.  *)
LEMMA OneRun ==
  ASSUME Inv, NEW r \in Runs, faults \subseteq faults',
         UNCHANGED <<session, app, registry>>, Progress', LoadedOK(r)',
         \A q \in Runs \ {r} : UNCHANGED <<run[q], pending[q], loaded[q]>>
  PROVE  Inv'
<1>1. UNCHANGED <<config, installed>>
  BY DEF session
<1>2. \A q \in Runs \ {r} : LoadedOK(q)'
  BY <1>1 DEF Inv, LoadedOK
<1> QED
  BY <1>1, <1>2, FaultsGrow DEF Inv

LEMMA SettleStep ==
  ASSUME Inv, NEW r \in Runs,
         \/ Start(r) \/ GetModules(r) \/ Throw(r) \/ Show(r) \/ AfterInitFails(r)
         \/ \E m \in pending[r] : \/ ManifestProcessed(r, m) \/ ManifestFails(r, m)
                                  \/ ModuleLoaded(r, m) \/ ModuleFails(r, m)
  PROVE  Inv'
<1> USE DEF session
<1>1. UNCHANGED <<session, app, registry>> /\ faults \subseteq faults'
  BY DEF Start, GetModules, Throw, Show, AfterInitFails, ManifestProcessed, ManifestFails,
     ModuleLoaded, ModuleFails
<1>2. \A q \in Runs \ {r} : UNCHANGED <<run[q], pending[q], loaded[q]>>
  BY DEF Start, GetModules, Throw, Show, AfterInitFails, ManifestProcessed, ManifestFails,
     ModuleLoaded, ModuleFails, Inv, Progress
<1>3. Progress'
  BY DEF Start, GetModules, Throw, Show, AfterInitFails, ManifestProcessed, ManifestFails,
     ModuleLoaded, ModuleFails, Inv, Progress
<1>4. LoadedOK(r)'
  <2> USE DEF Inv, Progress
  <2>1. CASE Start(r) \/ Throw(r) \/ Show(r) \/ AfterInitFails(r)
    BY <2>1 DEF Start, Throw, Show, AfterInitFails, LoadedOK
  <2>2. CASE GetModules(r)
    BY <2>2 DEF GetModules, LoadedOK
  <2>3. ASSUME NEW m \in pending[r], ManifestProcessed(r, m) \/ ManifestFails(r, m)
        PROVE  LoadedOK(r)'
    BY <2>3 DEF ManifestProcessed, ManifestFails, LoadedOK
  <2>4. ASSUME NEW m \in pending[r], ModuleLoaded(r, m)
        PROVE  LoadedOK(r)'
    BY <2>4 DEF ModuleLoaded, LoadedOK
  <2>5. ASSUME NEW m \in pending[r], ModuleFails(r, m)
        PROVE  LoadedOK(r)'
    BY <2>5 DEF ModuleFails, LoadedOK
  <2> QED
    BY <2>1, <2>2, <2>3, <2>4, <2>5
<1> QED
  BY <1>1, <1>2, <1>3, <1>4, OneRun

-----------------------------------------------------------------------------
(* The end of a call: what it makes is what it has found.                  *)

LEMMA FirstPageFound ==
  ASSUME Inv, NEW r \in Runs, run[r] = "modules", pending[r] = {}
  PROVE  FirstWorking(SignInPage(r))
<1> DEFINE entry(i) == Extracted(config[i])
           working == {i \in SignInPages : Offered(entry(i)) /\ ~Faulty(entry(i))}
<1>1. KnownConfig /\ LoadedOK(r)
  BY DEF Inv
<1>2. working \subseteq FoundPages(r)
  <2>1. ASSUME NEW i \in working
        PROVE  Resolved(r, entry(i))
    <3>1. entry(i) \in OfKind(config, Requiring)
      BY <1>1, PageFacts, RequiringKinds DEF OfKind
    <3> QED
      BY <1>1, <3>1, OfferedResolved
  <2> QED
    BY <2>1 DEF FoundPages
<1>3. CASE FoundPages(r) = {}
  BY <1>2, <1>3 DEF SignInPage, FirstWorking
<1>4. CASE FoundPages(r) # {}
  <2>1. FoundPages(r) \subseteq Nat
    <3>1. FoundPages(r) \subseteq DOMAIN config
      BY DEF FoundPages, SignInPages
    <3>2. CASE config = <<>>
      BY <3>1, <3>2
    <3>3. CASE config \in Configs
      BY <3>1, <3>3, ConfigsAssumption
    <3> QED
      BY <1>1, <3>2, <3>3 DEF KnownConfig
  <2> DEFINE first == CHOOSE i \in FoundPages(r) : \A j \in FoundPages(r) : i <= j
  <2>2. first \in FoundPages(r) /\ \A j \in FoundPages(r) : first <= j
    BY <1>4, <2>1, FirstPlace
  <2>3. SignInPage(r) = entry(first)
    BY <1>4 DEF SignInPage
  <2> HIDE DEF first
  <2>4. first \in SignInPages /\ Offered(entry(first))
    BY <1>1, <2>2, ResolvedOffered DEF FoundPages
  <2>5. entry(first) # DefaultPage
    BY <1>1, <2>4, PageFacts
  <2> QED
    BY <1>2, <2>2, <2>3, <2>4, <2>5 DEF FirstWorking
<1> QED
  BY <1>3, <1>4

LEMMA CreatedApp ==
  ASSUME Inv, NEW r \in Runs, run[r] = "modules", pending[r] = {}
  PROVE  AppOK(CreateApp(r))
<1> DEFINE a == CreateApp(r)
<1>1. KnownConfig /\ LoadedOK(r)
  BY DEF Inv
<1>2. /\ a.components = Components(r, AppKinds) /\ a.signInPage = SignInPage(r)
      /\ a.bindings = BindAppRoutes(r)
      /\ a.apis = UNION {PluginApis[m] : m \in PluginModules(r)}
  BY DEF CreateApp
<1> HIDE DEF a
<1>3. \A e \in a.components : e \in OfKind(config, AppKinds) /\ Offered(e)
  BY <1>1, <1>2, ResolvedOffered DEF Components
<1>4. \A e \in OfKind(config, AppKinds) : Offered(e) /\ ~Faulty(e) => e \in a.components
  <2>1. OfKind(config, AppKinds) \subseteq OfKind(config, Requiring)
    BY RequiringKinds DEF OfKind
  <2> QED
    BY <1>1, <1>2, <2>1, OfferedResolved DEF Components
<1>5. Targets(a.components) = BindTargets(r)
  BY <1>2 DEF Targets, BindTargets, Components, OfKind, AppKinds
<1>6. \A m \in RequiredModules(config) \ faults :
        m[1] \notin IgnoredScopes /\ m \in DOMAIN PluginApis => PluginApis[m] \subseteq a.apis
  <2>1. \A m \in RequiredModules(config) \ faults : m[1] \notin IgnoredScopes => m \in loaded[r]
    BY <1>1 DEF LoadedOK
  <2> QED
    BY <1>2, <2>1 DEF PluginModules
<1> QED
  BY <1>2, <1>3, <1>4, <1>5, <1>6, FirstPageFound DEF AppOK, BindAppRoutes, a

LEMMA SetRegistry ==
  ASSUME Inv, NEW r \in Runs, run[r] = "modules", pending[r] = {}
  PROVE  RegistryOK(Registry(r))
<1> DEFINE g == Registry(r)
<1>1. KnownConfig /\ LoadedOK(r)
  BY DEF Inv
<1>2. /\ g.components = Components(r, RegistryKinds)
      /\ g.providerSettings = ProviderSettings(config)
  BY DEF Registry
<1> HIDE DEF g
<1>3. \A e \in g.components : e \in OfKind(config, RegistryKinds) /\ Offered(e)
  BY <1>1, <1>2, ResolvedOffered DEF Components
<1>4. ASSUME NEW e \in g.components, e.kind = "menuItem"
      PROVE  HasRoute(e, g.components)
  <2>1. e \in ExtractDynamicConfig(config) /\ Resolved(r, e)
    BY <1>2 DEF Components, OfKind
  <2>2. PICK f \in ExtractDynamicConfig(config) :
          /\ f.kind = "dynamicRoute" /\ f.scope = e.scope
          /\ <<f.module, f.importName>> = e.of
    BY <1>1, <1>4, <2>1, EntryFacts
  <2>3. "importName" \in DOMAIN f /\ "of" \notin DOMAIN f
    BY <1>1, <2>2, EntryFacts
  <2>4. "of" \in DOMAIN e
    BY <1>1, <1>4, <2>1, EntryFacts
  <2>5. Resolved(r, f)
    BY <2>1, <2>2, <2>3, <2>4 DEF Resolved
  <2> QED
    BY <1>2, <2>2, <2>5 DEF HasRoute, Components, OfKind, RegistryKinds
<1>5. \A e \in OfKind(config, RegistryKinds \cap Requiring) :
        Offered(e) /\ ~Faulty(e) => e \in g.components
  <2>1. OfKind(config, RegistryKinds \cap Requiring) =
          OfKind(config, RegistryKinds) \cap OfKind(config, Requiring)
    BY DEF OfKind
  <2> QED
    BY <1>1, <1>2, <2>1, OfferedResolved DEF Components
<1> QED
  BY <1>2, <1>3, <1>4, <1>5 DEF RegistryOK, g

LEMMA FinishStep ==
  ASSUME Inv, NEW r \in Runs, Finish(r)
  PROVE  Inv'
<1>1. /\ UNCHANGED <<config, installed, pluginStore, pending, loaded, faults, listed, initialized,
                     page>>
      /\ run[r] = "modules" /\ pending[r] = {}
  BY DEF Finish, session
<1>2. Progress'
  BY <1>1 DEF Finish, Inv, Progress
<1>3. \A q \in Runs : LoadedOK(q)'
  BY <1>1 DEF Finish, Inv, Progress, LoadedOK
<1>4. AppOK(CreateApp(r)) /\ RegistryOK(Registry(r))
  BY <1>1, CreatedApp, SetRegistry
<1>5. SignInPages' = SignInPages /\ \A e : Offered(e)' = Offered(e) /\ Faulty(e)' = Faulty(e)
  BY <1>1 DEF SignInPages, Offered, Faulty
<1>6. app' # Undefined => AppOK(app)'
  <2>1. PICK a : a = app' /\ (a # Undefined => AppOK(a))
    BY <1>4 DEF Finish, Inv
  <2>2. a # Undefined => FirstWorking(app.signInPage)'
    BY <1>1, <1>5, <2>1 DEF AppOK, FirstWorking
  <2> QED
    BY <1>1, <1>5, <2>1, <2>2 DEF AppOK
<1>7. RegistryOK(registry)'
  <2>1. PICK g : g = registry' /\ RegistryOK(g)
    BY <1>4 DEF Finish
  <2> QED
    BY <1>1, <1>5, <2>1 DEF RegistryOK
<1> QED
  BY <1>1, <1>2, <1>3, <1>6, <1>7 DEF Inv, KnownConfig

LEMMA Step == Inv /\ [Next]_vars => Inv'
<1> SUFFICES ASSUME Inv, [Next]_vars
             PROVE  Inv'
  OBVIOUS
<1>1. 1 \in Runs
  BY MaxRunsAssumption DEF Runs
<1>2. CASE Next
  BY <1>1, <1>2, BootStep, SettleStep, FinishStep DEF Next, Boot, Settle
<1>3. CASE UNCHANGED vars
  BY <1>3, FaultsGrow DEF vars, session, Inv, Progress, LoadedOK
<1> QED
  BY <1>2, <1>3

(* initializeRemoteModules at each of its awaits, however many calls there *)
(* are: what is loaded, what is awaited and what has failed.               *)
THEOREM InvAlways == Spec => []Inv
BY InitInv, Step, PTL DEF Spec


-----------------------------------------------------------------------------
(* The properties.                                                         *)

LEMMA SoundTargets ==
  ASSUME AppOK(app), NEW n,
         NamedBy(n, {e \in ExtractDynamicConfig(config) :
                       e.kind = "routeBindingTarget" /\ ~Faulty(e)})
  PROVE  n \in Targets(app.components)
BY DEF AppOK, NamedBy, Targets, OfKind, AppKinds

LEMMA InvIsolated == Inv => Isolated
<1> SUFFICES ASSUME Inv
             PROVE  Isolated
  OBVIOUS
<1>1. ASSUME NEW e \in ExtractDynamicConfig(config), e.kind \in Requiring, Offered(e), ~Faulty(e)
      PROVE  /\ e.kind \in AppKinds /\ app # Undefined => e \in app.components
             /\ e.kind \in RegistryKinds /\ registry # Undefined => e \in registry.components
  BY <1>1 DEF Inv, AppOK, RegistryOK, OfKind
<1>2. ASSUME app # Undefined, NEW b \in RouteBindings(config), NEW t \in b.to,
             b.target \in Targets(app.components), t \in Targets(app.components)
      PROVE  [from |-> b.target, to |-> t, found |-> TRUE] \in app.bindings
  <2> DEFINE made(x) == {[from |-> x.target, to |-> u, found |-> u \in Targets(app.components)] :
                           u \in x.to}
  <2>1. app.bindings =
          UNION {made(x) : x \in {y \in RouteBindings(config) : y.target \in Targets(app.components)}}
    BY <1>2 DEF Inv, AppOK
  <2>2. [from |-> b.target, to |-> t, found |-> TRUE] \in made(b)
    BY <1>2
  <2> HIDE DEF made
  <2> QED
    BY <1>2, <2>1, <2>2
<1>3. ASSUME app # Undefined, registry # Undefined, NEW e \in ProviderSettings(config),
             NEW m \in RequiredModules(config) \ faults, m[1] \notin IgnoredScopes,
             m \in DOMAIN PluginApis, e.provider \in PluginApis[m]
      PROVE  e \in ShownSettings
  BY <1>3 DEF Inv, AppOK, RegistryOK, ShownSettings
<1> QED
  BY <1>1, <1>2, <1>3, SoundTargets DEF Inv, Isolated

LEMMA InvOnlyOffered == Inv => OnlyOffered
<1> SUFFICES ASSUME Inv
             PROVE  OnlyOffered
  OBVIOUS
<1>1. ASSUME NEW e \in Present
      PROVE  /\ Offered(e)
             /\ e.kind = "menuItem" =>
                  \E f \in registry.components :
                    f.kind = "dynamicRoute" /\ <<f.module, f.importName>> = e.of /\ f.scope = e.scope
  <2>1. CASE app # Undefined /\ e \in app.components
    BY <2>1 DEF Inv, AppOK, OfKind, AppKinds
  <2>2. CASE registry # Undefined /\ e \in registry.components
    BY <2>2 DEF Inv, RegistryOK, HasRoute
  <2> QED
    BY <2>1, <2>2 DEF Present
<1>2. ASSUME app # Undefined, NEW n \in Targets(app.components)
      PROVE  NamedBy(n, app.components)
  BY <1>2 DEF Inv, AppOK, Targets, NamedBy
<1>3. ASSUME app # Undefined, NEW x \in app.bindings
      PROVE  NamedBy(x.from, app.components) /\ (x.found => NamedBy(x.to, app.components))
  <2>1. PICK b \in RouteBindings(config) :
          /\ b.target \in Targets(app.components)
          /\ \E t \in b.to :
               x = [from |-> b.target, to |-> t, found |-> t \in Targets(app.components)]
    BY <1>3 DEF Inv, AppOK
  <2>2. PICK t \in b.to :
          x = [from |-> b.target, to |-> t, found |-> t \in Targets(app.components)]
    BY <2>1
  <2>3. x.from = b.target /\ x.to = t
    BY <2>2
  <2>4. x.found = (t \in Targets(app.components))
    BY <2>2
  <2>5. x.found => t \in Targets(app.components)
    BY <2>4, Zenon
  <2> QED
    BY <1>2, <1>3, <2>1, <2>3, <2>5
<1> QED
  BY <1>1, <1>2, <1>3 DEF OnlyOffered

(* initializeRemotePlugins and DynamicRoot: whatever fails to load, in     *)
(* whatever order and in however many calls, no other plugin's component,  *)
(* route or setting is missing.                                            *)
THEOREM IsolatedAlways == Spec => []Isolated
BY InvAlways, InvIsolated, PTL

(* DynamicRoot: what was not found is left out, so that nothing undefined  *)
(* is rendered, and no menu item is without its route.                     *)
THEOREM OnlyOfferedAlways == Spec => []OnlyOffered
BY InvAlways, InvOnlyOffered, PTL

(* "use the first working instance": of any number of sign-in pages.       *)
THEOREM FirstWorkingSignInAlways == Spec => []FirstWorkingSignIn
<1>1. Inv => FirstWorkingSignIn
  BY DEF Inv, AppOK, FirstWorking, FirstWorkingSignIn
<1> QED
  BY <1>1, InvAlways, PTL

(* app.current: the app is created by the first call that ends, and kept.  *)
THEOREM AppKeptAlways == Spec => AppKept
<1>1. [Next]_vars => [app # Undefined => app' = app]_vars
  <2>1. ASSUME NEW r \in Runs \cup {1}, Start(r) \/ Settle(r)
        PROVE  app # Undefined => app' = app
    BY <2>1 DEF Start, Settle, GetModules, Throw, Show, AfterInitFails, ManifestProcessed,
       ManifestFails, ModuleLoaded, ModuleFails, Finish
  <2>2. Boot => UNCHANGED app \/ Start(1)
    BY DEF Boot, ConfigLoaded, ConfigFails, ListingReply, ListingFails, ScalprumInitialized
  <2> QED
    BY <2>1, <2>2 DEF Next
<1> QED
  BY <1>1, PTL DEF Spec, AppKept
=============================================================================
